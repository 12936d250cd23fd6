----------------------------- MODULE ChatProofs -----------------------------
(***************************************************************************)
(* Proofs about the answers of bots for any bots, users, texts and lengths *)
(* of queues.                                                              *)
(***************************************************************************)
EXTENDS Chat, SequenceTheorems, TLAPS

IrcMessage == [to : Bots \cup {Channel}, text : Texts]
XmppMessage == [from : Users, text : Texts \cup {NULL}, number : Nat]
Command == [via : {"irc"}, to : Bots \cup {Channel}, text : Texts, number : Nat]
           \cup [via : {"xmpp"}, to : Users, text : Texts, number : Nat]

-----------------------------------------------------------------------------
(* Sequences of numbers *)

InRange(s, lo, hi) == \A i \in 1..Len(s) : s[i] # 0 => s[i] > lo /\ s[i] <= hi
AllThere(s, lo, hi) == \A k \in (lo + 1)..hi : \E i \in 1..Len(s) : s[i] = k
InOrder(s) == \A i, j \in 1..Len(s) : i < j /\ s[i] # 0 /\ s[j] # 0 => s[i] < s[j]

LEMMA AscendingMeans ==
  ASSUME NEW s \in Seq(Nat), NEW lo \in Nat, NEW hi \in Nat
  PROVE  Ascending(s, lo, hi) <=> InRange(s, lo, hi) /\ AllThere(s, lo, hi) /\ InOrder(s)
<1> DEFINE set == {s[i] : i \in 1..Len(s)} \ {0}
<1>1. \A i \in 1..Len(s) : s[i] \in Nat
  BY ElementOfSeq
<1>2. ASSUME set = (lo + 1)..hi PROVE InRange(s, lo, hi) /\ AllThere(s, lo, hi)
  <2>1. \A i \in 1..Len(s) : s[i] # 0 => s[i] \in set
    OBVIOUS
  <2>2. \A k \in set : \E i \in 1..Len(s) : s[i] = k
    OBVIOUS
  <2> HIDE DEF set
  <2> QED
    BY <1>1, <1>2, <2>1, <2>2 DEF InRange, AllThere
<1>3. ASSUME InRange(s, lo, hi), AllThere(s, lo, hi) PROVE set = (lo + 1)..hi
  <2>1. ASSUME NEW k \in set PROVE k \in (lo + 1)..hi
    <3>1. PICK i \in 1..Len(s) : k = s[i] /\ k # 0
      OBVIOUS
    <3> QED
      BY <1>1, <1>3, <3>1 DEF InRange
  <2>2. ASSUME NEW k \in (lo + 1)..hi PROVE k \in set
    <3>1. PICK i \in 1..Len(s) : s[i] = k
      BY <1>3 DEF AllThere
    <3>2. k # 0
      OBVIOUS
    <3> QED
      BY <3>1, <3>2
  <2> QED
    BY <2>1, <2>2
<1> QED
  BY <1>2, <1>3 DEF Ascending, InOrder

LEMMA Extended ==
  ASSUME NEW s \in Seq(Nat), NEW t \in Seq(Nat), NEW lo \in Nat, NEW hi \in Nat, lo <= hi,
         Len(t) = Len(s) + 1, \A i \in 1..Len(s) : t[i] = s[i], t[Len(t)] = hi + 1,
         Ascending(s, lo, hi)
  PROVE  Ascending(t, lo, hi + 1)
<1>1. Len(s) \in Nat /\ Len(t) \in Nat /\ Len(t) \in 1..Len(t)
  OBVIOUS
<1>2. InRange(s, lo, hi) /\ AllThere(s, lo, hi) /\ InOrder(s)
  BY AscendingMeans
<1>3. \A i \in 1..Len(s) : s[i] \in Nat
  BY ElementOfSeq
<1>4. \A i \in 1..Len(t) : i = Len(t) \/ i \in 1..Len(s)
  BY <1>1
<1>5. InRange(t, lo, hi + 1)
  BY <1>2, <1>3, <1>4 DEF InRange
<1>6. AllThere(t, lo, hi + 1)
  <2> SUFFICES ASSUME NEW k \in (lo + 1)..(hi + 1) PROVE \E i \in 1..Len(t) : t[i] = k
    BY DEF AllThere
  <2>1. CASE k = hi + 1
    BY <1>1, <2>1
  <2>2. CASE k # hi + 1
    <3>1. k \in (lo + 1)..hi
      BY <2>2
    <3>2. PICK i \in 1..Len(s) : s[i] = k
      BY <1>2, <3>1 DEF AllThere
    <3>3. i \in 1..Len(t)
      BY <1>1
    <3> QED
      BY <3>2, <3>3
  <2> QED
    BY <2>1, <2>2
<1>7. InOrder(t)
  <2> SUFFICES ASSUME NEW i \in 1..Len(t), NEW j \in 1..Len(t), i < j, t[i] # 0, t[j] # 0
               PROVE  t[i] < t[j]
    BY DEF InOrder
  <2>1. i \in 1..Len(s) /\ t[i] = s[i]
    BY <1>1
  <2>2. CASE j = Len(t)
    BY <1>2, <1>3, <2>1, <2>2 DEF InRange
  <2>3. CASE j # Len(t)
    <3>1. j \in 1..Len(s) /\ t[j] = s[j]
      BY <1>4, <2>3
    <3> QED
      BY <1>2, <2>1, <3>1 DEF InOrder
  <2> QED
    BY <2>2, <2>3
<1> QED
  BY <1>5, <1>6, <1>7, AscendingMeans

(* The first number is the next one.                                       *)
LEMMA Shortened ==
  ASSUME NEW s \in Seq(Nat), NEW t \in Seq(Nat), NEW lo \in Nat, NEW hi \in Nat,
         Len(s) >= 1, Len(t) = Len(s) - 1, \A i \in 1..Len(t) : t[i] = s[i + 1],
         Ascending(s, lo, hi), s[1] # 0
  PROVE  Ascending(t, lo + 1, hi) /\ lo + 1 <= hi
<1>1. Len(s) \in Nat /\ Len(t) \in Nat /\ 1 \in 1..Len(s)
  OBVIOUS
<1>2. InRange(s, lo, hi) /\ AllThere(s, lo, hi) /\ InOrder(s)
  BY AscendingMeans
<1>3. \A i \in 1..Len(s) : s[i] \in Nat
  BY ElementOfSeq
<1>4. \A i \in 1..Len(s) : i # 1 /\ s[i] # 0 => s[1] < s[i]
  BY <1>1, <1>2 DEF InOrder
<1>5. lo + 1 <= s[1] /\ s[1] <= hi
  BY <1>1, <1>2, <1>3 DEF InRange
<1>6. s[1] = lo + 1
  <2>1. lo + 1 \in (lo + 1)..hi
    BY <1>1, <1>3, <1>5
  <2>2. PICK i \in 1..Len(s) : s[i] = lo + 1
    BY <1>2, <2>1 DEF AllThere
  <2>3. s[i] # 0
    BY <2>2
  <2>4. ~(s[1] < s[i])
    BY <1>1, <1>3, <1>5, <2>2
  <2> QED
    BY <1>4, <2>2, <2>3, <2>4
<1>7. \A i \in 1..Len(t) : i + 1 \in 1..Len(s) /\ i + 1 # 1
  BY <1>1
<1>8. InRange(t, lo + 1, hi)
  BY <1>2, <1>3, <1>4, <1>6, <1>7 DEF InRange
<1>9. AllThere(t, lo + 1, hi)
  <2> SUFFICES ASSUME NEW k \in (lo + 1 + 1)..hi PROVE \E i \in 1..Len(t) : t[i] = k
    BY DEF AllThere
  <2>1. PICK i \in 1..Len(s) : s[i] = k
    BY <1>2 DEF AllThere
  <2>2. i # 1
    BY <1>6, <2>1
  <2>3. i - 1 \in 1..Len(t) /\ t[i - 1] = s[i - 1 + 1]
    BY <1>1, <2>2
  <2>4. i - 1 + 1 = i
    OBVIOUS
  <2> QED
    BY <2>1, <2>3, <2>4
<1>10. InOrder(t)
  <2> SUFFICES ASSUME NEW i \in 1..Len(t), NEW j \in 1..Len(t), i < j, t[i] # 0, t[j] # 0
               PROVE  t[i] < t[j]
    BY DEF InOrder
  <2>1. i + 1 < j + 1
    OBVIOUS
  <2> QED
    BY <1>2, <1>7, <2>1 DEF InOrder
<1> QED
  BY <1>5, <1>6, <1>8, <1>9, <1>10, AscendingMeans

(* s is t with a 0 at position k. *)
LEMMA Padded ==
  ASSUME NEW s \in Seq(Nat), NEW t \in Seq(Nat), NEW lo \in Nat, NEW hi \in Nat,
         NEW k \in 1..Len(s), s[k] = 0, Len(s) = Len(t) + 1,
         \A i \in 1..Len(t) : t[i] = IF i < k THEN s[i] ELSE s[i + 1]
  PROVE  Ascending(s, lo, hi) <=> Ascending(t, lo, hi)
<1>1. Len(s) \in Nat /\ Len(t) \in Nat /\ k \in Nat /\ k >= 1 /\ k <= Len(s)
  OBVIOUS
<1> DEFINE at(i) == IF i < k THEN i ELSE i + 1
           back(i) == IF i < k THEN i ELSE i - 1
<1>2. \A i \in 1..Len(t) : at(i) \in 1..Len(s) /\ t[i] = s[at(i)]
  BY <1>1
<1>3. \A i, j \in 1..Len(t) : i < j => at(i) < at(j)
  BY <1>1, SMTT(30)
<1>4. ASSUME NEW i \in 1..Len(s), s[i] # 0
      PROVE  back(i) \in 1..Len(t) /\ s[i] = t[back(i)]
  <2>1. i # k
    BY <1>4
  <2>2. CASE i < k
    BY <1>1, <2>2
  <2>3. CASE i > k
    <3>1. back(i) = i - 1 /\ i - 1 \in 1..Len(t) /\ ~(i - 1 < k) /\ i - 1 + 1 = i
      BY <1>1, <2>3
    <3>2. t[i - 1] = s[i - 1 + 1]
      BY <3>1
    <3> QED
      BY <3>1, <3>2
  <2> QED
    BY <1>1, <2>1, <2>2, <2>3
<1>5. \A i, j \in 1..Len(s) : i < j /\ i # k /\ j # k => back(i) < back(j)
  BY <1>1
<1> HIDE DEF at, back
<1>6. InRange(s, lo, hi) <=> InRange(t, lo, hi)
  BY <1>2, <1>4 DEF InRange
<1>7. AllThere(s, lo, hi) <=> AllThere(t, lo, hi)
  <2>1. \A x \in (lo + 1)..hi : x # 0
    OBVIOUS
  <2>2. \A x : x # 0 => ((\E i \in 1..Len(s) : s[i] = x) <=> (\E i \in 1..Len(t) : t[i] = x))
    BY <1>2, <1>4
  <2> QED
    BY <2>1, <2>2 DEF AllThere
<1>8. ASSUME InOrder(s) PROVE InOrder(t)
  BY <1>2, <1>3, <1>8 DEF InOrder
<1>9. ASSUME InOrder(t) PROVE InOrder(s)
  <2> SUFFICES ASSUME NEW i \in 1..Len(s), NEW j \in 1..Len(s), i < j, s[i] # 0, s[j] # 0
               PROVE  s[i] < s[j]
    BY DEF InOrder
  <2>1. back(i) < back(j)
    BY <1>5
  <2> QED
    BY <1>4, <1>9, <2>1 DEF InOrder
<1> QED
  BY <1>6, <1>7, <1>8, <1>9, AscendingMeans

-----------------------------------------------------------------------------
(* What waits for a bot *)

CommandNumber(c, u) == IF c.via = "xmpp" /\ c.to = u THEN c.number ELSE 0
MessageNumber(m, u) == IF m.from = u /\ m.text # NULL THEN m.number ELSE 0

LEMMA Numbers ==
  ASSUME NEW u
  PROVE  /\ \A c \in Command : CommandNumber(c, u) \in Nat
         /\ \A m \in XmppMessage : MessageNumber(m, u) \in Nat
<1>1. \A c \in Command : c.number \in Nat
  BY DEF Command
<1>2. \A m \in XmppMessage : m.number \in Nat
  BY DEF XmppMessage
<1> QED
  BY <1>1, <1>2 DEF CommandNumber, MessageNumber

LEMMA Joined ==
  ASSUME NEW s \in Seq(Nat), NEW t \in Seq(Nat)
  PROVE  /\ s \o t \in Seq(Nat) /\ Len(s \o t) = Len(s) + Len(t)
         /\ \A i \in 1..Len(s) : (s \o t)[i] = s[i]
         /\ \A i \in 1..Len(t) : (s \o t)[Len(s) + i] = t[i]
<1>1. \A i \in 1..Len(t) : Len(s) + i \in 1..(Len(s) + Len(t)) /\ Len(s) + i > Len(s)
                           /\ Len(s) + i - Len(s) = i
  OBVIOUS
<1> QED
  BY <1>1, ConcatProperties

LEMMA PendingShape ==
  ASSUME NEW q \in Seq(Command), NEW x \in Seq(XmppMessage), NEW u
  PROVE  /\ Pending(q, x, u) \in Seq(Nat)
         /\ Len(Pending(q, x, u)) = Len(q) + Len(x)
         /\ \A i \in 1..Len(q) : Pending(q, x, u)[i] = CommandNumber(q[i], u)
         /\ \A i \in 1..Len(x) : Pending(q, x, u)[Len(q) + i] = MessageNumber(x[i], u)
<1> DEFINE s == [i \in 1..Len(q) |-> CommandNumber(q[i], u)]
           t == [i \in 1..Len(x) |-> MessageNumber(x[i], u)]
<1>1. Pending(q, x, u) = s \o t
  BY DEF Pending, CommandNumber, MessageNumber
<1>2. Len(q) \in Nat /\ Len(x) \in Nat
  OBVIOUS
<1>3. \A i \in 1..Len(q) : q[i] \in Command
  BY ElementOfSeq
<1>4. \A i \in 1..Len(x) : x[i] \in XmppMessage
  BY ElementOfSeq
<1>5. s \in [1..Len(q) -> Nat] /\ t \in [1..Len(x) -> Nat]
  BY <1>3, <1>4, Numbers
<1>6. s \in Seq(Nat) /\ Len(s) = Len(q) /\ t \in Seq(Nat) /\ Len(t) = Len(x)
  BY <1>2, <1>5, SeqDef, LenProperties
<1>7. /\ \A i \in 1..Len(q) : s[i] = CommandNumber(q[i], u)
      /\ \A i \in 1..Len(x) : t[i] = MessageNumber(x[i], u)
  OBVIOUS
<1>8. /\ s \o t \in Seq(Nat) /\ Len(s \o t) = Len(s) + Len(t)
      /\ \A i \in 1..Len(s) : (s \o t)[i] = s[i]
      /\ \A i \in 1..Len(t) : (s \o t)[Len(s) + i] = t[i]
  <2> HIDE DEF s, t
  <2> QED
    BY <1>6, Joined
<1> HIDE DEF s, t
<1> QED
  BY <1>1, <1>6, <1>7, <1>8

(* What one more element, or one less in front, does to a sequence. *)
LEMMA OneMore ==
  ASSUME NEW S, NEW s \in Seq(S), NEW e \in S
  PROVE  /\ Append(s, e) \in Seq(S) /\ Len(Append(s, e)) = Len(s) + 1
         /\ \A i \in 1..Len(s) : Append(s, e)[i] = s[i]
         /\ Append(s, e)[Len(s) + 1] = e
  OBVIOUS

LEMMA OneLess ==
  ASSUME NEW S, NEW s \in Seq(S), s # <<>>
  PROVE  /\ Head(s) \in S /\ Head(s) = s[1] /\ Len(s) \in Nat /\ Len(s) >= 1
         /\ Tail(s) \in Seq(S) /\ Len(Tail(s)) = Len(s) - 1
         /\ \A i \in 1..(Len(s) - 1) : Tail(s)[i] = s[i + 1]
  BY HeadTailProperties

-----------------------------------------------------------------------------
(* What the steps do to it *)

LEMMA Told ==
  ASSUME NEW q \in Seq(Command), NEW x \in Seq(XmppMessage), NEW u, NEW m \in XmppMessage,
         NEW lo \in Nat, NEW hi \in Nat, lo <= hi,
         Ascending(Pending(q, x, u), lo, hi)
  PROVE  /\ MessageNumber(m, u) = 0 => Ascending(Pending(q, Append(x, m), u), lo, hi)
         /\ MessageNumber(m, u) = hi + 1 => Ascending(Pending(q, Append(x, m), u), lo, hi + 1)
<1> DEFINE s == Pending(q, x, u)
           y == Append(x, m)
           t == Pending(q, y, u)
<1>1. /\ Len(q) \in Nat /\ Len(x) \in Nat
      /\ y \in Seq(XmppMessage) /\ Len(y) = Len(x) + 1
      /\ \A i \in 1..Len(x) : y[i] = x[i]
      /\ y[Len(x) + 1] = m
  BY OneMore, LenProperties
<1> HIDE DEF y
<1>2. /\ s \in Seq(Nat) /\ Len(s) = Len(q) + Len(x)
      /\ \A i \in 1..Len(q) : s[i] = CommandNumber(q[i], u)
      /\ \A i \in 1..Len(x) : s[Len(q) + i] = MessageNumber(x[i], u)
  BY PendingShape
<1>3. /\ t \in Seq(Nat) /\ Len(t) = Len(q) + Len(y)
      /\ \A i \in 1..Len(q) : t[i] = CommandNumber(q[i], u)
      /\ \A i \in 1..Len(y) : t[Len(q) + i] = MessageNumber(y[i], u)
  BY <1>1, PendingShape
<1> HIDE DEF s, t
<1>4. Len(t) = Len(s) + 1 /\ Len(t) = Len(q) + (Len(x) + 1) /\ Len(x) + 1 \in 1..Len(y)
  BY <1>1, <1>2, <1>3
<1>5. t[Len(t)] = MessageNumber(m, u)
  BY <1>1, <1>3, <1>4
<1>6. ASSUME NEW i \in 1..Len(s) PROVE t[i] = s[i]
  <2>1. CASE i \in 1..Len(q)
    BY <1>2, <1>3, <2>1
  <2>2. CASE i \notin 1..Len(q)
    <3>1. i - Len(q) \in 1..Len(x) /\ i - Len(q) \in 1..Len(y) /\ Len(q) + (i - Len(q)) = i
      BY <1>1, <1>2, <2>2
    <3>2. y[i - Len(q)] = x[i - Len(q)]
      BY <1>1, <3>1
    <3>3. /\ s[Len(q) + (i - Len(q))] = MessageNumber(x[i - Len(q)], u)
          /\ t[Len(q) + (i - Len(q))] = MessageNumber(y[i - Len(q)], u)
      BY <1>2, <1>3, <3>1
    <3> QED
      BY <3>1, <3>2, <3>3
  <2> QED
    BY <2>1, <2>2
<1>7. Ascending(s, lo, hi)
  BY DEF s
<1>8. MessageNumber(m, u) = 0 => Ascending(t, lo, hi)
  <2> SUFFICES ASSUME MessageNumber(m, u) = 0 PROVE Ascending(t, lo, hi)
    OBVIOUS
  <2>1. Len(t) \in 1..Len(t) /\ t[Len(t)] = 0 /\ \A i \in 1..Len(s) : i < Len(t)
    BY <1>1, <1>2, <1>4, <1>5
  <2>2. \A i \in 1..Len(s) : s[i] = IF i < Len(t) THEN t[i] ELSE t[i + 1]
    BY <1>6, <2>1
  <2> QED
    BY <1>2, <1>3, <1>4, <1>7, <2>1, <2>2, Padded
<1>9. MessageNumber(m, u) = hi + 1 => Ascending(t, lo, hi + 1)
  BY <1>2, <1>3, <1>4, <1>5, <1>6, <1>7, Extended
<1> QED
  BY <1>8, <1>9 DEF t, y

(* A command that is not by u waits behind the others. *)
LEMMA Interposed ==
  ASSUME NEW q \in Seq(Command), NEW x \in Seq(XmppMessage), NEW u, NEW c \in Command,
         NEW lo \in Nat, NEW hi \in Nat,
         CommandNumber(c, u) = 0, Ascending(Pending(q, x, u), lo, hi)
  PROVE  Ascending(Pending(Append(q, c), x, u), lo, hi)
<1> DEFINE s == Pending(q, x, u)
           r == Append(q, c)
           t == Pending(r, x, u)
<1>1. /\ Len(q) \in Nat /\ Len(x) \in Nat
      /\ r \in Seq(Command) /\ Len(r) = Len(q) + 1
      /\ \A i \in 1..Len(q) : r[i] = q[i]
      /\ r[Len(q) + 1] = c
  BY OneMore, LenProperties
<1> HIDE DEF r
<1>2. /\ s \in Seq(Nat) /\ Len(s) = Len(q) + Len(x)
      /\ \A i \in 1..Len(q) : s[i] = CommandNumber(q[i], u)
      /\ \A i \in 1..Len(x) : s[Len(q) + i] = MessageNumber(x[i], u)
  BY PendingShape
<1>3. /\ t \in Seq(Nat) /\ Len(t) = Len(r) + Len(x)
      /\ \A i \in 1..Len(r) : t[i] = CommandNumber(r[i], u)
      /\ \A i \in 1..Len(x) : t[Len(r) + i] = MessageNumber(x[i], u)
  BY <1>1, PendingShape
<1>4. Ascending(s, lo, hi)
  BY DEF s
<1> HIDE DEF s, t
<1> DEFINE k == Len(q) + 1
<1>5. k \in 1..Len(t) /\ k \in 1..Len(r) /\ Len(t) = Len(s) + 1
  BY <1>1, <1>2, <1>3
<1>6. t[k] = 0
  BY <1>1, <1>3, <1>5
<1>7. ASSUME NEW i \in 1..Len(s) PROVE s[i] = IF i < k THEN t[i] ELSE t[i + 1]
  <2>1. CASE i < k
    <3>1. i \in 1..Len(q) /\ i \in 1..Len(r)
      BY <1>1, <2>1
    <3>2. r[i] = q[i]
      BY <1>1, <3>1
    <3>3. s[i] = CommandNumber(q[i], u) /\ t[i] = CommandNumber(r[i], u)
      BY <1>2, <1>3, <3>1
    <3> QED
      BY <2>1, <3>2, <3>3
  <2>2. CASE ~(i < k)
    <3>1. i - Len(q) \in 1..Len(x) /\ Len(q) + (i - Len(q)) = i /\ Len(r) + (i - Len(q)) = i + 1
      BY <1>1, <1>2, <2>2
    <3>2. /\ s[Len(q) + (i - Len(q))] = MessageNumber(x[i - Len(q)], u)
          /\ t[Len(r) + (i - Len(q))] = MessageNumber(x[i - Len(q)], u)
      BY <1>2, <1>3, <3>1
    <3> QED
      BY <2>2, <3>1, <3>2
  <2> QED
    BY <2>1, <2>2
<1> HIDE DEF k
<1>8. Ascending(t, lo, hi)
  BY <1>2, <1>3, <1>4, <1>5, <1>6, <1>7, Padded
<1> QED
  BY <1>8 DEF t, r

(* The oldest message becomes the newest command. *)
LEMMA Passed ==
  ASSUME NEW q \in Seq(Command), NEW x \in Seq(XmppMessage), NEW u, NEW c \in Command,
         x # <<>>, CommandNumber(c, u) = MessageNumber(Head(x), u)
  PROVE  Pending(Append(q, c), Tail(x), u) = Pending(q, x, u)
<1> DEFINE s == Pending(q, x, u)
           r == Append(q, c)
           y == Tail(x)
           t == Pending(r, y, u)
<1>1. /\ Len(q) \in Nat
      /\ r \in Seq(Command) /\ Len(r) = Len(q) + 1
      /\ \A i \in 1..Len(q) : r[i] = q[i]
      /\ r[Len(q) + 1] = c
  BY OneMore, LenProperties
<1>2. /\ Len(x) \in Nat /\ Len(x) >= 1 /\ Head(x) = x[1]
      /\ y \in Seq(XmppMessage) /\ Len(y) = Len(x) - 1
      /\ \A i \in 1..(Len(x) - 1) : y[i] = x[i + 1]
  BY OneLess
<1> HIDE DEF r, y
<1>3. /\ s \in Seq(Nat) /\ Len(s) = Len(q) + Len(x)
      /\ \A i \in 1..Len(q) : s[i] = CommandNumber(q[i], u)
      /\ \A i \in 1..Len(x) : s[Len(q) + i] = MessageNumber(x[i], u)
  BY PendingShape
<1>4. /\ t \in Seq(Nat) /\ Len(t) = Len(r) + Len(y)
      /\ \A i \in 1..Len(r) : t[i] = CommandNumber(r[i], u)
      /\ \A i \in 1..Len(y) : t[Len(r) + i] = MessageNumber(y[i], u)
  BY <1>1, <1>2, PendingShape, ZenonT(60)
<1> HIDE DEF s, t
<1>5. Len(s) = Len(t)
  BY <1>1, <1>2, <1>3, <1>4
<1>6. ASSUME NEW i \in 1..Len(s) PROVE s[i] = t[i]
  <2>1. CASE i \in 1..Len(q)
    <3>1. i \in 1..Len(r)
      BY <1>1, <2>1
    <3>2. r[i] = q[i] /\ s[i] = CommandNumber(q[i], u) /\ t[i] = CommandNumber(r[i], u)
      BY <1>1, <1>3, <1>4, <2>1, <3>1
    <3> QED
      BY <3>2
  <2>2. CASE i = Len(q) + 1
    <3>1. 1 \in 1..Len(x) /\ Len(q) + 1 \in 1..Len(r)
      BY <1>1, <1>2
    <3>2. /\ s[Len(q) + 1] = MessageNumber(x[1], u)
          /\ t[Len(q) + 1] = CommandNumber(r[Len(q) + 1], u)
      BY <1>3, <1>4, <3>1
    <3> QED
      BY <1>1, <1>2, <2>2, <3>2
  <2>3. CASE i \notin 1..Len(q) /\ i # Len(q) + 1
    <3> DEFINE j == i - Len(q) - 1
    <3>1. /\ j \in 1..Len(y) /\ j \in 1..(Len(x) - 1) /\ j + 1 \in 1..Len(x)
          /\ Len(q) + (j + 1) = i /\ Len(r) + j = i
      BY <1>1, <1>2, <1>3, <2>3
    <3> HIDE DEF j
    <3>2. y[j] = x[j + 1]
      BY <1>2, <3>1
    <3>3. /\ s[Len(q) + (j + 1)] = MessageNumber(x[j + 1], u)
          /\ t[Len(r) + j] = MessageNumber(y[j], u)
      BY <1>3, <1>4, <3>1
    <3> QED
      BY <3>1, <3>2, <3>3
  <2> QED
    BY <2>1, <2>2, <2>3
<1>7. s = t
  BY <1>3, <1>4, <1>5, <1>6, SeqEqual
<1> QED
  BY <1>7 DEF s, t, r, y

(* The oldest message is not one of u. *)
LEMMA Dropped ==
  ASSUME NEW q \in Seq(Command), NEW x \in Seq(XmppMessage), NEW u,
         NEW lo \in Nat, NEW hi \in Nat,
         x # <<>>, MessageNumber(Head(x), u) = 0, Ascending(Pending(q, x, u), lo, hi)
  PROVE  Ascending(Pending(q, Tail(x), u), lo, hi)
<1> DEFINE s == Pending(q, x, u)
           y == Tail(x)
           t == Pending(q, y, u)
           k == Len(q) + 1
<1>1. Len(q) \in Nat
  BY LenProperties
<1>2. /\ Len(x) \in Nat /\ Len(x) >= 1 /\ Head(x) = x[1]
      /\ y \in Seq(XmppMessage) /\ Len(y) = Len(x) - 1
      /\ \A i \in 1..(Len(x) - 1) : y[i] = x[i + 1]
  BY OneLess
<1> HIDE DEF y
<1>3. /\ s \in Seq(Nat) /\ Len(s) = Len(q) + Len(x)
      /\ \A i \in 1..Len(q) : s[i] = CommandNumber(q[i], u)
      /\ \A i \in 1..Len(x) : s[Len(q) + i] = MessageNumber(x[i], u)
  BY PendingShape
<1>4. /\ t \in Seq(Nat) /\ Len(t) = Len(q) + Len(y)
      /\ \A i \in 1..Len(q) : t[i] = CommandNumber(q[i], u)
      /\ \A i \in 1..Len(y) : t[Len(q) + i] = MessageNumber(y[i], u)
  BY <1>1, <1>2, PendingShape
<1>5. Ascending(s, lo, hi)
  BY DEF s
<1> HIDE DEF s, t
<1>6. k \in 1..Len(s) /\ Len(s) = Len(t) + 1 /\ 1 \in 1..Len(x)
  BY <1>1, <1>2, <1>3, <1>4
<1>7. s[k] = 0
  BY <1>2, <1>3, <1>6
<1>8. ASSUME NEW i \in 1..Len(t) PROVE t[i] = IF i < k THEN s[i] ELSE s[i + 1]
  <2>1. CASE i < k
    <3>1. i \in 1..Len(q)
      BY <1>1, <2>1
    <3> QED
      BY <1>3, <1>4, <2>1, <3>1
  <2>2. CASE ~(i < k)
    <3> DEFINE j == i - Len(q)
    <3>1. /\ j \in 1..Len(y) /\ j \in 1..(Len(x) - 1) /\ j + 1 \in 1..Len(x)
          /\ Len(q) + (j + 1) = i + 1 /\ Len(q) + j = i
      BY <1>1, <1>2, <1>4, <2>2
    <3> HIDE DEF j
    <3>2. y[j] = x[j + 1]
      BY <1>2, <3>1
    <3>3. /\ s[Len(q) + (j + 1)] = MessageNumber(x[j + 1], u)
          /\ t[Len(q) + j] = MessageNumber(y[j], u)
      BY <1>3, <1>4, <3>1
    <3> QED
      BY <2>2, <3>1, <3>2, <3>3
  <2> QED
    BY <2>1, <2>2
<1> HIDE DEF k
<1>9. Ascending(t, lo, hi)
  BY <1>3, <1>4, <1>5, <1>6, <1>7, <1>8, Padded
<1> QED
  BY <1>9 DEF t, y

(* The oldest command is answered: one of u is the next in turn. *)
LEMMA Answered ==
  ASSUME NEW q \in Seq(Command), NEW x \in Seq(XmppMessage), NEW u,
         NEW lo \in Nat, NEW hi \in Nat,
         q # <<>>, Ascending(Pending(q, x, u), lo, hi)
  PROVE  IF CommandNumber(Head(q), u) = 0
           THEN Ascending(Pending(Tail(q), x, u), lo, hi)
           ELSE Ascending(Pending(Tail(q), x, u), lo + 1, hi) /\ lo + 1 <= hi
<1> DEFINE s == Pending(q, x, u)
           r == Tail(q)
           t == Pending(r, x, u)
<1>1. Len(x) \in Nat
  BY LenProperties
<1>2. /\ Len(q) \in Nat /\ Len(q) >= 1 /\ Head(q) = q[1]
      /\ r \in Seq(Command) /\ Len(r) = Len(q) - 1
      /\ \A i \in 1..(Len(q) - 1) : r[i] = q[i + 1]
  BY OneLess
<1> HIDE DEF r
<1>3. /\ s \in Seq(Nat) /\ Len(s) = Len(q) + Len(x)
      /\ \A i \in 1..Len(q) : s[i] = CommandNumber(q[i], u)
      /\ \A i \in 1..Len(x) : s[Len(q) + i] = MessageNumber(x[i], u)
  BY PendingShape
<1>4. /\ t \in Seq(Nat) /\ Len(t) = Len(r) + Len(x)
      /\ \A i \in 1..Len(r) : t[i] = CommandNumber(r[i], u)
      /\ \A i \in 1..Len(x) : t[Len(r) + i] = MessageNumber(x[i], u)
  BY <1>1, <1>2, PendingShape
<1>5. Ascending(s, lo, hi)
  BY DEF s
<1> HIDE DEF s, t
<1>6. 1 \in 1..Len(s) /\ 1 \in 1..Len(q) /\ Len(s) >= 1 /\ Len(s) = Len(t) + 1 /\ Len(t) = Len(s) - 1
  BY <1>1, <1>2, <1>3, <1>4
<1>7. s[1] = CommandNumber(Head(q), u)
  BY <1>2, <1>3, <1>6
<1>8. ASSUME NEW i \in 1..Len(t) PROVE t[i] = s[i + 1]
  <2>1. CASE i \in 1..Len(r)
    <3>1. i \in 1..(Len(q) - 1) /\ i + 1 \in 1..Len(q)
      BY <1>1, <1>2, <2>1
    <3>2. r[i] = q[i + 1] /\ s[i + 1] = CommandNumber(q[i + 1], u) /\ t[i] = CommandNumber(r[i], u)
      BY <1>2, <1>3, <1>4, <2>1, <3>1
    <3> QED
      BY <3>2
  <2>2. CASE i \notin 1..Len(r)
    <3> DEFINE j == i - Len(r)
    <3>1. j \in 1..Len(x) /\ Len(q) + j = i + 1 /\ Len(r) + j = i
      BY <1>1, <1>2, <1>4, <2>2
    <3> HIDE DEF j
    <3>2. /\ s[Len(q) + j] = MessageNumber(x[j], u)
          /\ t[Len(r) + j] = MessageNumber(x[j], u)
      BY <1>3, <1>4, <3>1
    <3> QED
      BY <3>1, <3>2
  <2> QED
    BY <2>1, <2>2
<1>9. s[1] = 0 => Ascending(t, lo, hi)
  <2> SUFFICES ASSUME s[1] = 0 PROVE Ascending(t, lo, hi)
    OBVIOUS
  <2>1. \A i \in 1..Len(t) : t[i] = IF i < 1 THEN s[i] ELSE s[i + 1]
    BY <1>8
  <2> QED
    BY <1>3, <1>4, <1>5, <1>6, <2>1, Padded
<1>10. s[1] # 0 => Ascending(t, lo + 1, hi) /\ lo + 1 <= hi
  BY <1>3, <1>4, <1>5, <1>6, <1>8, Shortened
<1> QED
  BY <1>7, <1>9, <1>10 DEF t, r

-----------------------------------------------------------------------------
(* The invariant: what the variables hold; a bot that is not online yet    *)
(* has neither messages nor commands from XMPP; what carries no number is  *)
(* a bounce, from somebody who has left; and what is promised.             *)

Shapes == /\ irc \in [Bots -> {"connecting", "in", "lost"}]
          /\ xmpp \in [Bots -> {"connecting", "online", "off"}]
          /\ named \subseteq Bots /\ gone \subseteq Users /\ said \in 0..Quota
          /\ ircbox \in [Bots -> Seq(IrcMessage)]
          /\ xmppbox \in [Bots -> Seq(XmppMessage)]
          /\ queue \in [Bots -> Seq(Command)]
          /\ environment \in [Bots -> [Names -> Texts \cup {NULL}]]
          /\ \A b \in Bots : Len(queue[b]) <= Capacity
          /\ asked \in [Bots -> [Users -> Nat]] /\ got \in [Bots -> [Users -> Nat]]

Unheard(b) ==
  xmpp[b] = "connecting" =>
    /\ xmppbox[b] = <<>>
    /\ \A i \in 1..Len(queue[b]) : queue[b][i].via = "irc"
    /\ \A u \in Users : asked[b][u] = 0 /\ got[b][u] = 0

Bounces(b) ==
  /\ \A i \in 1..Len(queue[b]) :
       queue[b][i].via = "xmpp" /\ queue[b][i].number = 0 => queue[b][i].to \in gone
  /\ \A i \in 1..Len(xmppbox[b]) :
       xmppbox[b][i].text # NULL /\ xmppbox[b][i].number = 0 => xmppbox[b][i].from \in gone

InTurn(b, u) ==
  xmpp[b] = "online" /\ u \notin gone =>
    /\ Ascending(Pending(queue[b], xmppbox[b], u), got[b][u], asked[b][u])
    /\ got[b][u] <= asked[b][u]

Served(b) == Unheard(b) /\ Bounces(b) /\ \A u \in Users : InTurn(b, u)

ChatInv == Shapes /\ \A b \in Bots : Served(b)

-----------------------------------------------------------------------------
(* What is said, and what a bot has to say *)

LEMMA WhatIsSaid == Said \subseteq Texts /\ Written \subseteq Texts \cup {NULL}
BY TextAssumption

LEMMA WhatCommandsDo ==
  ASSUME NEW text \in Texts
  PROVE  /\ text.does \in {"nothing", "set", "get", "other"}
         /\ text.mentions \in [Bots -> 0..Fits]
         /\ text.does \in {"set", "get"} => text.name \in Names
         /\ text.does = "set" => text.value \in Texts \cup {NULL}
<1>1. CASE text \in Known
  BY <1>1, TextAssumption
<1>2. CASE text \in Unknown
  <2>1. text.does = "nothing" /\ text.mentions \in [Bots -> 0..Fits]
    BY <1>2 DEF Unknown
  <2> QED
    BY <2>1
<1> QED
  BY <1>1, <1>2 DEF Texts

LEMMA WhatIsAnswered ==
  ASSUME environment \in [Bots -> [Names -> Texts \cup {NULL}]], NEW b \in Bots, NEW text \in Texts
  PROVE  Answers(b, text) \subseteq Texts \cup {NULL}
<1>1. CASE text.does = "nothing"
  <2>1. Fits \in Nat
    BY ChatAssumption
  <2>2. \A d \in Bots : text.mentions[d] \in 0..Fits
    BY WhatCommandsDo
  <2>3. \A n \in 0..Fits : (IF n = 0 THEN 0 ELSE n - 1) \in 0..Fits
    BY <2>1
  <2>4. [d \in Bots |-> IF text.mentions[d] = 0 THEN 0 ELSE text.mentions[d] - 1]
          \in [Bots -> 0..Fits]
    BY <2>2, <2>3
  <2>5. NoHandler(text) \in Unknown
    BY <2>4 DEF NoHandler, Unknown
  <2> QED
    BY <1>1, <2>5 DEF Answers, Texts
<1>2. CASE text.does = "get"
  <2>1. environment[b][text.name] \in Texts \cup {NULL}
    BY <1>2, WhatCommandsDo
  <2> QED
    BY <1>2, <2>1 DEF Answers
<1>3. CASE text.does = "set"
  BY <1>3 DEF Answers
<1>4. CASE text.does = "other"
  BY <1>4, TextAssumption DEF Answers, Texts
<1> QED
  BY <1>1, <1>2, <1>3, <1>4, WhatCommandsDo

LEMMA WhatIsStored ==
  ASSUME environment \in [Bots -> [Names -> Texts \cup {NULL}]], NEW b \in Bots,
         NEW text \in Texts, Store(b, text)
  PROVE  environment' \in [Bots -> [Names -> Texts \cup {NULL}]]
<1>1. CASE text.does = "set"
  <2>1. text.name \in Names /\ text.value \in Texts \cup {NULL}
    BY <1>1, WhatCommandsDo
  <2> QED
    BY <1>1, <2>1 DEF Store
<1>2. CASE text.does # "set"
  BY <1>2 DEF Store
<1> QED
  BY <1>1, <1>2

(* Where answers of a bot, or messages of users, go. *)
LEMMA OnIrcType ==
  ASSUME Shapes, NEW from, NEW to \in Bots \cup {Channel}, NEW text \in Texts
  PROVE  OnIrc(from, to, text) \in [Bots -> Seq(IrcMessage)]
<1>1. [to |-> to, text |-> text] \in IrcMessage
  BY DEF IrcMessage
<1>2. \A b \in Bots : ircbox[b] \in Seq(IrcMessage)
  BY DEF Shapes
<1>3. \A b \in Bots : Append(ircbox[b], [to |-> to, text |-> text]) \in Seq(IrcMessage)
  BY <1>1, <1>2, OneMore
<1> QED
  BY <1>2, <1>3 DEF OnIrc

(* A bot whose messages, commands and counts stay the same, and of which   *)
(* nobody has come back, is served as before.                              *)
LEMMA Unchanged ==
  ASSUME NEW b \in Bots, Served(b), gone \subseteq gone',
         xmpp'[b] = xmpp[b], xmppbox'[b] = xmppbox[b], queue'[b] = queue[b],
         \A u \in Users : asked'[b][u] = asked[b][u] /\ got'[b][u] = got[b][u]
  PROVE  Served(b)'
<1>1. Unheard(b)'
  BY DEF Served, Unheard
<1>2. Bounces(b)'
  BY DEF Served, Bounces
<1>3. ASSUME NEW u \in Users PROVE InTurn(b, u)'
  BY DEF Served, InTurn, Pending
<1> QED
  BY <1>1, <1>2, <1>3 DEF Served

-----------------------------------------------------------------------------
(* Every step keeps it. *)

LEMMA AtFirst == Init => ChatInv
<1> SUFFICES ASSUME Init PROVE ChatInv
  OBVIOUS
<1>1. 0 \in Nat /\ 0 \in 0..Quota /\ Capacity \in Nat
  BY ChatAssumption
<1>2. Shapes
  <2>1. /\ \A S : <<>> \in Seq(S)
        /\ \A b \in Bots : Len(queue[b]) <= Capacity
    BY <1>1 DEF Init
  <2> QED
    BY <1>1, <2>1, TextAssumption DEF Init, Shapes
<1>3. ASSUME NEW b \in Bots PROVE Served(b)
  <2>1. queue[b] = <<>> /\ xmppbox[b] = <<>> /\ Len(<<>>) = 0
        /\ \A u \in Users : asked[b][u] = 0 /\ got[b][u] = 0
    BY DEF Init
  <2>2. xmpp[b] # "online"
    BY DEF Init
  <2> QED
    BY <2>1, <2>2 DEF Served, Unheard, Bounces, InTurn
<1> QED
  BY <1>2, <1>3 DEF ChatInv

LEMMA StepSayOnIrc ==
  ASSUME ChatInv, NEW text \in Said, NEW to \in Bots \cup {Channel}, SayOnIrc(to, text)
  PROVE  ChatInv'
<1>1. ircbox' \in [Bots -> Seq(IrcMessage)]
  BY WhatIsSaid, OnIrcType DEF ChatInv, SayOnIrc
<1>2. said' \in 0..Quota
  BY ChatAssumption DEF ChatInv, Shapes, SayOnIrc
<1>3. Shapes'
  BY <1>1, <1>2 DEF ChatInv, Shapes, SayOnIrc, media
<1>4. \A b \in Bots : Served(b)'
  BY Unchanged DEF ChatInv, SayOnIrc, media
<1> QED
  BY <1>3, <1>4 DEF ChatInv

LEMMA StepSayOnXmpp ==
  ASSUME ChatInv, NEW u \in Users, NEW b \in Bots, NEW text \in Texts \cup {NULL},
         SayOnXmpp(u, b, text)
  PROVE  ChatInv'
<1> DEFINE m == [from |-> u, text |-> text, number |-> asked'[b][u]]
<1>1. /\ asked[b][u] \in Nat /\ got[b][u] \in Nat /\ xmppbox[b] \in Seq(XmppMessage)
      /\ queue[b] \in Seq(Command)
  BY DEF ChatInv, Shapes
<1>2. /\ asked' \in [Bots -> [Users -> Nat]]
      /\ asked'[b][u] = IF text = NULL THEN asked[b][u] ELSE asked[b][u] + 1
      /\ \A c \in Bots, v \in Users : c # b \/ v # u => asked'[c][v] = asked[c][v]
  BY <1>1 DEF ChatInv, Shapes, SayOnXmpp
<1>3. m \in XmppMessage
  BY <1>1, <1>2 DEF XmppMessage
<1>4. /\ xmppbox' = [xmppbox EXCEPT ![b] = Append(xmppbox[b], m)]
      /\ m.from = u /\ m.text = text /\ m.number = asked'[b][u]
  BY DEF SayOnXmpp
<1> HIDE DEF m
<1>5. /\ Append(xmppbox[b], m) \in Seq(XmppMessage)
      /\ Len(Append(xmppbox[b], m)) = Len(xmppbox[b]) + 1 /\ Len(xmppbox[b]) \in Nat
      /\ \A i \in 1..Len(xmppbox[b]) : Append(xmppbox[b], m)[i] = xmppbox[b][i]
      /\ Append(xmppbox[b], m)[Len(xmppbox[b]) + 1] = m
  BY <1>1, <1>3, OneMore, LenProperties
<1>6. xmppbox'[b] = Append(xmppbox[b], m) /\ xmppbox' \in [Bots -> Seq(XmppMessage)]
  BY <1>4, <1>5 DEF ChatInv, Shapes
<1>7. said' \in 0..Quota
  BY ChatAssumption DEF ChatInv, Shapes, SayOnXmpp
<1>8. Shapes'
  BY <1>2, <1>6, <1>7 DEF ChatInv, Shapes, SayOnXmpp, media
<1>9. ASSUME NEW c \in Bots, c # b PROVE Served(c)'
  <2>1. xmppbox'[c] = xmppbox[c]
    BY <1>4, <1>9 DEF ChatInv, Shapes
  <2> QED
    BY <1>2, <1>9, <2>1, Unchanged DEF ChatInv, SayOnXmpp, media
<1>10. Unheard(b)'
  BY DEF Unheard, SayOnXmpp, media
<1>11. Bounces(b)'
  <2>1. ASSUME NEW i \in 1..Len(xmppbox'[b]), xmppbox'[b][i].text # NULL, xmppbox'[b][i].number = 0
        PROVE  xmppbox'[b][i].from \in gone
    <3>1. CASE i = Len(xmppbox[b]) + 1
      BY <1>1, <1>2, <1>4, <1>5, <1>6, <2>1, <3>1
    <3>2. CASE i # Len(xmppbox[b]) + 1
      <4>1. i \in 1..Len(xmppbox[b])
        BY <1>5, <1>6, <3>2
      <4>2. xmppbox'[b][i] = xmppbox[b][i]
        BY <1>5, <1>6, <4>1
      <4> QED
        BY <2>1, <4>1, <4>2 DEF ChatInv, Served, Bounces
    <3> QED
      BY <3>1, <3>2
  <2> QED
    BY <2>1 DEF ChatInv, Served, Bounces, SayOnXmpp
<1>12. ASSUME NEW v \in Users PROVE InTurn(b, v)'
  <2> SUFFICES ASSUME v \notin gone
               PROVE  /\ Ascending(Pending(queue[b], xmppbox'[b], v), got[b][v], asked'[b][v])
                      /\ got[b][v] <= asked'[b][v]
    BY DEF InTurn, SayOnXmpp, media
  <2>1. /\ Ascending(Pending(queue[b], xmppbox[b], v), got[b][v], asked[b][v])
        /\ got[b][v] <= asked[b][v]
    BY DEF ChatInv, Served, InTurn, SayOnXmpp
  <2>2. got[b][v] \in Nat /\ asked[b][v] \in Nat
    BY DEF ChatInv, Shapes
  <2>3. MessageNumber(m, v) = IF v = u /\ text # NULL THEN asked'[b][u] ELSE 0
    BY <1>4 DEF MessageNumber
  <2>4. /\ MessageNumber(m, v) = 0 =>
             Ascending(Pending(queue[b], xmppbox'[b], v), got[b][v], asked[b][v])
        /\ MessageNumber(m, v) = asked[b][v] + 1 =>
             Ascending(Pending(queue[b], xmppbox'[b], v), got[b][v], asked[b][v] + 1)
    BY <1>1, <1>3, <1>6, <2>1, <2>2, Told
  <2>5. CASE v = u /\ text # NULL
    BY <1>2, <2>1, <2>2, <2>3, <2>4, <2>5
  <2>6. CASE ~(v = u /\ text # NULL)
    <3>1. asked'[b][v] = asked[b][v]
      BY <1>2, <2>6
    <3> QED
      BY <2>1, <2>3, <2>4, <2>6, <3>1
  <2> QED
    BY <2>5, <2>6
<1>13. Served(b)'
  BY <1>10, <1>11, <1>12 DEF Served
<1> QED
  BY <1>8, <1>9, <1>13 DEF ChatInv

LEMMA StepGo ==
  ASSUME ChatInv, NEW u \in Users, Go(u)
  PROVE  ChatInv'
<1>1. Shapes'
  BY DEF ChatInv, Shapes, Go, media
<1>2. \A b \in Bots : Served(b)'
  BY Unchanged DEF ChatInv, Go, media
<1> QED
  BY <1>1, <1>2 DEF ChatInv

LEMMA StepConnect ==
  ASSUME ChatInv, NEW b \in Bots, EventConnect(b) \/ LoseIrc(b)
  PROVE  ChatInv'
<1>1. irc' \in [Bots -> {"connecting", "in", "lost"}]
  BY DEF ChatInv, Shapes, EventConnect, LoseIrc
<1>2. ircbox' \in [Bots -> Seq(IrcMessage)]
  <2>1. <<>> \in Seq(IrcMessage)
    OBVIOUS
  <2>2. ircbox' = ircbox \/ ircbox' = [ircbox EXCEPT ![b] = <<>>]
    BY DEF EventConnect, LoseIrc
  <2> QED
    BY <2>1, <2>2 DEF ChatInv, Shapes
<1>3. Shapes'
  BY <1>1, <1>2 DEF ChatInv, Shapes, EventConnect, LoseIrc
<1>4. \A c \in Bots : Served(c)'
  BY Unchanged DEF ChatInv, EventConnect, LoseIrc
<1> QED
  BY <1>3, <1>4 DEF ChatInv

LEMMA StepAuth ==
  ASSUME ChatInv, NEW b \in Bots, Auth(b)
  PROVE  ChatInv'
<1>1. Shapes'
  BY DEF ChatInv, Shapes, Auth
<1>2. ASSUME NEW c \in Bots, c # b PROVE Served(c)'
  <2>1. xmpp'[c] = xmpp[c]
    BY <1>2 DEF ChatInv, Shapes, Auth
  <2> QED
    BY <1>2, <2>1, Unchanged DEF ChatInv, Auth
<1>3. xmpp'[b] \in {"online", "off"} /\ xmpp[b] = "connecting"
  BY DEF ChatInv, Shapes, Auth
<1>4. Unheard(b)' /\ Bounces(b)'
  BY <1>3 DEF ChatInv, Served, Unheard, Bounces, Auth
<1>5. ASSUME NEW u \in Users PROVE InTurn(b, u)'
  <2> DEFINE s == Pending(queue[b], xmppbox[b], u)
  <2>1. /\ xmppbox[b] = <<>> /\ asked[b][u] = 0 /\ got[b][u] = 0
        /\ \A i \in 1..Len(queue[b]) : queue[b][i].via = "irc"
    BY <1>3 DEF ChatInv, Served, Unheard
  <2>2. queue[b] \in Seq(Command) /\ xmppbox[b] \in Seq(XmppMessage)
    BY DEF ChatInv, Shapes
  <2>3. /\ s \in Seq(Nat) /\ Len(s) = Len(queue[b]) + Len(xmppbox[b])
        /\ \A i \in 1..Len(queue[b]) : s[i] = CommandNumber(queue[b][i], u)
    BY <2>2, PendingShape
  <2> HIDE DEF s
  <2>4. Len(s) = Len(queue[b])
    BY <2>1, <2>2, <2>3
  <2>5. \A i \in 1..Len(s) : s[i] = 0
    BY <2>1, <2>3, <2>4 DEF CommandNumber
  <2>6. \A k \in (0 + 1)..0 : FALSE
    OBVIOUS
  <2>7. Ascending(s, 0, 0)
    BY <2>3, <2>5, <2>6, AscendingMeans DEF InRange, AllThere, InOrder
  <2> QED
    BY <2>1, <2>7 DEF InTurn, Auth, s
<1> QED
  BY <1>1, <1>2, <1>4, <1>5 DEF ChatInv, Served

LEMMA StepLoseXmpp ==
  ASSUME ChatInv, NEW b \in Bots, LoseXmpp(b)
  PROVE  ChatInv'
<1>1. /\ \A c \in Bots : c # b => xmpp'[c] = xmpp[c] /\ xmppbox'[c] = xmppbox[c]
      /\ xmpp'[b] = "off" /\ xmppbox'[b] = <<>> /\ Len(<<>>) = 0
      /\ xmppbox' \in [Bots -> Seq(XmppMessage)]
  BY DEF ChatInv, Shapes, LoseXmpp
<1>2. Shapes'
  BY <1>1 DEF ChatInv, Shapes, LoseXmpp
<1>3. ASSUME NEW c \in Bots, c # b PROVE Served(c)'
  BY <1>1, <1>3, Unchanged DEF ChatInv, LoseXmpp
<1>4. Served(b)'
  BY <1>1 DEF ChatInv, Served, Unheard, Bounces, InTurn, LoseXmpp
<1> QED
  BY <1>2, <1>3, <1>4 DEF ChatInv

LEMMA Queued ==
  ASSUME ChatInv, NEW b \in Bots, NEW via, NEW to, NEW text, NEW number,
         [via |-> via, to |-> to, text |-> text, number |-> number] \in Command,
         QueueCommand(b, via, to, text, number)
  PROVE  LET c == [via |-> via, to |-> to, text |-> text, number |-> number]
         IN /\ queue' \in [Bots -> Seq(Command)]
            /\ \A d \in Bots : Len(queue'[d]) <= Capacity /\ (d # b => queue'[d] = queue[d])
            /\ queue'[b] = Append(queue[b], c)
            /\ Len(queue[b]) \in Nat /\ Len(queue'[b]) = Len(queue[b]) + 1
            /\ \A i \in 1..Len(queue[b]) : queue'[b][i] = queue[b][i]
            /\ queue'[b][Len(queue[b]) + 1] = c
<1> DEFINE c == [via |-> via, to |-> to, text |-> text, number |-> number]
<1>1. c \in Command
  OBVIOUS
<1>2. queue' = [queue EXCEPT ![b] = Append(queue[b], c)] /\ Len(queue[b]) < Capacity
  BY DEF QueueCommand
<1> HIDE DEF c
<1>3. queue \in [Bots -> Seq(Command)] /\ Capacity \in Nat
  BY ChatAssumption DEF ChatInv, Shapes
<1>4. /\ queue[b] \in Seq(Command) /\ Append(queue[b], c) \in Seq(Command)
      /\ Len(queue[b]) \in Nat /\ Len(Append(queue[b], c)) = Len(queue[b]) + 1
      /\ \A i \in 1..Len(queue[b]) : Append(queue[b], c)[i] = queue[b][i]
      /\ Append(queue[b], c)[Len(queue[b]) + 1] = c
  BY <1>1, <1>3, OneMore, LenProperties
<1>5. queue' \in [Bots -> Seq(Command)] /\ queue'[b] = Append(queue[b], c)
  BY <1>2, <1>3, <1>4
<1>6. \A d \in Bots : d # b => queue'[d] = queue[d]
  BY <1>2, <1>3
<1>7. Len(queue'[b]) <= Capacity
  BY <1>2, <1>3, <1>4, <1>5
<1>8. \A d \in Bots : Len(queue'[d]) <= Capacity
  BY <1>6, <1>7 DEF ChatInv, Shapes
<1> QED
  BY <1>4, <1>5, <1>6, <1>8 DEF c

LEMMA StepEventNotice ==
  ASSUME ChatInv, NEW b \in Bots, EventNotice(b)
  PROVE  ChatInv'
<1> DEFINE m == Head(ircbox[b])
           heard == b \in named /\ m.text.mentions[b] > 0
           c == [via |-> "irc", to |-> m.to, text |-> m.text, number |-> 0]
<1>1. ircbox[b] \in Seq(IrcMessage) /\ ircbox[b] # <<>>
  BY DEF ChatInv, Shapes, EventNotice
<1>2. Tail(ircbox[b]) \in Seq(IrcMessage) /\ m \in IrcMessage
  BY <1>1, OneLess
<1>3. c \in Command /\ c.via = "irc"
  <2>1. m.to \in Bots \cup {Channel} /\ m.text \in Texts
    BY <1>2 DEF IrcMessage
  <2> QED
    BY <2>1 DEF Command
<1>4. /\ heard => QueueCommand(b, "irc", m.to, m.text, 0)
      /\ ~heard => queue' = queue
      /\ ircbox' = [ircbox EXCEPT ![b] = Tail(ircbox[b])]
      /\ UNCHANGED <<named, media, xmppbox, environment, gone, asked, got, said>>
  BY DEF EventNotice
<1> HIDE DEF m, heard
<1>5. CASE ~heard
  <2>1. Shapes'
    BY <1>2, <1>4, <1>5 DEF ChatInv, Shapes, media
  <2>2. \A d \in Bots : Served(d)'
    BY <1>4, <1>5, Unchanged DEF ChatInv, media
  <2> QED
    BY <2>1, <2>2 DEF ChatInv
<1>6. CASE heard
  <2>1. /\ queue' \in [Bots -> Seq(Command)]
        /\ \A d \in Bots : Len(queue'[d]) <= Capacity /\ (d # b => queue'[d] = queue[d])
        /\ queue'[b] = Append(queue[b], c)
        /\ Len(queue[b]) \in Nat /\ Len(queue'[b]) = Len(queue[b]) + 1
        /\ \A i \in 1..Len(queue[b]) : queue'[b][i] = queue[b][i]
        /\ queue'[b][Len(queue[b]) + 1] = c
    BY <1>3, <1>4, <1>6, Queued
  <2> HIDE DEF c
  <2>2. Shapes'
    BY <1>2, <1>4, <2>1 DEF ChatInv, Shapes, media
  <2>3. ASSUME NEW d \in Bots, d # b PROVE Served(d)'
    BY <1>4, <2>1, <2>3, Unchanged DEF ChatInv, media
  <2>4. \A i \in 1..Len(queue'[b]) : i \in 1..Len(queue[b]) \/ queue'[b][i].via = "irc"
    BY <1>3, <2>1
  <2>5. Unheard(b)'
    BY <1>4, <2>1, <2>4 DEF ChatInv, Served, Unheard, media
  <2>6. Bounces(b)'
    BY <1>4, <2>1, <2>4 DEF ChatInv, Served, Bounces, media
  <2>7. ASSUME NEW u \in Users PROVE InTurn(b, u)'
    <3> SUFFICES ASSUME xmpp[b] = "online", u \notin gone
                 PROVE  /\ Ascending(Pending(Append(queue[b], c), xmppbox[b], u), got[b][u], asked[b][u])
                        /\ got[b][u] <= asked[b][u]
      BY <1>4, <2>1 DEF InTurn, media
    <3>1. /\ Ascending(Pending(queue[b], xmppbox[b], u), got[b][u], asked[b][u])
          /\ got[b][u] <= asked[b][u]
      BY DEF ChatInv, Served, InTurn
    <3>2. /\ got[b][u] \in Nat /\ asked[b][u] \in Nat
          /\ queue[b] \in Seq(Command) /\ xmppbox[b] \in Seq(XmppMessage)
      BY DEF ChatInv, Shapes
    <3>3. CommandNumber(c, u) = 0
      BY <1>3 DEF CommandNumber
    <3> QED
      BY <1>3, <3>1, <3>2, <3>3, Interposed
  <2> QED
    BY <2>2, <2>3, <2>5, <2>6, <2>7 DEF ChatInv, Served
<1> QED
  BY <1>5, <1>6

LEMMA StepMessageReceived ==
  ASSUME ChatInv, NEW b \in Bots, MessageReceived(b)
  PROVE  ChatInv'
<1> DEFINE m == Head(xmppbox[b])
           c == [via |-> "xmpp", to |-> m.from, text |-> m.text, number |-> m.number]
<1>1. /\ xmppbox[b] \in Seq(XmppMessage) /\ xmppbox[b] # <<>> /\ queue[b] \in Seq(Command)
      /\ xmpp[b] = "online"
  BY DEF ChatInv, Shapes, MessageReceived
<1>2. /\ m \in XmppMessage /\ m = xmppbox[b][1]
      /\ Len(xmppbox[b]) \in Nat /\ Len(xmppbox[b]) >= 1
      /\ Tail(xmppbox[b]) \in Seq(XmppMessage) /\ Len(Tail(xmppbox[b])) = Len(xmppbox[b]) - 1
      /\ \A i \in 1..(Len(xmppbox[b]) - 1) : Tail(xmppbox[b])[i] = xmppbox[b][i + 1]
  BY <1>1, OneLess
<1>3. m.from \in Users /\ m.text \in Texts \cup {NULL} /\ m.number \in Nat
  BY <1>2 DEF XmppMessage
<1>4. /\ m.text # NULL => QueueCommand(b, "xmpp", m.from, m.text, m.number)
      /\ m.text = NULL => queue' = queue
      /\ xmppbox' = [xmppbox EXCEPT ![b] = Tail(xmppbox[b])]
      /\ UNCHANGED <<named, media, ircbox, environment, gone, asked, got, said>>
  BY DEF MessageReceived
<1> HIDE DEF m
<1>5. /\ xmppbox' \in [Bots -> Seq(XmppMessage)] /\ xmppbox'[b] = Tail(xmppbox[b])
      /\ \A d \in Bots : d # b => xmppbox'[d] = xmppbox[d]
  BY <1>2, <1>4 DEF ChatInv, Shapes
<1>6. /\ \A i \in 1..Len(xmppbox'[b]) :
           xmppbox'[b][i].text # NULL /\ xmppbox'[b][i].number = 0 => xmppbox'[b][i].from \in gone
      /\ m.text # NULL /\ m.number = 0 => m.from \in gone
  <2>1. 1 \in 1..Len(xmppbox[b])
    BY <1>2
  <2>2. \A i \in 1..Len(xmppbox'[b]) : /\ i + 1 \in 1..Len(xmppbox[b])
                                       /\ xmppbox'[b][i] = xmppbox[b][i + 1]
    BY <1>2, <1>5
  <2> QED
    BY <1>2, <2>1, <2>2 DEF ChatInv, Served, Bounces
<1>7. Unheard(b)'
  BY <1>1, <1>4 DEF Unheard, media
<1>8. ASSUME NEW u \in Users, xmpp[b] = "online", u \notin gone
      PROVE  /\ Ascending(Pending(queue[b], xmppbox[b], u), got[b][u], asked[b][u])
             /\ got[b][u] <= asked[b][u]
             /\ got[b][u] \in Nat /\ asked[b][u] \in Nat
  BY <1>8 DEF ChatInv, Shapes, Served, InTurn
<1>9. CASE m.text = NULL
  <2>1. Shapes'
    BY <1>4, <1>5, <1>9 DEF ChatInv, Shapes, media
  <2>2. ASSUME NEW d \in Bots, d # b PROVE Served(d)'
    BY <1>4, <1>5, <1>9, <2>2, Unchanged DEF ChatInv, media
  <2>3. Bounces(b)'
    BY <1>4, <1>6, <1>9 DEF ChatInv, Served, Bounces
  <2>4. ASSUME NEW u \in Users PROVE InTurn(b, u)'
    <3>1. MessageNumber(m, u) = 0
      BY <1>9 DEF MessageNumber
    <3>2. xmpp[b] = "online" /\ u \notin gone =>
            Ascending(Pending(queue[b], Tail(xmppbox[b]), u), got[b][u], asked[b][u])
      BY <1>1, <1>8, <3>1, Dropped DEF m
    <3> QED
      BY <1>4, <1>5, <1>8, <1>9, <3>2 DEF InTurn, media
  <2> QED
    BY <1>7, <2>1, <2>2, <2>3, <2>4 DEF ChatInv, Served
<1>10. CASE m.text # NULL
  <2>1. c \in Command
    BY <1>3, <1>10 DEF Command
  <2>2. /\ queue' \in [Bots -> Seq(Command)]
        /\ \A d \in Bots : Len(queue'[d]) <= Capacity /\ (d # b => queue'[d] = queue[d])
        /\ queue'[b] = Append(queue[b], c)
        /\ Len(queue[b]) \in Nat /\ Len(queue'[b]) = Len(queue[b]) + 1
        /\ \A i \in 1..Len(queue[b]) : queue'[b][i] = queue[b][i]
        /\ queue'[b][Len(queue[b]) + 1] = c
    BY <1>4, <1>10, <2>1, Queued
  <2>3. c.via = "xmpp" /\ c.to = m.from /\ c.number = m.number
    OBVIOUS
  <2> HIDE DEF c
  <2>4. Shapes'
    BY <1>4, <1>5, <2>2 DEF ChatInv, Shapes, media
  <2>5. ASSUME NEW d \in Bots, d # b PROVE Served(d)'
    BY <1>4, <1>5, <2>2, <2>5, Unchanged DEF ChatInv, media
  <2>6. Bounces(b)'
    <3>1. \A i \in 1..Len(queue'[b]) : i \in 1..Len(queue[b]) \/ i = Len(queue[b]) + 1
      BY <2>2
    <3>2. \A i \in 1..Len(queue'[b]) :
            queue'[b][i].via = "xmpp" /\ queue'[b][i].number = 0 => queue'[b][i].to \in gone
      BY <1>6, <1>10, <2>2, <2>3, <3>1 DEF ChatInv, Served, Bounces
    <3> QED
      BY <1>4, <1>6, <3>2 DEF Bounces
  <2>7. ASSUME NEW u \in Users PROVE InTurn(b, u)'
    <3>1. CommandNumber(c, u) = MessageNumber(Head(xmppbox[b]), u)
      BY <1>10, <2>3 DEF CommandNumber, MessageNumber, m
    <3>2. Pending(queue'[b], xmppbox'[b], u) = Pending(queue[b], xmppbox[b], u)
      BY <1>1, <1>5, <2>1, <2>2, <3>1, Passed
    <3> QED
      BY <1>4, <1>8, <3>2 DEF InTurn, media
  <2> QED
    BY <1>7, <2>4, <2>5, <2>6, <2>7 DEF ChatInv, Served
<1> QED
  BY <1>9, <1>10

(* What remains of the queue when its oldest command is taken. *)
LEMMA Taken ==
  ASSUME ChatInv, NEW b \in Bots, queue[b] # <<>>, queue' = [queue EXCEPT ![b] = Tail(queue[b])]
  PROVE  /\ queue' \in [Bots -> Seq(Command)]
         /\ \A d \in Bots : Len(queue'[d]) <= Capacity /\ (d # b => queue'[d] = queue[d])
         /\ queue'[b] = Tail(queue[b])
         /\ Head(queue[b]) \in Command /\ Head(queue[b]) = queue[b][1] /\ 1 \in 1..Len(queue[b])
         /\ \A i \in 1..Len(queue'[b]) : \E j \in 1..Len(queue[b]) : queue'[b][i] = queue[b][j]
<1>1. queue \in [Bots -> Seq(Command)] /\ queue[b] \in Seq(Command) /\ Capacity \in Nat
  BY ChatAssumption DEF ChatInv, Shapes
<1>2. /\ Head(queue[b]) \in Command /\ Head(queue[b]) = queue[b][1]
      /\ Len(queue[b]) \in Nat /\ Len(queue[b]) >= 1
      /\ Tail(queue[b]) \in Seq(Command) /\ Len(Tail(queue[b])) = Len(queue[b]) - 1
      /\ \A i \in 1..(Len(queue[b]) - 1) : Tail(queue[b])[i] = queue[b][i + 1]
  BY <1>1, OneLess
<1>3. queue' \in [Bots -> Seq(Command)] /\ queue'[b] = Tail(queue[b])
  BY <1>1, <1>2
<1>4. \A d \in Bots : d # b => queue'[d] = queue[d]
  BY <1>1
<1>5. Len(queue[b]) <= Capacity
  BY DEF ChatInv, Shapes
<1>6. Len(queue'[b]) <= Capacity
  BY <1>1, <1>2, <1>3, <1>5
<1>7. \A d \in Bots : Len(queue'[d]) <= Capacity
  BY <1>4, <1>6 DEF ChatInv, Shapes
<1>8. \A i \in 1..Len(queue'[b]) : i + 1 \in 1..Len(queue[b]) /\ queue'[b][i] = queue[b][i + 1]
  BY <1>2, <1>3
<1>9. 1 \in 1..Len(queue[b])
  BY <1>2
<1> QED
  BY <1>2, <1>3, <1>4, <1>7, <1>8, <1>9

LEMMA StepExecute ==
  ASSUME ChatInv, NEW b \in Bots, Execute(b)
  PROVE  ChatInv'
<1> DEFINE c == Head(queue[b])
<1>1. PICK answer \in Answers(b, c.text) :
        IF c.via = "irc" THEN IrcSend(b, c.to, answer) ELSE XmppSend(b, c.to, answer)
  BY DEF Execute
<1>2. /\ queue[b] # <<>> /\ queue' = [queue EXCEPT ![b] = Tail(queue[b])]
      /\ UNCHANGED <<named, media, gone, asked, said>>
  BY DEF Execute
<1>3. /\ queue' \in [Bots -> Seq(Command)]
      /\ \A d \in Bots : Len(queue'[d]) <= Capacity /\ (d # b => queue'[d] = queue[d])
      /\ queue'[b] = Tail(queue[b])
      /\ c \in Command /\ c = queue[b][1] /\ 1 \in 1..Len(queue[b])
      /\ \A i \in 1..Len(queue'[b]) : \E j \in 1..Len(queue[b]) : queue'[b][i] = queue[b][j]
  BY <1>2, Taken
<1>4. /\ queue[b] \in Seq(Command) /\ xmppbox[b] \in Seq(XmppMessage)
      /\ xmppbox \in [Bots -> Seq(XmppMessage)] /\ got \in [Bots -> [Users -> Nat]]
  BY DEF ChatInv, Shapes
<1>5. ASSUME NEW u \in Users
      PROVE  IF CommandNumber(c, u) = 0
               THEN InTurn(b, u) => (xmpp[b] = "online" /\ u \notin gone =>
                      Ascending(Pending(queue'[b], xmppbox[b], u), got[b][u], asked[b][u]))
               ELSE InTurn(b, u) => (xmpp[b] = "online" /\ u \notin gone =>
                      /\ Ascending(Pending(queue'[b], xmppbox[b], u), got[b][u] + 1, asked[b][u])
                      /\ got[b][u] + 1 <= asked[b][u])
  <2>1. got[b][u] \in Nat /\ asked[b][u] \in Nat
    BY DEF ChatInv, Shapes
  <2> QED
    BY <1>2, <1>3, <1>4, <2>1, Answered DEF InTurn
<1>6. /\ \/ c.via = "irc" /\ c.to \in Bots \cup {Channel}
         \/ c.via = "xmpp" /\ c.to \in Users
      /\ c.text \in Texts
  <2>1. \A d \in Command : /\ \/ d.via = "irc" /\ d.to \in Bots \cup {Channel}
                              \/ d.via = "xmpp" /\ d.to \in Users
                           /\ d.text \in Texts
    BY DEF Command
  <2>2. c \in Command
    BY <1>3
  <2> HIDE DEF c
  <2> QED
    BY <2>1, <2>2
<1>7. c.via = "xmpp" /\ c.number = 0 => c.to \in gone
  BY <1>3 DEF ChatInv, Served, Bounces
<1>8. answer \in Texts \cup {NULL}
  BY <1>1, <1>6, WhatIsAnswered DEF ChatInv, Shapes
<1>s. environment' \in [Bots -> [Names -> Texts \cup {NULL}]]
  <2>1. Store(b, c.text)
    BY DEF Execute
  <2> QED
    BY <1>6, <2>1, WhatIsStored DEF ChatInv, Shapes
<1> HIDE DEF c
<1>9. /\ xmpp[b] = "connecting" => \A i \in 1..Len(queue'[b]) : queue'[b][i].via = "irc"
      /\ \A i \in 1..Len(queue'[b]) :
           queue'[b][i].via = "xmpp" /\ queue'[b][i].number = 0 => queue'[b][i].to \in gone
  BY <1>3 DEF ChatInv, Served, Unheard, Bounces
<1>10. CASE xmppbox' = xmppbox /\ got' = got /\ ircbox' \in [Bots -> Seq(IrcMessage)]
            /\ (c.via = "xmpp" => xmpp[b] # "online")
  <2>1. Shapes'
    BY <1>2, <1>3, <1>s, <1>10 DEF ChatInv, Shapes, media
  <2>2. ASSUME NEW d \in Bots, d # b PROVE Served(d)'
    BY <1>2, <1>3, <1>10, <2>2, Unchanged DEF ChatInv, media
  <2>3. Unheard(b)' /\ Bounces(b)'
    BY <1>2, <1>9, <1>10 DEF ChatInv, Served, Unheard, Bounces, media
  <2>4. ASSUME NEW u \in Users PROVE InTurn(b, u)'
    <3>1. xmpp[b] = "online" => CommandNumber(c, u) = 0
      BY <1>10 DEF CommandNumber
    <3>2. InTurn(b, u)
      BY DEF ChatInv, Served
    <3> QED
      BY <1>2, <1>5, <1>10, <3>1, <3>2 DEF InTurn, media
  <2> QED
    BY <2>1, <2>2, <2>3, <2>4 DEF ChatInv, Served
<1>11. CASE c.via = "irc"
  <2>1. IrcSend(b, c.to, answer) /\ c.to \in Bots \cup {Channel}
    BY <1>1, <1>6, <1>11
  <2>2. ircbox' \in [Bots -> Seq(IrcMessage)]
    BY <1>8, <2>1, OnIrcType DEF IrcSend, ChatInv, Shapes
  <2> QED
    BY <1>10, <1>11, <2>1, <2>2 DEF IrcSend
<1>12. CASE c.via = "xmpp"
  <2>1. XmppSend(b, c.to, answer) /\ c.to \in Users
    BY <1>1, <1>6, <1>12
  <2>2. CASE xmpp[b] # "online"
    BY <1>10, <2>1, <2>2 DEF XmppSend, ChatInv, Shapes
  <2>3. CASE xmpp[b] = "online" /\ c.to \in gone
    <3> DEFINE m == [from |-> c.to, text |-> answer, number |-> 0]
    <3>1. m \in XmppMessage
      BY <1>8, <2>1 DEF XmppMessage
    <3>2. /\ xmppbox' = [xmppbox EXCEPT ![b] = Append(xmppbox[b], m)]
          /\ got' = got /\ ircbox' = ircbox
          /\ m.from = c.to /\ m.number = 0
      BY <2>1, <2>3 DEF XmppSend, Bounce
    <3> HIDE DEF m
    <3>3. /\ Append(xmppbox[b], m) \in Seq(XmppMessage)
          /\ Len(Append(xmppbox[b], m)) = Len(xmppbox[b]) + 1 /\ Len(xmppbox[b]) \in Nat
          /\ \A i \in 1..Len(xmppbox[b]) : Append(xmppbox[b], m)[i] = xmppbox[b][i]
          /\ Append(xmppbox[b], m)[Len(xmppbox[b]) + 1] = m
      BY <1>4, <3>1, OneMore, LenProperties
    <3>4. /\ xmppbox' \in [Bots -> Seq(XmppMessage)] /\ xmppbox'[b] = Append(xmppbox[b], m)
          /\ \A d \in Bots : d # b => xmppbox'[d] = xmppbox[d]
      BY <1>4, <3>2, <3>3
    <3>5. Shapes'
      BY <1>2, <1>3, <1>s, <3>2, <3>4 DEF ChatInv, Shapes, media
    <3>6. ASSUME NEW d \in Bots, d # b PROVE Served(d)'
      BY <1>2, <1>3, <3>2, <3>4, <3>6, Unchanged DEF ChatInv, media
    <3>7. Unheard(b)'
      BY <1>2, <2>3 DEF Unheard, media
    <3>8. Bounces(b)'
      <4>1. \A i \in 1..Len(xmppbox'[b]) : i \in 1..Len(xmppbox[b]) \/ xmppbox'[b][i] = m
        BY <3>3, <3>4
      <4>2. \A i \in 1..Len(xmppbox'[b]) :
              xmppbox'[b][i].text # NULL /\ xmppbox'[b][i].number = 0 => xmppbox'[b][i].from \in gone
        BY <2>3, <3>2, <3>3, <3>4, <4>1 DEF ChatInv, Served, Bounces
      <4> QED
        BY <1>2, <1>9, <4>2 DEF Bounces
    <3>9. ASSUME NEW u \in Users PROVE InTurn(b, u)'
      <4> SUFFICES ASSUME u \notin gone
                   PROVE  /\ Ascending(Pending(queue'[b], xmppbox'[b], u), got[b][u], asked[b][u])
                          /\ got[b][u] <= asked[b][u]
        BY <1>2, <3>2 DEF InTurn, media
      <4>1. InTurn(b, u)
        BY DEF ChatInv, Served
      <4>2. CommandNumber(c, u) = 0
        BY <2>3 DEF CommandNumber
      <4>3. /\ Ascending(Pending(queue'[b], xmppbox[b], u), got[b][u], asked[b][u])
            /\ got[b][u] <= asked[b][u]
        BY <1>5, <2>3, <4>1, <4>2 DEF InTurn
      <4>4. got[b][u] \in Nat /\ asked[b][u] \in Nat /\ queue'[b] \in Seq(Command)
        BY <1>3 DEF ChatInv, Shapes
      <4>5. MessageNumber(m, u) = 0
        BY <3>2 DEF MessageNumber
      <4> QED
        BY <1>4, <3>1, <3>4, <4>3, <4>4, <4>5, Told
    <3> QED
      BY <3>5, <3>6, <3>7, <3>8, <3>9 DEF ChatInv, Served
  <2>4. CASE xmpp[b] = "online" /\ c.to \notin gone
    <3>1. /\ got' = [got EXCEPT ![b][c.to] = got[b][c.to] + 1]
          /\ xmppbox' = xmppbox /\ ircbox' = ircbox
      BY <2>1, <2>4 DEF XmppSend
    <3>2. /\ got' \in [Bots -> [Users -> Nat]] /\ got'[b][c.to] = got[b][c.to] + 1
          /\ \A d \in Bots, u \in Users : d # b \/ u # c.to => got'[d][u] = got[d][u]
      BY <1>4, <2>1, <3>1
    <3>3. Shapes'
      BY <1>2, <1>3, <1>s, <3>1, <3>2 DEF ChatInv, Shapes, media
    <3>4. ASSUME NEW d \in Bots, d # b PROVE Served(d)'
      BY <1>2, <1>3, <3>1, <3>2, <3>4, Unchanged DEF ChatInv, media
    <3>5. Unheard(b)' /\ Bounces(b)'
      BY <1>2, <1>9, <2>4, <3>1 DEF ChatInv, Served, Unheard, Bounces, media
    <3>6. ASSUME NEW u \in Users PROVE InTurn(b, u)'
      <4> SUFFICES ASSUME u \notin gone
                   PROVE  /\ Ascending(Pending(queue'[b], xmppbox[b], u), got'[b][u], asked[b][u])
                          /\ got'[b][u] <= asked[b][u]
        BY <1>2, <3>1 DEF InTurn, media
      <4>1. InTurn(b, u)
        BY DEF ChatInv, Served
      <4>2. CommandNumber(c, u) = IF u = c.to THEN c.number ELSE 0
        BY <1>12 DEF CommandNumber
      <4>3. u = c.to => c.number # 0
        BY <1>7, <1>12, <2>4
      <4>4. CASE u = c.to
        BY <1>5, <2>4, <3>2, <4>1, <4>2, <4>3, <4>4
      <4>5. CASE u # c.to
        BY <1>5, <2>4, <3>2, <4>1, <4>2, <4>5 DEF InTurn
      <4> QED
        BY <4>4, <4>5
    <3> QED
      BY <3>3, <3>4, <3>5, <3>6 DEF ChatInv, Served
  <2> QED
    BY <2>2, <2>3, <2>4
<1> QED
  BY <1>6, <1>11, <1>12

-----------------------------------------------------------------------------
(* The theorems *)

LEMMA Invariant == Spec => []ChatInv
<1>1. ChatInv /\ [Next]_vars => ChatInv'
  <2> SUFFICES ASSUME ChatInv, [Next]_vars PROVE ChatInv'
    OBVIOUS
  <2>1. ASSUME NEW text \in Said, NEW to \in Bots \cup {Channel}, SayOnIrc(to, text)
        PROVE  ChatInv'
    BY <2>1, StepSayOnIrc
  <2>2. ASSUME NEW u \in Users, NEW b \in Bots,
               NEW text \in Written, SayOnXmpp(u, b, text)
        PROVE  ChatInv'
    <3>1. text \in Texts \cup {NULL}
      BY WhatIsSaid
    <3> QED
      BY <2>2, <3>1, StepSayOnXmpp
  <2>3. ASSUME NEW u \in Users, Go(u) PROVE ChatInv'
    BY <2>3, StepGo
  <2>4. ASSUME NEW b \in Bots, Threads(b) \/ Lose(b) \/ Execute(b) PROVE ChatInv'
    BY <2>4, StepConnect, StepAuth, StepEventNotice, StepMessageReceived, StepLoseXmpp, StepExecute
       DEF Threads, Lose
  <2>5. CASE UNCHANGED vars
    <3>1. Shapes'
      BY <2>5 DEF ChatInv, Shapes, vars, media
    <3>2. \A b \in Bots : Served(b)'
      BY <2>5, Unchanged DEF ChatInv, vars, media
    <3> QED
      BY <3>1, <3>2 DEF ChatInv
  <2> QED
    BY <2>1, <2>2, <2>3, <2>4, <2>5 DEF Next, Say
<1> QED
  BY <1>1, AtFirst, PTL DEF Spec

(* The variables have their types, and no queue of commands is longer than *)
(* COMMAND_QUEUE_SIZE.                                                     *)
THEOREM TypeCorrect == Spec => []TypeOK
<1>1. ChatInv => TypeOK
  BY DEF ChatInv, Shapes, TypeOK
<1> QED
  BY <1>1, Invariant, PTL

(* Somebody on XMPP gets one answer to each message, in the order of the   *)
(* messages, whatever is said to the bot by others, on XMPP or on IRC, as  *)
(* long as both ends are there (transport-xmpp.c:60-79, app.c:157-179).    *)
THEOREM EachAnsweredInTurn == Spec => []AnsweredInOrder
<1>1. ChatInv => AnsweredInOrder
  BY DEF ChatInv, Served, InTurn, AnsweredInOrder
<1> QED
  BY <1>1, Invariant, PTL
=============================================================================
