# bitU in TLA+

bitU is a chat bot: it connects to XMPP and IRC servers, listens on a local
socket for the helper program `bituctl`, and executes the commands that arrive
by any of these transports, itself or with plugins.  This directory holds
TLA+ models of it, from start-up to the hash table at the bottom and from the
arguments of `bituctl` to bots that talk to each other, the TLC configurations
that check them on small instances and TLAPS proofs of what matters most in
each part, for instances of any size.  Paths below are relative to the
repository; `transport.c` and the like are in `src/`.

## The system

One process, with these threads:

* **main** reads the configuration, executes its commands, connects the
  transports, starts the other threads, goes to the background if asked to,
  and sleeps for ever;
* **one thread per connected transport** runs the transport's loop and puts
  the commands it receives into the command queue;
* **the consumer** takes commands from the queue, executes them and sends each
  answer through the transport the command came by.

`bituctl` is another process at the other end of the local socket.

| Component | Code | State | Operations | Hard because |
|---|---|---|---|---|
| Command queue | `transport.c` 515-618 | list, `running`, mutex, two conditions | `bitu_queue_add`, `_bitu_queue_pop`, `bitu_queue_consume` | signals after unlock, callback inside the critical section, blocking when full |
| Connection manager | `transport.c` 87-327, `app.c` 186-232, 332-432 | table of transports by uri | add, remove, list, connect, disconnect; one spawned thread per connect | no reference counts, no locks against the transport threads, statuses that get lost |
| Local, IRC, XMPP transports | `transport-*.c` | session (`data`) and logger of a transport | connect, disconnect, is_running, run, send, events | each treats a missing or dead session in its own way; bots hear their own and each other's answers |
| Local server | `server.c`, `transport-local.c` | table of clients, descriptors, text read so far | accept, recv, message-received, send, forget | client table and descriptors shared by two threads without locks; messages without delimiters; sends that block |
| bituctl | `shell.c` | its socket | connect, send a line, wait for the answer, leave | must stay in step with the server although nothing delimits messages |
| Hash table | `hashtable.c` | buckets as segments of one list | set, get, del, iterate, rehash | segments share links with their neighbours |
| Command line | `util.c`, `shell.c` | buffers | strip, split and quote | quoting on one side, parsing on the other, buffers that grow by the step |
| Commands, environment | `app.c` | variables, command table, log file | exec, set, get, unset, env, ... | a dispatch with three outcomes |
| Plugin loader | `loader.c` | table of plugins | load, unload, find | code unloaded while known |
| Start-up | `main.c`, `conf.c` | list of commands, file to include | the include loop, load_config | loops, several files |

Interaction: a transport thread calls `bitu_transport_queue_command`, which
blocks in `bitu_queue_add` while the queue is full or a command executes.  The
consumer calls `_exec_command` with the mutex of the queue held; it looks up
the command, executes it (possibly changing the table of transports) and calls
the `send` of the transport, which for the local one looks up the client in
the table the server thread maintains.

What makes each correct, in short: the queue is a bounded FIFO that loses no
command and no wake-up; answers go to who asked, and everybody gets one; the
table of clients and the open descriptors agree; no thread uses a transport,
server or session that another one freed; what is reported about a transport is
true; a uri has one thread and one server.

`PROJECT.json` lists every hazard with the line where it bites and the
properties that address it.

## Modules

| Module | Models | How state and actions correspond |
|---|---|---|
| `CommandFifo` | what the queue promises | `pending` is the list without its mutex; `Accept`, `Begin`, `End` are a command joining, starting and ending |
| `CommandQueue` | `transport.c` 515-618 | variables are the fields of `bitu_queue` plus a program counter for each thread; `AddCall`, `AddWait`, `AddPut`, `AddSignal` are the parts of `bitu_queue_add` between two points where another thread can interfere, `Consume*` those of `bitu_queue_consume`; `Lock`, `Wait`, `SpuriousWakeup`, `Signal` are pthreads |
| `CommandQueueProofs` | | theorems about `CommandQueue` |
| `LocalServer` | `server.c`, `transport-local.c`, `_exec_command`, `shell.c` | `spc` is where `bitu_server_run` is, `kpc` where the consumer is, `cpc` where each bituctl is; `clients` is `server->clients`, `files` the descriptors of the process.  `Accept`, `Recv`, `EndOfText`, `Add`, `Forget`, `Close` are the server thread, `Pop`, `Execute`, `Lookup`, `Read`, `Send`, `Transfer` the consumer, `Connect`, `Type`, `Exit`, `Receive`, `ReceiveEnd`, `Leave` a client.  Inside `send` (`kpc = "write"`) the consumer holds `peer`, the other end, and `left`, the pieces that did not fit in the socket yet |
| `CommandLine` | `util.c`, `_escape_param` and the line main makes in `shell.c`, `bitu_command_new` | operators from texts to texts: `LineOf` is what bituctl makes of its arguments, `ExtractParams` the loop of `bitu_util_extract_params` with its locals as a record, `CommandNew` the command; `GoodStyle` and `Words` say what a line means without the loop |
| `Exchange` | what bituctl and the server promise together | `phase` goes from "idle" to "asked", "answered" and back; `request`, `command`, `answer` and `shown` are what was asked, executed, answered and printed |
| `Dialogue` | `shell.c`, the loops of `server.c`, `hash_string` on a missing name | one client and the server character by character.  `Receive`, `ReceiveEnd` are rounds of `bitu_shell_recv`, `Recv`, `EndOfText` those of the inner loop of `bitu_server_run`, `Send`, `SendEnd` those of `bitu_server_send`; `toServer`, `toShell` are the two directions of the connection |
| `Chat` | `transport-irc.c`, `transport-xmpp.c`, `_exec_command` | `EventConnect`, `EventNotice` are callbacks of the IRC session, `Auth`, `MessageReceived` those of the XMPP client, `IrcSend`, `XmppSend` the two `send`s; `queue[b]` is the command queue of bot `b`, which both transports fill; `ircbox`, `xmppbox` are what the sessions have not read, `environment[b]` the variables of the bot, which `set`, `get` and `unset` of either medium share (`Store`, `Answers`) |
| `TransportManager` | the manager, the transports' life cycle, `cmd_transport`, start of the transports, `daemon()` | `table` is `manager->transports`; `heap` records which transports and sessions were allocated and freed, and the `data` and `logger` pointers; `thread` the transport threads.  Functions of the code are operators from heaps to heaps (`Connect`, `Disconnect`, `Run`, `Shutdown`, ...), the steps of the threads are actions; `mode` is the kind of users and network looked at |
| `Dictionary` | what `hashtable.h` promises | `map` from keys to values, and what the last call returned |
| `HashTable` | `hashtable.c` | `table` is a `hashtable_t` with the links of its list and the edges of its buckets; static functions are operators from tables to tables, the rehash one that empties the buckets (`Cleared`) and one that moves the pairs (`Moved`); `HashtableSet`, `HashtableDel`, `HashtableGet` are calls; `hash` is the hash function, chosen at the start and arbitrary |
| `Commands` | `app.c`, `loader.c` | `environment`, `plugins` and `logfile` are fields of `bitu_app_t`; `opened` is what dlopen counts, `files` the descriptors of log files; `Execute(line)` is `bitu_app_exec_command`, with one action per command |
| `Startup` | `main.c`, `conf.c`, `bitu_app_load_config` | extends `Commands`: `phase` is where main is; a round of the include loop is `GlobFails`, `FileFails` or `ReadFromFile` (with `LinesOf` and `Reads` for conf.c and its `fgets`), followed by one step for each line, `Skip`, `TakeBlanks`, `TakeBare`, `TakePidFile`, `TakeInclude` or `TakeCommand`, and `TakeDone`; after `ReadDone`, `LoadConfig` executes one command of the configuration at a time, then `RunTransports`, `Daemon`, `SavePid`; `Serve` is the consumer executing a user's command |
| `Recursion` | | what the proofs about recursive functions need: a least element (`Least`), induction over a set of numbers (`Induct`), and that a function defined step by step exists (`Iterates`) |
| `LocalServerProofs`, `TransportManagerProofs`, `StartupProofs`, `ChatProofs`, `HashTableProofs`, `DialogueProofs` | | theorems about the modules they are named after (`StartupProofs` about `Commands`, too) |
| `MC*` | | instances for TLC |

Composition: `CommandQueue` implements `CommandFifo` (property `QueueIsFifo`,
theorem `QueueRefinesFifo`), and `LocalServer` and `TransportManager` use the
queue as `CommandFifo` describes it: a sequence with a capacity.  `HashTable`
implements `Dictionary` (property `IsDictionary`), and the table of clients and
the table of transports are functions, as `Dictionary` describes them, and so
are the tables of `Commands`.  `Startup` composes main with `Commands`.  `LocalServer` keeps
the one effect of the mutex that reaches beyond the queue: `Add` waits until
the consumer is not executing anything.  `Dialogue` puts `CommandLine`, both
ends of the socket and the consumer together and implements `Exchange`
(property `IsExchange`); it looks inside what is one piece in `LocalServer`,
which has the other clients, the descriptors and the threads.  `Chat` composes
the two remaining transports, the queue and the consumer of several bots.

Abstractions: a command, a line or an answer is a member of a small set.  In
`LocalServer`, kinds of lines are told apart only where the code does
(`exit`, one character, anything longer) and answers likewise (none, a text,
an empty text); a long answer is two pieces of which the socket takes one.  In
`CommandLine` and `Dialogue` a text is a sequence of `Chars`, in the instance
made of an ordinary character, the blank, the quote and the escape character,
and an answer the sequence 1, 2, 3, ... of its
length, so that a lost or repeated part shows.  In `Startup` a line is a
sequence of words; which lines are too long for one `fgets`, and into what
texts they come apart, is given (`Pieces`), and so is what a text is without
its last character (`Shortened`).  In `Chat` a text is what the bots can tell:
whether it sets a variable (and to which text), gets one, is another command
or none, and for each bot how many times it can be quoted before its nick is
cut off (`bitu_app_exec_command` puts 39 characters in front and keeps 127:
four times at most).  `get` answers the text that was stored, which may be a
command again; other commands answer nothing or some text that is no command
(`Replies`).  The chat servers deliver at once.  In `TransportManager`, using what was freed or was never
there sets `heap.fault` and ends the behaviour, as `crashed` does in
`Dialogue`.  A client that was freed
between lookup and use is read as any descriptor number (`Read`).  Each module
also has wrong versions of some actions ("a bug: ..." or under "Plausible bugs"), used by no
specification: replacing an action by one of them is how the properties are
tested.

In `HashTable`, the node of a freed pair is as `list_init` would make it, and a
rehash that found no memory leaves a table no call may be made on (`usable`):
the code would follow a NULL pointer.

Several circumstances in one run: `LocalServer` and `TransportManager` choose
`world` and `mode` in their initial states, and they never change.  A `world` says whether users wait
for answers (`patient`), whether answers may exceed a socket (`long`), who
comes (`users`), how often each types (`quota`) and what (`kinds`); a `mode`
whether users give only sensible commands (`careful`), whether connecting
works and lasts (`reliable`), whether the bot was started with `--daemonize`
and how many `commands` are given.  A property that needs quieter
circumstances says so by name (`Calm`).

Bounds: `Quota`, `quota` (commands per producer, or messages), `Commands`, `commands` (commands given
to the manager), `MaxSize`/`Capacity` (10 in the code, smaller here so that
the queue does get full), `Primes` (the first numbers of buckets), `BufSize`
(128 in the code, 3 here, so that short texts are around it), `FewLines` (what
is typed in `Dialogue` once a send was cut short), `Fits` (4, as the
code has it).

## Runs

| Run | Instance | Shows |
|---|---|---|
| `queue` | 2 producers, 2 consumers, list of 2, 3 commands each | `TypeOK` (with the bound of the list), `SerialExecution`, `ProducersNotForgotten`, `ConsumersNotForgotten`, `SenderOrder`, refinement `QueueIsFifo`, liveness `CommandsExecuted` and `AddReturns` |
| `local` | 3 clients, 2 descriptors, queue of 1; two who wait for answers, 2 messages each, with short and with long answers; three who may interrupt bituctl, 1 message each | `TypeOK`, `ClientOutlivesAnswer` (with `AnswersToSender`) and `InStep` for users who wait, `TableMatchesFiles` for all, liveness `ClientsMoveOn`, `ServedInTurn`, `QueueIsReleased` |
| `local_misdelivery` | 2 clients, interrupts | violates `AnswersToSender` |
| `local_silence` | 2 clients, commands that answer with an empty text | violates `ClientsMoveOn` |
| `transport` | one uri of each kind; 3 commands of sensible users with lasting connections and `--daemonize`; 2 commands of any kind while connections fail or are lost | `TypeOK`, `TableIsLive`, `OneServer`, `RunningIsServed` for all, `NoFault` and `OneThread` for the first kind |
| `transport_connect_twice` | users connect what runs | violates `ReportsRunning` |
| `transport_server_stop` | users disconnect the local transport | violates `ServerBailsOut` |
| `transport_daemon` | `--daemonize` | violates `ServesInBackground` |
| `hash_table` | 4 keys, 2 values, all functions into 4 hashes, 2, 3 and 5 buckets, malloc may fail | `TypeOK` (with the load ratio), `Linked`, `BucketsAreSegments`, `IterationIsComplete`, refinement `IsDictionary` |
| `startup` | 3 files in 9 arrangements of includes and lines, 3 libraries of which two have one name, 26 lines of which two are too long for `fgets`, a long comment, with and without `--daemonize` | `TypeOK`, `LibrariesOpen`, `LogIsOpen`, `ConfigExecuted`, `PidFileNamesServer`, liveness `StartsUp` |
| `dialogue` | buffers of 3; every line of up to 4 characters, and after a name; every argument of up to 3 characters or two of up to 2; answers of 0 to 4 characters and none; one send cut short | `TypeOK`, `NothingLeftOver`, refinement `IsExchange`, liveness `PromptReturns` |
| `chat` | 2 bots on a channel, one on XMPP too, 2 users, 2 messages by users, queues of 2, one variable that may hold the command to get it, from the start or set by a user | `TypeOK` (with the bound of the queues), `AnsweredInOrder`, liveness `DiesOut` |

Why the bounds are enough.  Queue: the interesting cases are a full and an
empty list with several threads blocked, and two elements added or removed
between two signals; two threads of each kind and a list of two have them all,
and the safety properties are proved for every size.  Local server: a stale
descriptor needs one client that left, one that is accepted and one descriptor
to reuse; the third client fills the backlog, which holds two connections.
Answers out of step need a second message of one client, and a second client
to be answered in between.
Manager: a fault needs a command, its origin and a command about the origin;
with three uris there are two transports of which one can administer the other
and a third one besides.  Hash table: the hardest deletion is at an edge of a
bucket of several pairs that lies between two others, and the load ratio makes
the table grow from two buckets to three and to five, the fourth key with
collisions.  Keys are interchangeable, so the run uses symmetry.
Start-up: files are read one after the other, so a chain of three, two includes in
one file, a pattern for two files, one for none, a file of comment, a line of
blanks, an include and a pid-file without a parameter, a line that does not end,
and lines that come in several pieces, one that just fills the first piece
among them, are the ways to go; replacing a plugin needs two libraries of one name.
Dialogue: with buffers of 3, answers and lines are shorter than, as long as,
one longer than and (lines) twice as long as a buffer, and four characters
are every neighbourhood the parser looks at (the previous character, this one,
the inside of quotes); each request ends in the state it began in, so the
run covers sequences of any length.
Chat: a message that goes round needs two bots, or one that hears itself; a
bot that asks itself for a variable needs the variable set, by the
configuration or by one message, and another message that asks, and it ends
with one that unsets it.  The order of answers to one user is at stake when
two of its messages wait in two places; more messages, somebody else's among
them, are left to the theorem `EachAnsweredInTurn`, which is about any number.

CHECK_DEADLOCK is off in the runs of `LocalServer`, `Dialogue`, `TransportManager`,
`Chat`, `HashTable` and `Startup`: there all clients may have left, all
commands have been given, everything has been said, the
program has exited, or the buckets are lost.

## Fairness

`CommandQueue`: each step of a thread after it called `bitu_queue_add` or
`bitu_queue_consume` is weakly fair (the scheduler runs every thread and
callbacks return), and taking the mutex is strongly fair: other threads take
it again and again, and a waiter gets it in the end.  POSIX promises no order,
but no mutex implementation in use starves a waiter for ever.  Nothing obliges
a transport to queue a command, so `AddCall` is not fair.

`LocalServer`: both threads are weakly fair, a client reads an answer that has
arrived, and a user at the prompt eventually types or leaves (with a user who
does neither, other clients wait, since the server serves one at a time; that
is what the code does and `ServedInTurn` assumes it away).  Nobody has to
connect or to interrupt.  `QueueIsReleased` needs the users most: the consumer
holds the mutex of the queue while it sends, and a user who has stopped
reading in the middle of a long answer and neither types nor leaves keeps
every transport thread out of `bitu_queue_add`.

`Dialogue`: the loops of bituctl, of the server thread and of the consumer are
weakly fair; nobody has to type.

`Chat`: the callbacks of each session and each consumer are weakly fair;
nobody has to say anything, to go, or to lose a connection.

`Startup`: main is weakly fair; nobody has to send commands.

`TransportManager` and `HashTable` have safety properties only, and no fairness.

## Findings

* `local_misdelivery`: the answer to an interrupted command can reach another
  client.  The consumer has looked up the client when the server thread frees
  it and closes its descriptor; the next `accept` reuses the number.
* `local_silence`: only a NULL answer is sent as a terminator.  `get x` after
  `set x ""` answers with an empty string, of which nothing is sent.
* `transport_connect_twice`: `bitu_conn_manager_run` treats
  `ALREADY_RUNNING` as a failure and shuts the transport down; the answer
  `cmd_transport` has for that case is never given.
* `transport_server_stop`: `_local_disconnect` frees the server its own thread
  is running in.
* `transport_daemon`: the threads are started before `daemon()` forks, and do
  not exist in the process that stays.

Others were met on the way.  Nothing in the repository says otherwise of them
(but for long comments, see Start-up), or they lie in what a model leaves out,
and no run is about them alone:

* `Sensible` keeps out of the careful users of `transport`: disconnecting an
  IRC transport without a session hands NULL to libircclient
  (`transport-irc.c` 168), which a failed connection does as well, by way of
  the shutdown (`transport.c` 209); connecting a local transport again
  uses the logger of the server that was freed (`transport-local.c` 57, 117).
  When an IRC connection is lost, the transport can be removed before its
  thread logs the failure through it (`transport.c` 183-185, `RunFails`); that
  of an XMPP transport is not logged, since `_xmpp_run` returns
  `BITU_CONN_STATUS_ERROR`, which is not `TA_ERROR`.  A uri for XMPP without a
  user, or with a user but no password, crashes `_xmpp_connect` before it is
  found incomplete (`transport-xmpp.c` 144-158); such uris are not modelled.
* Start-up: a command of the configuration is freed and then logged
  (`app.c` 107-113, the phase "crash"); of several files a pattern matches only
  one is executed, and of several includes in a file only the last one is
  followed (`main.c` 220, 239); the last line of a file loses a character
  unless it ends with a line break, and of a line of 254 characters or more
  every piece but the last one loses its last character and is a line of its
  own (`conf.c` 27-43), so that the end of a long comment is executed, although
  `bitu.conf.dist` 1-2 says that comments are ignored; a line of blanks is a
  command without a name, which main
  compares with others and crashes (`conf.c` 45-47, `main.c` 236), as it does
  copying the parameter of an `include` or `pid-file` that has none (`main.c`
  237, 239).  `ConfigExecuted` is for files that have none of these
  (`WholeLines`, `OneByOne`, the phase "crash").
  After `daemon()` the directory is another, so a relative pid file is written
  there (`main.c` 261, 270), which the model does not tell apart; and
  the pid file is neither truncated nor, being without an x bit, ever unlinked
  (`main.c` 94, 279).
* Lines: a line of blanks is a command without a name, which `hash_string`
  reads (`app.c` 138): the bot crashes.  One that begins with two quotes or
  escape characters is reallocated to size 0 twice, which frees a pointer twice
  where `realloc (p, 0)` frees (glibc; `ReallocZeroFrees`; `util.c` 117).
  While a token is empty its first character goes to a buffer of no bytes.
  `_escape_param` escapes no escape characters; a blank at the end of the last
  argument and empty arguments do not survive, and of two blanks the second
  one begins a parameter (`Faithful` and `GoodStyle` say what does survive).
* The dialogue: `bituctl ""` sends nothing and waits for ever
  (`DialogueAssumption`); a last chunk of one character is not printed
  (`shell.c` 117, `Shows`); after a partial send the message is sent from its
  beginning again (`server.c` 259); a long answer that comes in parts may be
  read in part, and the rest is taken for the next answer (`shell.c` 123,
  `InStep` is for answers that fit).
* Chat: a private message on IRC is answered to the bot itself
  (`transport-irc.c` 79), so that after `set b1 "get b1"` a private `get b1`
  makes the bot b1 ask itself for ever, until the variable is unset or set to
  something else (`app.c` 279; `Echoes`, and `DiesOut` says that nothing else
  but bounces goes on for ever); a uri without a user connects as bitU but listens
  for NULL (47, 146); the pattern with `[[:<:]]` is one for BSD regular
  expressions; a NULL answer is not sent on IRC; an XMPP error is executed
  like a message (`transport-xmpp.c` 66), so that an answer to somebody who
  left comes back for ever, and two bots on XMPP would answer each other for
  ever.
* Elsewhere: `loader.c` 180 looks plugins without a pattern up under the
  whole line, so that they only run without parameters; the level of an
  unknown name is uninitialized (`app.c` 677); the test of
  `bitu_util_extract_params` in `test-util.c` checks nothing, as `TA_OK` is 0;
  `bitu_util_uuid4` has 36 bytes for a text of 37 (`util.c` 162).

## Proofs

The theorems hold for every value of the constants that satisfies the `ASSUME`
of the module, which TLC evaluates on the instances.  They cover every safety
property of the passing runs; what is left to TLC alone is liveness (see the
end).

| Module | Theorems | Property |
|---|---|---|
| `CommandQueueProofs` | `TypeCorrect`, `Serial`, `ProducersWoken`, `ConsumersWoken`, `InSenderOrder`, `QueueRefinesFifo` | `TypeOK`, `SerialExecution`, `ProducersNotForgotten`, `ConsumersNotForgotten`, `SenderOrder`, `QueueIsFifo` |
| `LocalServerProofs` | `TypeCorrect`, `TableCorrect`, `ClientSurvivesAnswer`, `CommandsInStep` | `TypeOK`, `TableMatchesFiles`, `ClientOutlivesAnswer`, `InStep` |
| `TransportManagerProofs` | `TypeCorrect`, `TableOnlyLive`, `SingleServer`, `ListTellsTheTruth`, `NoFaultWhenCalm`, `OneThreadWhenCalm` | `TypeOK`, `TableIsLive`, `OneServer`, `RunningIsServed`, `NoFault`, `OneThread` |
| `HashTableProofs` | `TypeCorrect`, `LinksAgree`, `BucketsCorrect`, `IterationComplete`, `TableRefinesDictionary` | `TypeOK`, `Linked`, `BucketsAreSegments`, `IterationIsComplete`, `IsDictionary` |
| `StartupProofs` | `TypeCorrect`, `NoLibraryLeaks`, `OneLogFile`, `PidFileCorrect`, `ConfigIsExecuted` | `TypeOK`, `LibrariesOpen`, `LogIsOpen`, `PidFileNamesServer`, `ConfigExecuted` |
| `ChatProofs` | `TypeCorrect`, `EachAnsweredInTurn` | `TypeOK`, `AnsweredInOrder` |
| `DialogueProofs` | `TypeCorrect`, `NothingLeft`, `DialogueRefinesExchange` | `TypeOK`, `NothingLeftOver`, `IsExchange` |
| | `ArgsComeThrough`, `WordsComeThrough` | the operators of `CommandLine` |

**Assumptions.**  Everywhere `NULL` is none of the things a pointer can point
to.  `CommandQueue`: finite sets of threads, a list of one place or more.
`HashTable`: finitely many keys, ascending numbers of buckets of which the
last is at least the number of keys (the table of primes ends beyond 10^9).
`Commands`: a line has a first word, words and names of plugins are strings.
`Startup`: finitely many files, patterns are strings, and the pieces of the
lines in the files are lines, too.  `Chat`: what a variable is set to is a
text or nothing.  `CommandLine`: the
characters include those the code looks for, and `NULL` is neither a text nor
a list of texts.
`Dialogue`: the command given to bituctl is not empty, nothing empty is typed,
and `BufSize` is not 1 (128 in the code): with buffers of one
character bituctl takes the first character of every answer for the end of it,
and `NothingLeftOver` is false.  One theorem has a hypothesis of its own:
`CommandsInStep` is for commands that do not answer with an empty text, since
after one bituctl waits for ever (run `local_silence`) and, when it is
interrupted, is out of step.

**Command queue.**  The inductive invariant has three layers.  `CoreInv` is
`TypeOK`, `SerialExecution` and `Bookkeeping` (a consumer holds a command
exactly while it executes one, and each kind of thread is only at its own
places); mutual exclusion is what makes the test of the length still true when
the list changes, so neither part is inductive alone.  On top of it, the two
wake-up properties are inductive by counting: `ProducersNotForgotten` says
that the free slots never outnumber the producers that will look at the list
again plus the consumers that still owe a signal.  A consumer that pops adds
one to the free slots and one to those that owe a signal; one that signals
moves a producer from the waiting to the awake; a producer that adds takes a
slot and leaves the awake.  `Counting` has the facts on cardinalities these
steps need.  Just saying "no producer waits on a list with free slots" would
not be inductive (nor true between the unlock and the signal).  `OrderInv`
adds `OnlyQueued`: only commands their producer has queued are in the list or
executing; without it the number of the next command could be in the list
already.  The refinement uses `CoreInv` and three lemmas on reversing the list
(`OldestIsSeq`, `OldestPrepended`, `OldestPopped`).

**Local server.**  `StreamTypes` types what the type invariant leaves out.
`Served` spells the table of clients and the descriptors out in terms of where
the server thread is, and `Connections` says that a connection waits once, is
served and is closed for good; together they give `TableMatchesFiles` for all
users.  For users who wait, `OnePlace` says that a message is in the inbox, in
the hands of the server, in the queue, with the consumer or in the outbox, and
in one of these places only: then the server thread waits for the very client
the consumer is looking up, and cannot free it.

**Connection manager.**  `HeapOK` says that pointers are to sessions that were
made for that transport, that sessions are numbered without gaps, and that the
pointer of a local transport is to the only server there is for it; each
function of the code, an operator on heaps, is shown to preserve it and to
touch only the sessions of one transport (`OnlyOf`).  `TableIsLive` and
`OneServer` follow, for any users and any failures.  `RunningIsServed` adds
that, until the process goes to the background, what calls itself running has
a thread that serves its session or will when it starts (`AllAttended`).  Under
calm circumstances (`CalmInv`) every transport that commands came by has an
open session, so it calls itself running and
`bitu_conn_manager_remove` refuses to free it; that is why nothing freed is
used, and why no uri gets a second thread.

**Hash table.**  The invariant `TableInv` names the nodes of the list by their
positions, c[0] for the head and c[1], ..., c[n] for the pairs: `next` and
`prev` are the neighbours on this ring (`Ring`), and a bucket is empty or
covers c[lo] to c[hi], the pairs with its hash and no others (`Segment`,
`Spread`).  Inserting and deleting change c by one element (`With`,
`Without`), and all links and edges with it.  `Linked` or
`BucketsAreSegments` alone is not inductive: what deletion does at the edge of a
bucket is right only because the neighbour on the ring belongs to another one.
The loops of the code (looking for a pair in a bucket, iterating, moving the
pairs to the new buckets) are recursive functions, and what they compute is
shown by a smallest counterexample (`Least`, in `Recursion`) where an induction
would be used; `Iterates` says that the functions exist.  The rehash is included: the table
is a `Ring` with empty buckets, and each pair moved restores one more of them.

**Start-up and commands.**  `LoaderOK`: a plugin is in the table under its own
name and its library is open exactly once; replacing a plugin by one of the
same name is where a weaker invariant fails.  `LogOK` is the same for the log
file, and what main has read consists of lines of its files.

`ConfigExecuted` compares what was executed with what the files declare, a
recursion along the includes.  The invariant (`ConfigInv`) has the files main
has read as a chain, each included by the one before (`Chained`): what the
configuration file declares to some depth is what was executed, is to be
executed and is still to be looked at, followed by what the file to come
declares to the rest of the depth (`Unread`, `AllRead`).  Reading a file makes
the chain longer by one and unrolls one step of the recursion.  In the end
nothing is to come; the depth suffices because no file is twice in the chain
(`NoneTwice`): after a repetition the same files would follow again, and the
chain would have no end.  All this is for files that are read as they look
(`AsItLooks`): that `fgets` hands out such a file line by line, each as it is,
is `LinesAsTheyAre`, which follows the recursion of `LinesOf`; of other files
only the types of the lines are known (`LinesAreLines`).

**Chat.**  `AnsweredInOrder` is about the answers a user got; the invariant is
about all that is still to be answered.  `InTurn` says that the numbers of a
user's messages in the bot's queue and then in what its session has not read
ascend without gaps from the last one answered to the last one asked.  What
has no number there is a bounce, and of somebody who has left (`Bounces`); a
bot that is not online has neither messages nor commands from XMPP
(`Unheard`), so the sequence begins empty.  What a command answers is a text
or nothing (`WhatIsAnswered`) because what the variables hold is
(`WhatIsStored`); it counts as one answer in any case.

**Dialogue.**  Neither end knows where a message ends, so all depends on there
being one thing at a time on its way.  `Load` counts them: a line sent or being
read, commands queued, an answer not yet sent, an answer not yet taken.
`InTurn` bounds it by 1 while bituctl waits and by 0 at the prompt, and by one
more once a send was cut short; `Deserted` keeps it at 0 when the server's end
is closed, as bituctl then comes back without an answer; `Fresh` is about the
state before the first request.

As there is only one thing on its way, the state of that thing says how far
the exchange has come, which is what the refinement needs (`InStep`): the line
(`Coming`), the command made of it (`Queued`), the message (`Executed`), what
is left of it to print (`Answered`), or nothing any more, because the server
refused a line that was not proper (`Refused`) or the answer is empty
(`Unanswered`).  In `Answered`, what was printed and what is still to be read
make the answer, and as long as there is something to read, what was printed
fills whole buffers; so a single character that is read is the last of the
answer (`ReadPiece`).  All this holds until a send is cut short, after which
`Exchange` promises nothing.

That the command made of a line is the one that was meant is proved about
`CommandLine` alone, for texts of any length.  `Reading(t, found, tok, q)` says
that the loop of `bitu_util_extract_params`, having passed the text t, has
found some tokens, is inside the token tok, and between quotes or not; one
lemma for each kind of character says how it goes on (`ReadChar`,
`ReadEscaped`, `ReadBlank`, `ReadQuote`, `ReadEnd`), and `Induct` takes it
along the text.  `ArgsComeThrough` follows it along the line that `LineOf`
makes of arguments, through the escapes that `EscapeParam` puts in;
`WordsComeThrough` along a typed line, with the number of cuts passed
(`Rank`) and of quotes passed (`Odd`).  Both theorems also say that nothing is
freed twice.

Only model-checked, and why:

* liveness (`CommandsExecuted`, `AddReturns`, `ClientsMoveOn`, `ServedInTurn`,
  `QueueIsReleased`, `PromptReturns`, `DiesOut`, `StartsUp`), which the prover
  does not do;
* that the violations of the findings do happen.

## Not modelled

* libircclient, taningia, iksemel, readline: external, modelled by how they
  are used (`irc_connect` refuses a connected session, the callbacks come from
  the thread that runs the session).
* Bytes beyond a buffer: `server.c` 340 and `shell.c` 119 put a 0 after 128
  bytes, `util.c` 34 reads in front of a blank string, and bituctl makes room
  for parameters but neither for a command of more than 127 bytes (`shell.c`
  247-255) nor for the end of a parameter of nothing but blanks and quotes
  (44).  The models, and the theorems about texts of any length, say what
  happens as long as nothing in use is there.
* Callbacks that change nothing (`connected_cb`, `presence_noticed_cb`, the
  logging handlers), logging and its levels, `bitu_util_uuid4`, and the
  options of the two programs other than those named above.
* The bodies of the plugins `hello`, `uptime` and `cpuinfo`: each formats one
  text, the last two of what the kernel says, and keeps no state.  Loading,
  finding and unloading them is in `Commands`.
* In `HashTable` the rehash moves the pairs in the order the list had before.
  The code takes the next pair from the list it is changing, but before it moves
  a pair (`hashtable.c` 161), and an insertion changes links of the
  head and of pairs moved already only: the order is the same.
* Uris the manager cannot parse: `bitu_conn_manager_add` refuses them and
  nothing changes.  The directory a relative pid file is in (see Findings).
* The tests.
* Several clients together with texts: `LocalServer` has the clients,
  `Dialogue` the texts.

## Plan

1. Done: `CommandFifo`, `CommandQueue` and its proofs, `LocalServer`,
   `TransportManager`.
2. Done: `HashTable` as an implementation of `Dictionary`.
3. Done: `Commands` with plugins, and `Startup`.
4. Done: `CommandLine`, and `Dialogue` as an implementation of `Exchange`.
5. Done: sends that block in `LocalServer`, and what they do to the queue.
6. Done: `Chat`.
7. Done: proofs about every part: the safety properties of `LocalServer`,
   `TransportManager`, `Startup`, `Chat`, `HashTable` (with the refinement) and
   `Dialogue`.
8. Done: `ConfigExecuted` for any chain of files; the parser of lines for texts
   of any length, and with it the refinement of `Exchange`.
9. Next, should the code change: the parts of `Not modelled` that keep state.
