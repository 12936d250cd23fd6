------------------------------- MODULE Startup -------------------------------
(***************************************************************************)
(* The life of main: reading the configuration file and the files it       *)
(* includes (main.c, conf.c), executing their commands                     *)
(* (bitu_app_load_config), connecting the transports, going to the         *)
(* background and writing the pid file; from then on the consumer executes *)
(* what users send.                                                        *)
(*                                                                         *)
(* A file is the sequence of its lines, of any length, and whether the     *)
(* last one ends with a line break.  How transports connect is in          *)
(* TransportManager: here some transport connects or none does.            *)
(***************************************************************************)
EXTENDS Commands

CONSTANTS Files,
          Glob,       \* the files each pattern matches
          Contents,   \* what the files may contain: functions of Files
          Pieces,     \* the texts fgets makes of a line that is too long for it
          Shortened,  \* what is left of a text without its last character
          ConfigFile, \* --config-file, or NULL
          Pids        \* process numbers, each the sequence of its digits

(* Lines with nothing but blanks, without a character, and of comment.     *)
Blanks == <<>>
Empty == <<"">>
Comment == <<"#">>
LongComment == <<"#", "...">>
Ignored == {Empty, Comment, LongComment}
NoCommand == Ignored \cup {Blanks}

(* What bitu_conf_read_from_file makes of a line.  fgets takes at most 254 *)
(* characters, so a longer line comes in several pieces; the last          *)
(* character of every piece is taken for the line break, which only the    *)
(* last one has, and only if the line ends.  Nothing more comes after the  *)
(* end of the file.                                                        *)
Reads(line, ended) ==
  LET pieces == IF line \in DOMAIN Pieces THEN Pieces[line] ELSE <<line>>
      n == Len(pieces)
  IN [i \in 1..(n - 1) |-> Shortened[pieces[i]]]
     \o IF ended THEN <<pieces[n]>>
        ELSE IF pieces[n] = Empty THEN <<>> ELSE <<Shortened[pieces[n]]>>

(* Whether line i of a file ends with a line break. *)
Ends(file, i) == file.ended \/ i < Len(file.lines)

ASSUME StartupAssumption ==
         /\ IsFiniteSet(Files) /\ DOMAIN Glob \subseteq STRING
         /\ \A c \in Contents, f \in Files :
              /\ c[f].lines \in Seq(Lines \cup NoCommand)
              /\ \A i \in 1..Len(c[f].lines) :
                   Reads(c[f].lines[i], Ends(c[f], i)) \in Seq(Lines \cup NoCommand)
         /\ \A p \in DOMAIN Glob : Glob[p] \subseteq Files
         /\ ConfigFile \in DOMAIN Glob \cup {NULL}
         /\ \A line \in Lines :
              line[1] = "include" /\ Len(line) > 1 => line[2] \in DOMAIN Glob
         /\ Pids \subseteq Seq(0..9)

VARIABLES
  content,      \* [lines, ended] of each file
  phase,        \* "read", "take", "load", "daemon", "pid", "serve", "exit", "crash"
  config_file,  \* the pattern to be read next, or NULL
  rest,         \* the lines that were read and main has not looked at yet
  commands,     \* commands read and not executed yet
  pid_file,     \* whether the configuration names one, and which
  daemonize,    \* whether --daemonize was given
  connected,    \* whether main has connected a transport
  consuming,    \* whether this process has a consumer thread
  process,      \* the number of this process
  pidText,      \* what the pid file contains, NULL if it cannot be opened
  executed      \* the commands of the configuration executed so far

options == <<content, daemonize>>
config == <<config_file, rest, commands, pid_file, executed>>
running == <<connected, consuming, process, pidText>>
mainVars == <<options, phase, config, running>>
vars == <<appVars, mainVars>>

(* The pid file of an earlier run may be there: it is unlinked only if it  *)
(* is executable (main.c:279), and _save_pid makes one that is not.        *)
Init == /\ AppInit
        /\ content \in Contents
        /\ phase = "read" /\ config_file = ConfigFile /\ rest = <<>>
        /\ commands = <<>> /\ executed = <<>>
        /\ pid_file = NULL /\ daemonize \in BOOLEAN
        /\ connected = FALSE /\ consuming = FALSE
        /\ process \in Pids /\ pidText \in Pids \cup {<<>>, NULL}

-----------------------------------------------------------------------------
(* Plausible bugs. *)

TakeIncludeForgetting ==   \* an include starts a new list of commands
  /\ phase = "take" /\ rest # <<>> /\ Head(rest) \in Lines
  /\ Head(rest)[1] = "include" /\ Len(Head(rest)) > 1
  /\ rest' = Tail(rest)
  /\ config_file' = Head(rest)[2]
  /\ commands' = <<>>
  /\ UNCHANGED <<appVars, options, running, phase, pid_file, executed>>

GlobFailsRetrying ==   \* until there are files
  phase = "read" /\ config_file # NULL /\ Glob[config_file] = {} /\ UNCHANGED vars

DaemonAfterPid ==   \* the pid is written before the process forks
  /\ phase = "daemon"
  /\ phase' = IF connected THEN "serve" ELSE "exit"
  /\ pidText' = IF pid_file = NULL \/ pidText = NULL THEN pidText ELSE process
  /\ process' \in Pids \ {process}
  /\ consuming' = FALSE
  /\ UNCHANGED <<appVars, options, config, connected>>

-----------------------------------------------------------------------------
(* One round of the loop over config_file: the pattern may match nothing,  *)
(* a file may be unreadable, which one without commands is taken for, or   *)
(* all that match are read, in any order, and only the commands of the     *)
(* last one looked at.                                                     *)
GlobFails == /\ phase = "read" /\ config_file # NULL /\ Glob[config_file] = {}
             /\ config_file' = NULL
             /\ UNCHANGED <<appVars, options, running, phase, rest, commands, pid_file, executed>>

(* What bitu_conf_read_from_file makes of a file. *)
LinesOf(f) ==
  LET lines == content[f].lines
      upto[i \in 0..Len(lines)] ==
        IF i = 0 THEN <<>> ELSE upto[i - 1] \o Reads(lines[i], Ends(content[f], i))
  IN upto[Len(lines)]

HasCommands(f) == \E i \in 1..Len(LinesOf(f)) : LinesOf(f)[i] \notin Ignored

FileFails == /\ phase = "read" /\ config_file # NULL
             /\ \E f \in Glob[config_file] : ~HasCommands(f)
             /\ phase' = "exit"
             /\ UNCHANGED <<appVars, options, running, config>>

ReadFromFile == /\ phase = "read" /\ config_file # NULL
                /\ \A f \in Glob[config_file] : HasCommands(f)
                /\ \E f \in Glob[config_file] : rest' = LinesOf(f)
                /\ phase' = "take" /\ config_file' = NULL
                /\ UNCHANGED <<appVars, options, running, commands, pid_file, executed>>

(* The loop over the commands of a file.  Comments and empty lines, which  *)
(* bitu_conf_read_from_file has left out, are skipped.                     *)
Skip == /\ phase = "take" /\ rest # <<>> /\ Head(rest) \in Ignored
        /\ rest' = Tail(rest)
        /\ UNCHANGED <<appVars, options, running, phase, config_file, commands, pid_file, executed>>

(* A line of blanks is a command without a name, and the name is compared. *)
TakeBlanks == /\ phase = "take" /\ rest # <<>> /\ Head(rest) = Blanks
              /\ phase' = "crash"
              /\ UNCHANGED <<appVars, options, running, config>>

(* The next line is a command of the given name. *)
Takes(name) == phase = "take" /\ rest # <<>> /\ Head(rest) \in Lines /\ Head(rest)[1] = name

(* main takes the first parameter of these two without asking if there is  *)
(* one.                                                                    *)
TakeBare == /\ \/ Takes("include")
               \/ Takes("pid-file") /\ pid_file = NULL
            /\ Len(Head(rest)) = 1
            /\ phase' = "crash"
            /\ UNCHANGED <<appVars, options, running, config>>

TakePidFile == /\ Takes("pid-file") /\ pid_file = NULL /\ Len(Head(rest)) > 1
               /\ pid_file' = Head(rest)[2]
               /\ rest' = Tail(rest)
               /\ UNCHANGED <<appVars, options, running, phase, config_file, commands, executed>>

(* A second include replaces the first. *)
TakeInclude == /\ Takes("include") /\ Len(Head(rest)) > 1
               /\ config_file' = Head(rest)[2]
               /\ rest' = Tail(rest)
               /\ UNCHANGED <<appVars, options, running, phase, commands, pid_file, executed>>

(* A second pid-file is taken for a command. *)
TakeCommand ==
  /\ phase = "take" /\ rest # <<>> /\ Head(rest) \in Lines
  /\ Head(rest)[1] # "include" /\ (Head(rest)[1] = "pid-file" => pid_file # NULL)
  /\ commands' = Append(commands, Head(rest))
  /\ rest' = Tail(rest)
  /\ UNCHANGED <<appVars, options, running, phase, config_file, pid_file, executed>>

TakeDone == /\ phase = "take" /\ rest = <<>>
            /\ phase' = "read"
            /\ UNCHANGED <<appVars, options, running, config>>

ReadDone == /\ phase = "read" /\ config_file = NULL
            /\ phase' = "load"
            /\ UNCHANGED <<appVars, options, config, running>>

(* bitu_app_load_config.  The log message about an answer reads the        *)
(* command after it was freed, which may be the end of the program.        *)
LoadConfig ==
  /\ phase = "load" /\ commands # <<>>
  /\ Execute(Head(commands))
  /\ commands' = Tail(commands)
  /\ executed' = Append(executed, Head(commands))
  /\ \/ UNCHANGED phase
     \/ last'.answer # NULL /\ phase' = "crash"
  /\ UNCHANGED <<options, config_file, rest, pid_file, running>>

(* bitu_app_run_transports starts the consumer if a transport is           *)
(* connected.                                                              *)
RunTransports == /\ phase = "load" /\ commands = <<>>
                 /\ connected' \in BOOLEAN /\ consuming' = connected'
                 /\ phase' = IF daemonize THEN "daemon" ELSE "pid"
                 /\ UNCHANGED <<appVars, options, config, process, pidText>>

(* daemon(): the child goes on under a number of its own, and without the  *)
(* threads of its parent.                                                  *)
Daemon == /\ phase = "daemon"
          /\ \/ /\ phase' = "pid"
                /\ process' \in Pids \ {process}
             \/ phase' = "exit" /\ UNCHANGED process
          /\ consuming' = FALSE
          /\ UNCHANGED <<appVars, options, config, connected, pidText>>

(* The file is not truncated: of a longer number the end remains.          *)
Overwritten(old, new) == new \o SubSeq(old, Len(new) + 1, Len(old))

(* _save_pid, which only warns if it cannot open the file; then main       *)
(* sleeps for ever or leaves.                                              *)
SavePid == /\ phase = "pid"
           /\ pidText' = IF pid_file = NULL \/ pidText = NULL
                           THEN pidText ELSE Overwritten(pidText, process)
           /\ phase' = IF connected THEN "serve" ELSE "exit"
           /\ UNCHANGED <<appVars, options, config, connected, consuming, process>>

(* The consumer executes what users send, as soon as it is started. *)
Serve == /\ consuming
         /\ \E line \in Lines : Execute(line)
         /\ UNCHANGED mainVars

Main == \/ GlobFails \/ FileFails \/ ReadFromFile \/ ReadDone
        \/ Skip \/ TakeBlanks \/ TakeBare \/ TakePidFile \/ TakeInclude \/ TakeCommand \/ TakeDone
        \/ LoadConfig \/ RunTransports \/ Daemon \/ SavePid
Next == Main \/ Serve

Spec == Init /\ [][Next]_vars

(* Main runs on; nobody has to send commands. *)
FairSpec == Spec /\ WF_vars(Main)

-----------------------------------------------------------------------------
TypeOK == /\ AppTypeOK
          /\ phase \in {"read", "take", "load", "daemon", "pid", "serve", "exit", "crash"}
          /\ config_file \in DOMAIN Glob \cup {NULL}
          /\ rest \in Seq(Lines \cup NoCommand)
          /\ commands \in Seq(Lines) /\ executed \in Seq(Lines)
          /\ process \in Pids /\ {daemonize, connected, consuming} \subseteq BOOLEAN
          /\ consuming => connected /\ phase \in {"daemon", "pid", "serve"}

IsCommand(line) == line \notin NoCommand /\ line[1] \notin {"include", "pid-file"}

(* The commands among lines, in their order. *)
OnlyCommands(lines) ==
  LET upto[i \in 0..Len(lines)] ==
        IF i = 0 THEN <<>>
        ELSE IF IsCommand(lines[i]) THEN Append(upto[i - 1], lines[i]) ELSE upto[i - 1]
  IN upto[Len(lines)]

(* The patterns lines include, and the files a file includes. *)
Includes(lines) == {line[2] : line \in {l \in ToSet(lines) \ NoCommand :
                                           l[1] = "include" /\ Len(l) > 1}}
Included(f) == UNION {Glob[p] : p \in Includes(content[f].lines)}

(* All lines end with a line break, and none is too long for fgets. *)
WholeLines == \A f \in Files : /\ content[f].ended
                               /\ ToSet(content[f].lines) \cap DOMAIN Pieces = {}

(* Every pattern in use means at most one file, and no file includes two.  *)
OneByOne == \A f \in Files :
              /\ Cardinality(Includes(content[f].lines)) <= 1
              /\ \A p \in Includes(content[f].lines) \cup {ConfigFile} : Cardinality(Glob[p]) <= 1

(* The commands a file declares, then those of the file it includes, to a  *)
(* depth of n files.                                                       *)
Declared[n \in 0..Cardinality(Files)] ==
  [f \in Files |->
     IF n = 0 THEN <<>>
     ELSE OnlyCommands(content[f].lines)
          \o IF Included(f) = {} THEN <<>>
             ELSE Declared[n - 1][CHOOSE g \in Included(f) : TRUE]]

(* When main begins to serve, it has executed all commands declared in the *)
(* configuration file and the files it leads to, in order, as long as each *)
(* file includes at most one other, all lines end and none has more than   *)
(* 253 characters (main.c:203-251, app.c:88-118, conf.c:29-55).  Other     *)
(* files are read differently than they look: see LinesOf and TakeInclude. *)
ConfigExecuted ==
  ConfigFile # NULL /\ WholeLines /\ OneByOne /\ phase \in {"daemon", "pid", "serve"} =>
    \A f \in Glob[ConfigFile] : OnlyCommands(executed) = Declared[Cardinality(Files)][f]

(* The pid file has the number of the process that goes on, the daemon's   *)
(* if it went to the background, unless the file cannot be opened or the   *)
(* end of a longer number remained (main.c:257-276).                       *)
PidFileNamesServer ==
  phase = "serve" /\ pid_file # NULL /\ pidText # NULL /\ Len(pidText) = Len(process) =>
    pidText = process

(* Unless files include each other in a circle, main comes to the end of   *)
(* the configuration and then serves or leaves, whether or not a transport *)
(* connects (main.c:203-276).                                              *)
StartsUp == <>(phase \in {"serve", "exit", "crash"})
=============================================================================
