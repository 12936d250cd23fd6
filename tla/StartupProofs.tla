---------------------------- MODULE StartupProofs ----------------------------
(***************************************************************************)
(* Proofs about the commands, the plugin loader and the start-up for any   *)
(* libraries, plugins that match whatever they like, and configuration     *)
(* files.                                                                  *)
(***************************************************************************)
EXTENDS Startup, Recursion, FiniteSetTheorems, SequenceTheorems, TLAPS

(* A plugin is in the table under its own name, and its library is open    *)
(* exactly once.                                                           *)
LoaderOK == /\ plugins \in [Words -> Libs \cup {NULL}]
            /\ opened \in [Libs -> {0, 1}]
            /\ \A w \in Words : plugins[w] # NULL => w = PluginName[plugins[w]]
            /\ \A l \in Libs : opened[l] = IF plugins[PluginName[l]] = l THEN 1 ELSE 0

(* Only the current log file is open.                                      *)
LogOK == /\ logfile \in Words \cup {NULL}
         /\ files \in [Words -> {0, 1}]
         /\ LogIsOpen

AppInv == /\ environment \in [Words -> Words \cup {NULL}]
          /\ LoaderOK
          /\ LogOK
          /\ last.by \in Libs \cup {"app", NULL}

-----------------------------------------------------------------------------
(* Lines and their words *)

LEMMA WordsOfLine ==
  ASSUME NEW line \in Lines
  PROVE  /\ line \in Seq(STRING) /\ Len(line) \in Nat /\ Len(line) >= 1
         /\ \A i \in 1..Len(line) : line[i] \in Words
<1>1. line \in Seq(STRING) /\ line # <<>>
  BY CommandsAssumption
<1>2. Len(line) \in Nat /\ Len(line) >= 1 /\ DOMAIN line = 1..Len(line)
  BY <1>1, EmptySeq, LenProperties
<1>3. \A i \in 1..Len(line) : line[i] \in ToSet(line)
  BY <1>2 DEF ToSet
<1> QED
  BY <1>1, <1>2, <1>3 DEF Words

LEMMA WordsAreStrings ==
  /\ Words \subseteq STRING /\ NULL \notin Words
  /\ \A l \in Libs : PluginName[l] \in Words /\ l # NULL
<1>1. \A line \in Lines : ToSet(line) \subseteq STRING
  <2> SUFFICES ASSUME NEW line \in Lines, NEW i \in DOMAIN line PROVE line[i] \in STRING
    BY DEF ToSet
  <2>1. line \in Seq(STRING)
    BY CommandsAssumption
  <2>2. DOMAIN line = 1..Len(line)
    BY <2>1, LenProperties
  <2> QED
    BY <2>1, <2>2, ElementOfSeq
<1>2. \A l \in Libs : PluginName[l] \in STRING /\ l # NULL
  BY CommandsAssumption
<1>3. \A w \in Words : w \in STRING
  BY <1>1, <1>2 DEF Words
<1>4. NULL \notin STRING
  BY CommandsAssumption
<1>5. \A l \in Libs : PluginName[l] \in Words
  BY DEF Words
<1> QED
  BY <1>2, <1>3, <1>4, <1>5

(* The checked number of parameters.                                       *)
LEMMA Parameters ==
  ASSUME NEW line \in Lines
  PROVE  /\ Cmd(line, "set") => line[2] \in Words /\ line[3] \in Words
         /\ \A name \in {"get", "unset", "load", "unload", "list", "set-log-file"} :
              Cmd(line, name) => line[2] \in Words
<1>1. /\ Len(line) \in Nat
      /\ \A i \in 1..Len(line) : line[i] \in Words
  BY WordsOfLine
<1>2. Cmd(line, "set") => Len(line) = 3
  BY <1>1 DEF Cmd, BadParams, NumParams
<1>3. ASSUME NEW name \in {"get", "unset", "load", "unload", "list", "set-log-file"},
             Cmd(line, name)
      PROVE  Len(line) = 2
  BY <1>1, <1>3 DEF Cmd, BadParams, NumParams
<1> QED
  BY <1>1, <1>2, <1>3

-----------------------------------------------------------------------------
(* The loader *)

(* Whatever becomes of loading, replacing and unloading, libraries are     *)
(* open for the plugins in the table and for nothing else.                 *)
LEMMA CtxLoadOK ==
  ASSUME LoaderOK, NEW lib \in Libs, CtxLoad(lib)
  PROVE  LoaderOK'
<1> DEFINE name == PluginName[lib]
           old == plugins[name]
<1>1. name \in Words /\ \A l \in Libs : PluginName[l] \in Words /\ l # NULL
  BY WordsAreStrings
<1>2. /\ plugins \in [Words -> Libs \cup {NULL}] /\ opened \in [Libs -> {0, 1}]
      /\ \A w \in Words : plugins[w] # NULL => w = PluginName[plugins[w]]
      /\ \A l \in Libs : opened[l] = IF plugins[PluginName[l]] = l THEN 1 ELSE 0
  BY DEF LoaderOK
<1>3. /\ old \in Libs \cup {NULL}
      /\ old # NULL => PluginName[old] = name /\ opened[old] = 1
  BY <1>1, <1>2
<1> DEFINE held(l) == IF l = old THEN 0 ELSE opened[l]
           replaced == Close(Open(opened, lib), old)
<1>4. /\ replaced \in [Libs -> Int]
      /\ \A l \in Libs : replaced[l] = held(l) + (IF l = lib THEN 1 ELSE 0)
  <2>1. CASE old = NULL
    BY <1>1, <1>2, <2>1 DEF Open, Close
  <2>2. CASE old # NULL
    <3>1. /\ Open(opened, lib) \in [Libs -> Int]
          /\ \A l \in Libs : Open(opened, lib)[l] = opened[l] + (IF l = lib THEN 1 ELSE 0)
      BY <1>2 DEF Open
    <3>2. replaced = [Open(opened, lib) EXCEPT ![old] = @ - 1]
      BY <2>2 DEF Close
    <3> DEFINE o == Open(opened, lib)
    <3> HIDE DEF o, replaced, old
    <3>3. /\ replaced \in [Libs -> Int]
          /\ \A l \in Libs : replaced[l] = o[l] - (IF l = old THEN 1 ELSE 0)
      BY <1>3, <2>2, <3>1, <3>2 DEF o
    <3> QED
      BY <1>2, <1>3, <2>2, <3>1, <3>3 DEF o
  <2> QED
    BY <2>1, <2>2
<1>5. \A l \in Libs : held(l) = IF l # old /\ plugins[PluginName[l]] = l THEN 1 ELSE 0
  BY <1>2
<1> HIDE DEF replaced, old, name
<1>6. CASE lib \in Incomplete
  <2>1. opened' = Close(Open(opened, lib), lib) /\ UNCHANGED plugins
    BY <1>6 DEF CtxLoad
  <2>2. opened' = opened
    BY <1>1, <1>2, <2>1 DEF Open, Close
  <2> QED
    BY <2>1, <2>2 DEF LoaderOK
<1>7. CASE opened' = replaced /\ plugins' = [plugins EXCEPT ![name] = lib]
  <2>1. /\ plugins' \in [Words -> Libs \cup {NULL}] /\ plugins'[name] = lib
        /\ \A w \in Words : w # name => plugins'[w] = plugins[w]
    BY <1>1, <1>2, <1>7
  <2>2. \A w \in Words : plugins'[w] # NULL => w = PluginName[plugins'[w]]
    BY <1>2, <2>1 DEF name
  <2>3. ASSUME NEW l \in Libs
        PROVE  opened'[l] = IF plugins'[PluginName[l]] = l THEN 1 ELSE 0
    <3>1. PluginName[l] \in Words
      BY <1>1
    <3>2. CASE l = lib
      <4>1. held(l) = 0
        BY <1>5, <3>2 DEF old, name
      <4> QED
        BY <1>4, <1>7, <2>1, <3>2, <4>1 DEF name
    <3>3. CASE l # lib
      <4>1. opened'[l] = held(l)
        BY <1>2, <1>4, <1>7, <3>3
      <4> QED
        BY <1>1, <1>3, <1>5, <2>1, <3>1, <3>3, <4>1 DEF old, name
    <3> QED
      BY <3>2, <3>3
  <2>4. opened' \in [Libs -> {0, 1}]
    BY <1>4, <1>7, <2>3
  <2> QED
    BY <2>1, <2>2, <2>3, <2>4 DEF LoaderOK
<1>8. CASE opened' = Close(replaced, lib) /\ plugins' = [plugins EXCEPT ![name] = NULL]
  <2>1. /\ plugins' \in [Words -> Libs \cup {NULL}] /\ plugins'[name] = NULL
        /\ \A w \in Words : w # name => plugins'[w] = plugins[w]
    BY <1>1, <1>2, <1>8
  <2>2. \A w \in Words : plugins'[w] # NULL => w = PluginName[plugins'[w]]
    BY <1>2, <2>1
  <2>3. \A l \in Libs : opened'[l] = held(l)
    BY <1>1, <1>2, <1>4, <1>8 DEF Close
  <2>4. ASSUME NEW l \in Libs
        PROVE  opened'[l] = IF plugins'[PluginName[l]] = l THEN 1 ELSE 0
    BY <1>1, <1>3, <1>5, <2>1, <2>3 DEF old
  <2>5. opened' \in [Libs -> {0, 1}]
    <3>1. DOMAIN opened' = Libs /\ opened' = [l \in Libs |-> opened'[l]]
      BY <1>1, <1>4, <1>8 DEF Close
    <3> QED
      BY <2>4, <3>1
  <2> QED
    BY <2>1, <2>2, <2>4, <2>5 DEF LoaderOK
<1> QED
  BY <1>6, <1>7, <1>8 DEF CtxLoad, replaced, name, old

LEMMA UnloadOK ==
  ASSUME LoaderOK, NEW w \in Words,
         opened' = Close(opened, plugins[w]), plugins' = [plugins EXCEPT ![w] = NULL]
  PROVE  LoaderOK'
<1> DEFINE old == plugins[w]
<1>1. /\ plugins \in [Words -> Libs \cup {NULL}] /\ opened \in [Libs -> {0, 1}]
      /\ \A v \in Words : plugins[v] # NULL => v = PluginName[plugins[v]]
      /\ \A l \in Libs : opened[l] = IF plugins[PluginName[l]] = l THEN 1 ELSE 0
  BY DEF LoaderOK
<1>2. \A l \in Libs : PluginName[l] \in Words /\ l # NULL
  BY WordsAreStrings
<1>3. old \in Libs \cup {NULL} /\ (old # NULL => opened[old] = 1 /\ PluginName[old] = w)
  BY <1>1
<1>4. /\ plugins' \in [Words -> Libs \cup {NULL}] /\ plugins'[w] = NULL
      /\ \A v \in Words : v # w => plugins'[v] = plugins[v]
  BY <1>1
<1> HIDE DEF old
<1>5. /\ opened' \in [Libs -> {0, 1}]
      /\ \A l \in Libs : opened'[l] = IF l = old THEN 0 ELSE opened[l]
  BY <1>1, <1>2, <1>3 DEF Close, old
<1>6. \A l \in Libs : opened'[l] = IF plugins'[PluginName[l]] = l THEN 1 ELSE 0
  BY <1>1, <1>2, <1>3, <1>4, <1>5 DEF old
<1>7. \A v \in Words : plugins'[v] # NULL => v = PluginName[plugins'[v]]
  BY <1>1, <1>4
<1> QED
  BY <1>4, <1>5, <1>6, <1>7 DEF LoaderOK

-----------------------------------------------------------------------------
(* The commands *)

LEMMA SetLogFileOK ==
  ASSUME LogOK, NEW line \in Lines, CmdSetLogFile(line)
  PROVE  LogOK'
<1> DEFINE f == line[2]
<1>1. f \in Words /\ NULL \notin Words
  BY Parameters, WordsAreStrings DEF CmdSetLogFile
<1>2. /\ logfile \in Words \cup {NULL} /\ files \in [Words -> {0, 1}]
      /\ \A w \in Words : files[w] = IF w = logfile THEN 1 ELSE 0
  BY DEF LogOK, LogIsOpen
<1>3. CASE UNCHANGED <<files, logfile>>
  BY <1>2, <1>3 DEF LogOK, LogIsOpen
<1>4. CASE /\ LET both == [files EXCEPT ![f] = @ + 1]
              IN files' = IF logfile = NULL THEN both ELSE [both EXCEPT ![logfile] = @ - 1]
           /\ logfile' = f
  <2> HIDE DEF f
  <2>1. \A w \in Words : files'[w] = files[w] + (IF w = f THEN 1 ELSE 0)
                                              - (IF w = logfile THEN 1 ELSE 0)
    BY <1>1, <1>2, <1>4
  <2>2. \A w \in Words : files'[w] = IF w = f THEN 1 ELSE 0
    BY <1>1, <1>2, <2>1
  <2>3. files' \in [Words -> {0, 1}]
    <3>1. files' = [w \in Words |-> files'[w]]
      BY <1>1, <1>2, <1>4
    <3> QED
      BY <2>2, <3>1
  <2> QED
    BY <1>1, <1>4, <2>2, <2>3 DEF LogOK, LogIsOpen
<1> QED
  BY <1>3, <1>4 DEF CmdSetLogFile

(* bitu_app_exec_command, whatever the line and whatever is loaded.        *)
LEMMA ExecuteOK ==
  ASSUME AppInv, NEW line \in Lines, Execute(line)
  PROVE  AppInv'
<1>1. /\ environment \in [Words -> Words \cup {NULL}] /\ LoaderOK /\ LogOK
      /\ last.by \in Libs \cup {"app", NULL}
  BY DEF AppInv
<1>2. /\ \A w \in Names(plugins) : plugins[w] \in Libs
      /\ FindForCmdline(line) \subseteq Names(plugins)
  BY <1>1 DEF LoaderOK, Names, FindForCmdline
(* Who may have answered: *)
<1>3. ASSUME NEW by \in Libs \cup {"app", NULL}, NEW answer, Answer(by, answer)
      PROVE  last'.by \in Libs \cup {"app", NULL}
  BY <1>3 DEF Answer
<1>4. ASSUME NEW answer, Answer("app", answer)
      PROVE  last'.by \in Libs \cup {"app", NULL}
  BY <1>3, <1>4
<1>5. ASSUME SameTables, last'.by \in Libs \cup {"app", NULL}
      PROVE  AppInv'
  BY <1>1, <1>5 DEF SameTables, AppInv, LoaderOK, LogOK, LogIsOpen
<1>6. CASE CmdUsage(line)
  BY <1>4, <1>5, <1>6 DEF CmdUsage
<1>7. CASE CmdSet(line)
  <2>1. line[2] \in Words /\ line[3] \in Words
    BY <1>7, Parameters DEF CmdSet
  <2>2. environment' \in [Words -> Words \cup {NULL}]
    BY <1>1, <1>7, <2>1 DEF CmdSet
  <2> QED
    BY <1>1, <1>4, <1>7, <2>2 DEF CmdSet, AppInv, LoaderOK, LogOK, LogIsOpen
<1>8. CASE CmdUnset(line)
  <2>1. environment' \in [Words -> Words \cup {NULL}]
    BY <1>1, <1>8 DEF CmdUnset
  <2> QED
    BY <1>1, <1>4, <1>8, <2>1 DEF CmdUnset, AppInv, LoaderOK, LogOK, LogIsOpen
<1>9. CASE CmdShow(line)
  BY <1>4, <1>5, <1>9 DEF CmdShow
<1>10. CASE CmdLoad(line)
  <2>1. LoaderOK'
    <3>1. CASE \E lib \in Libs : CtxLoad(lib)
      BY <1>1, <3>1, CtxLoadOK
    <3>2. CASE UNCHANGED <<plugins, opened>>
      BY <1>1, <3>2 DEF LoaderOK
    <3> QED
      BY <1>10, <3>1, <3>2 DEF CmdLoad
  <2>2. last'.by \in Libs \cup {"app", NULL}
    BY <1>4, <1>10 DEF CmdLoad
  <2>3. UNCHANGED <<environment, logfile, files>>
    BY <1>10 DEF CmdLoad
  <2> QED
    BY <1>1, <2>1, <2>2, <2>3 DEF AppInv, LogOK, LogIsOpen
<1>11. CASE CmdUnload(line)
  <2>1. line[2] \in Words
    BY <1>11, Parameters DEF CmdUnload
  <2>2. LoaderOK'
    BY <1>1, <1>11, <2>1, UnloadOK DEF CmdUnload
  <2>3. last'.by \in Libs \cup {"app", NULL}
    BY <1>4, <1>11 DEF CmdUnload
  <2>4. UNCHANGED <<environment, logfile, files>>
    BY <1>11 DEF CmdUnload
  <2> QED
    BY <1>1, <2>2, <2>3, <2>4 DEF AppInv, LogOK, LogIsOpen
<1>12. CASE CmdSetLogFile(line)
  <2>1. LogOK'
    BY <1>1, <1>12, SetLogFileOK
  <2>2. last'.by \in Libs \cup {"app", NULL}
    BY <1>4, <1>12 DEF CmdSetLogFile
  <2>3. UNCHANGED <<environment, plugins, opened>>
    BY <1>12 DEF CmdSetLogFile
  <2> QED
    BY <1>1, <2>1, <2>2, <2>3 DEF AppInv, LoaderOK
<1>13. CASE CmdOther(line)
  BY <1>4, <1>5, <1>13 DEF CmdOther
<1>14. CASE line[1] \notin BuiltIns /\ ExecutePlugin(line)
  BY <1>2, <1>3, <1>5, <1>14 DEF ExecutePlugin
<1>15. CASE line[1] \notin BuiltIns /\ NoHandler(line)
  BY <1>3, <1>5, <1>15 DEF NoHandler
<1> QED
  BY <1>6, <1>7, <1>8, <1>9, <1>10, <1>11, <1>12, <1>13, <1>14, <1>15 DEF Execute, BuiltIn

LEMMA AppInitOK == AppInit => AppInv
<1> SUFFICES ASSUME AppInit PROVE AppInv
  OBVIOUS
<1>1. \A l \in Libs : PluginName[l] \in Words /\ l # NULL
  BY WordsAreStrings
<1>2. LoaderOK
  BY <1>1 DEF AppInit, LoaderOK
<1>3. LogOK
  BY WordsAreStrings DEF AppInit, LogOK, LogIsOpen
<1> QED
  BY <1>2, <1>3 DEF AppInit, AppInv

-----------------------------------------------------------------------------
(* main *)

MainInv ==
  /\ content \in Contents
  /\ phase \in {"read", "take", "load", "daemon", "pid", "serve", "exit", "crash"}
  /\ config_file \in DOMAIN Glob \cup {NULL}
  /\ rest \in Seq(Lines \cup NoCommand)
  /\ commands \in Seq(Lines) /\ executed \in Seq(Lines)
  /\ process \in Pids /\ pidText \in Seq(0..9) \cup {NULL}
  /\ daemonize \in BOOLEAN /\ connected \in BOOLEAN /\ consuming \in BOOLEAN
  /\ consuming => connected /\ phase \in {"daemon", "pid", "serve"}
  /\ PidFileNamesServer

StartupInv == AppInv /\ MainInv

LEMMA StartupInit == Init => StartupInv
<1> SUFFICES ASSUME Init PROVE StartupInv
  OBVIOUS
<1>1. AppInv
  BY AppInitOK DEF Init
<1>2. rest \in Seq(Lines \cup NoCommand) /\ commands \in Seq(Lines) /\ executed \in Seq(Lines)
  BY EmptySeq DEF Init
<1>3. pidText \in Seq(0..9) \cup {NULL}
  BY StartupAssumption, EmptySeq DEF Init
<1>4. config_file \in DOMAIN Glob \cup {NULL}
  BY StartupAssumption DEF Init
<1> QED
  BY <1>1, <1>2, <1>3, <1>4 DEF Init, StartupInv, MainInv, PidFileNamesServer

(* What is read of each line of a file is added to what was read before.   *)
LEMMA LinesWalk ==
  ASSUME MainInv, NEW file, file \in Files
  PROVE  \E g \in [0..Len(content[file].lines) -> Seq(Lines \cup NoCommand)] :
           /\ g[0] = <<>>
           /\ \A i \in 1..Len(content[file].lines) :
                g[i] = g[i - 1] \o Reads(content[file].lines[i], Ends(content[file], i))
           /\ LinesOf(file) = g[Len(content[file].lines)]
<1> DEFINE S == Lines \cup NoCommand
           s == content[file].lines
           n == Len(s)
           r(i) == Reads(s[i], Ends(content[file], i))
           F(c) == [i \in 0..n |-> IF i = 0 THEN <<>> ELSE c[i - 1] \o r(i)]
           c == CHOOSE c : c = F(c)
<1>1. n \in Nat /\ \A i \in 1..n : r(i) \in Seq(S)
  BY StartupAssumption, LenProperties DEF MainInv
<1>2. LinesOf(file) = c[n]
  BY DEF LinesOf
<1> HIDE DEF r
<1>3. PICK Q, e, m : Q = Seq(S) /\ e = <<>> /\ m = n
  OBVIOUS
<1>4. PICK h : h = [i \in 1..m |-> [t \in Q |-> t \o r(i)]]
  OBVIOUS
<1>5. PICK g \in [0..m -> Q] : g[0] = e /\ \A i \in 1..m : g[i] = h[i][g[i - 1]]
  <2>1. h \in [1..m -> [Q -> Q]]
    BY <1>1, <1>3, <1>4, ConcatProperties
  <2>2. m \in Nat /\ h \in [1..m -> [Q -> Q]] /\ e \in Q
    BY <1>1, <1>3, <2>1, EmptySeq
  <2> QED
    BY ONLY <2>2, Iterates
<1>6. g \in [0..n -> Seq(S)] /\ g[0] = <<>> /\ \A i \in 1..n : g[i] = g[i - 1] \o r(i)
  <2>1. ASSUME NEW i \in 1..n PROVE g[i] = g[i - 1] \o r(i)
    <3>1. i - 1 \in 0..m /\ i \in 1..m
      BY <1>1, <1>3
    <3>2. g[i - 1] \in Q /\ g[i] = h[i][g[i - 1]]
      BY <1>5, <3>1
    <3>3. h[i] = [t \in Q |-> t \o r(i)]
      BY <1>4, <3>1
    <3> QED
      BY <3>2, <3>3
  <2> HIDE DEF F, c, S, n, s
  <2> QED
    BY <1>3, <1>5, <2>1
<1>7. g = F(g)
  <2>1. ASSUME NEW i \in 0..n PROVE g[i] = IF i = 0 THEN <<>> ELSE g[i - 1] \o r(i)
    <3>1. CASE i = 0
      BY <1>6, <3>1
    <3>2. CASE i # 0
      <4>1. i \in 1..n
        BY <1>1, <3>2
      <4> QED
        BY <1>6, <3>2, <4>1
    <3> QED
      BY <3>1, <3>2
  <2> QED
    BY <1>6, <2>1
<1>8. c = F(c)
  <2> HIDE DEF F
  <2> QED
    BY <1>7
<1> HIDE DEF c
<1>9. \A i \in 0..n : c[i] = g[i]
  <2>1. \A i \in 0..n : c[i] = IF i = 0 THEN <<>> ELSE c[i - 1] \o r(i)
    BY <1>8, Zenon
  <2> DEFINE T == {i \in 0..n : c[i] = g[i]}
  <2>2. 0 \in T
    BY <1>1, <1>6, <2>1
  <2>3. ASSUME NEW i \in 0..(n - 1), i \in T PROVE i + 1 \in T
    <3>1. i + 1 \in 0..n /\ i + 1 \in 1..n /\ i + 1 # 0 /\ (i + 1) - 1 = i /\ c[i] = g[i]
      BY <1>1, <2>3
    <3> QED
      BY <1>6, <2>1, <3>1
  <2>4. \A i \in 0..n : i \in T
    <3> HIDE DEF T
    <3> QED
      BY <1>1, <2>2, <2>3, Induct
  <2> QED
    BY <2>4
<1>10. LinesOf(file) = g[n]
  BY <1>1, <1>2, <1>9
<1> QED
  BY <1>6, <1>10 DEF r

LEMMA LinesAreLines ==
  ASSUME MainInv, NEW f \in Files
  PROVE  LinesOf(f) \in Seq(Lines \cup NoCommand)
<1> DEFINE n == Len(content[f].lines)
<1>1. n \in 0..n
  BY StartupAssumption, LenProperties DEF MainInv
<1>2. PICK g \in [0..n -> Seq(Lines \cup NoCommand)] : LinesOf(f) = g[n]
  BY LinesWalk
<1> HIDE DEF n
<1> QED
  BY <1>1, <1>2

(* A line that ends and is not too long is read as it is, and so is a file *)
(* of such lines.                                                          *)
LEMMA ReadWhole ==
  ASSUME NEW line, NEW ended, ended, line \notin DOMAIN Pieces
  PROVE  Reads(line, ended) = <<line>>
<1> DEFINE none == [i \in 1..0 |-> Shortened[<<line>>[i]]]
<1>1. Len(<<line>>) = 1 /\ <<line>>[1] = line /\ 1 - 1 = 0
  OBVIOUS
<1>2. none = <<>> /\ <<line>> \in Seq({line})
  OBVIOUS
<1>3. Reads(line, ended) = none \o <<line>>
  BY <1>1 DEF Reads
<1> QED
  BY <1>2, <1>3, ConcatEmptySeq

LEMMA LinesAsTheyAre ==
  ASSUME MainInv, WholeLines, NEW f \in Files
  PROVE  LinesOf(f) = content[f].lines
<1> DEFINE s == content[f].lines
           n == Len(s)
<1>1. n \in Nat /\ s \in Seq(Lines \cup NoCommand) /\ DOMAIN s = 1..n
  BY StartupAssumption, LenProperties DEF MainInv
<1>2. PICK g \in [0..n -> Seq(Lines \cup NoCommand)] :
        /\ g[0] = <<>>
        /\ \A i \in 1..n : g[i] = g[i - 1] \o Reads(s[i], Ends(content[f], i))
        /\ LinesOf(f) = g[n]
  BY LinesWalk
<1>3. ASSUME NEW i \in 1..n PROVE Reads(s[i], Ends(content[f], i)) = <<s[i]>>
  <2>1. Ends(content[f], i)
    BY Zenon DEF Ends, WholeLines
  <2>2. s[i] \in ToSet(s)
    BY <1>1 DEF ToSet
  <2>3. s[i] \notin DOMAIN Pieces
    BY <2>2 DEF WholeLines
  <2> QED
    BY <2>1, <2>3, ReadWhole
<1>4. \A i \in 1..n : g[i] = Append(g[i - 1], s[i])
  <2> SUFFICES ASSUME NEW i \in 1..n PROVE g[i] = Append(g[i - 1], s[i])
    OBVIOUS
  <2>1. i - 1 \in 0..n /\ g[i - 1] \in Seq(Lines \cup NoCommand)
    BY <1>1, <1>2
  <2>a. s[i] \in Lines \cup NoCommand
    <3> HIDE DEF s
    <3> QED
      BY <1>1, ElementOfSeq
  <2>2. g[i] = g[i - 1] \o <<s[i]>>
    BY <1>2, <1>3
  <2> HIDE DEF s, n
  <2> QED
    BY <2>1, <2>a, <2>2
<1> HIDE DEF s, n
<1> DEFINE T == {i \in 0..n : Len(g[i]) = i /\ \A j \in 1..i : g[i][j] = s[j]}
<1>5. 0 \in T
  BY <1>1, <1>2
<1>6. ASSUME NEW i \in 0..(n - 1), i \in T PROVE i + 1 \in T
  <2>1. /\ i \in 0..n /\ i + 1 \in 0..n /\ i + 1 \in 1..n /\ (i + 1) - 1 = i
        /\ Len(g[i]) = i /\ \A j \in 1..i : g[i][j] = s[j]
    BY <1>1, <1>6
  <2>2. g[i] \in Seq(Lines \cup NoCommand) /\ g[i + 1] = Append(g[i], s[i + 1])
    BY <1>2, <1>4, <2>1
  <2>3. s[i + 1] \in Lines \cup NoCommand
    BY <1>1, <2>1, ElementOfSeq DEF n
  <2>4. /\ Len(g[i + 1]) = i + 1
        /\ \A j \in 1..(i + 1) : g[i + 1][j] = s[j]
    BY <2>1, <2>2, <2>3, AppendProperties
  <2> QED
    BY <2>1, <2>4
<1>7. \A i \in 0..n : i \in T
  <2> HIDE DEF T
  <2> QED
    BY <1>1, <1>5, <1>6, Induct
<1>8. g[n] \in Seq(Lines \cup NoCommand) /\ Len(g[n]) = n /\ \A j \in 1..n : g[n][j] = s[j]
  BY <1>1, <1>2, <1>7
<1>9. g[n] = s
  <2>1. PICK D, t : D = Lines \cup NoCommand /\ t = g[n]
    OBVIOUS
  <2>2. /\ t \in Seq(D) /\ s \in Seq(D) /\ Len(t) = Len(s)
        /\ \A j \in 1..Len(t) : t[j] = s[j]
    BY <1>1, <1>8, <2>1 DEF n
  <2>3. t = s
    BY ONLY <2>2, SeqEqual
  <2> QED
    BY <2>1, <2>3
<1> QED
  BY <1>2, <1>9 DEF s

(* What _save_pid leaves is no shorter than the number it writes, and it   *)
(* is that number if it is not longer.                                     *)
LEMMA OverwrittenOK ==
  ASSUME NEW D, NEW old \in Seq(D), NEW new \in Seq(D)
  PROVE  /\ Overwritten(old, new) \in Seq(D)
         /\ Len(Overwritten(old, new)) = Len(new) => Overwritten(old, new) = new
<1> DEFINE rem == SubSeq(old, Len(new) + 1, Len(old))
<1>1. Len(new) \in Nat /\ Len(old) \in Nat
  OBVIOUS
<1>2. \A i \in (Len(new) + 1)..Len(old) : old[i] \in D
  BY <1>1, ElementOfSeq
<1>3. rem \in Seq(D)
  BY <1>1, <1>2, SubSeqProperties
<1> HIDE DEF rem
<1>4. /\ new \o rem \in Seq(D) /\ Len(new \o rem) = Len(new) + Len(rem) /\ Len(rem) \in Nat
  BY <1>3, ConcatProperties
<1>5. Len(new \o rem) = Len(new) => rem = <<>>
  BY <1>1, <1>3, <1>4, EmptySeq
<1>6. new \o <<>> = new
  BY ConcatEmptySeq
<1> QED
  BY <1>4, <1>5, <1>6 DEF Overwritten, rem

LEMMA StartupStep == StartupInv /\ [Next]_vars => StartupInv'
<1> SUFFICES ASSUME StartupInv, [Next]_vars PROVE StartupInv'
  OBVIOUS
<1> USE DEF StartupInv
<1>a. ASSUME UNCHANGED appVars PROVE AppInv'
  BY <1>a DEF appVars, AppInv, LoaderOK, LogOK, LogIsOpen
<1>b. ASSUME UNCHANGED mainVars PROVE MainInv'
  BY <1>b DEF mainVars, options, config, running, MainInv, PidFileNamesServer
<1>c. ASSUME UNCHANGED <<appVars, content, daemonize, executed, running>>,
             phase \in {"read", "take"}, phase' \in {"read", "take", "load", "exit", "crash"},
             config_file' \in DOMAIN Glob \cup {NULL}, rest' \in Seq(Lines \cup NoCommand),
             commands' \in Seq(Lines)
      PROVE  StartupInv'
  <2>1. AppInv'
    BY <1>a, <1>c
  <2>2. MainInv'
    BY <1>c DEF running, MainInv, PidFileNamesServer
  <2> QED
    BY <2>1, <2>2
<1>d. rest # <<>> => /\ Head(rest) \in Lines \cup NoCommand
                     /\ Tail(rest) \in Seq(Lines \cup NoCommand)
  BY HeadTailProperties DEF MainInv
<1>e. MainInv
  OBVIOUS
<1> USE DEF options, config, running
<1>1. CASE UNCHANGED vars
  BY <1>1, <1>a, <1>b DEF vars
<1>2. CASE GlobFails
  BY <1>2, <1>c, <1>e DEF GlobFails, MainInv
<1>3. CASE FileFails
  BY <1>3, <1>c, <1>e DEF FileFails, MainInv
<1>4. CASE ReadFromFile
  <2>1. PICK f \in Glob[config_file] : rest' = LinesOf(f)
    BY <1>4 DEF ReadFromFile
  <2>2. f \in Files
    BY <1>4, <2>1, StartupAssumption DEF ReadFromFile, MainInv
  <2>3. rest' \in Seq(Lines \cup NoCommand)
    BY <2>1, <2>2, LinesAreLines
  <2> QED
    BY <1>4, <1>c, <1>e, <2>3 DEF ReadFromFile, MainInv
<1>5. CASE ReadDone
  BY <1>5, <1>c, <1>e DEF ReadDone, MainInv
<1>6. CASE Skip
  BY <1>6, <1>c, <1>d, <1>e DEF Skip, MainInv
<1>7. CASE TakeBlanks \/ TakeBare
  BY <1>7, <1>c, <1>e DEF TakeBlanks, TakeBare, Takes, MainInv
<1>8. CASE TakePidFile
  BY <1>8, <1>c, <1>d, <1>e DEF TakePidFile, Takes, MainInv
<1>9. CASE TakeInclude
  <2>1. config_file' \in DOMAIN Glob
    BY <1>9, StartupAssumption DEF TakeInclude, Takes
  <2> QED
    BY <1>9, <1>c, <1>d, <1>e, <2>1 DEF TakeInclude, Takes, MainInv
<1>10. CASE TakeCommand
  <2>1. commands' \in Seq(Lines)
    BY <1>10, AppendProperties DEF TakeCommand, MainInv
  <2> QED
    BY <1>10, <1>c, <1>d, <1>e, <2>1 DEF TakeCommand, MainInv
<1>11. CASE TakeDone
  BY <1>11, <1>c, <1>e DEF TakeDone, MainInv
<1>12. CASE LoadConfig
  <2>1. Head(commands) \in Lines /\ Tail(commands) \in Seq(Lines)
    BY <1>12, HeadTailProperties DEF LoadConfig, MainInv
  <2>2. AppInv'
    BY <1>12, <2>1, ExecuteOK DEF LoadConfig
  <2>3. executed' \in Seq(Lines)
    BY <1>12, <2>1, AppendProperties DEF LoadConfig, MainInv
  <2>4. MainInv'
    BY <1>12, <2>1, <2>3 DEF LoadConfig, MainInv, PidFileNamesServer
  <2> QED
    BY <2>2, <2>4
<1>13. CASE RunTransports
  <2>1. MainInv'
    BY <1>13 DEF RunTransports, MainInv, PidFileNamesServer
  <2> QED
    BY <1>13, <1>a, <2>1 DEF RunTransports
<1>14. CASE Daemon
  <2>1. MainInv'
    BY <1>14 DEF Daemon, MainInv, PidFileNamesServer
  <2> QED
    BY <1>14, <1>a, <2>1 DEF Daemon
<1>15. CASE SavePid
  <2>1. process \in Seq(0..9)
    BY StartupAssumption DEF MainInv
  <2>2. pidText' \in Seq(0..9) \cup {NULL} /\ PidFileNamesServer'
    <3>1. CASE pid_file = NULL \/ pidText = NULL
      BY <1>15, <3>1 DEF SavePid, MainInv, PidFileNamesServer
    <3>2. CASE pid_file # NULL /\ pidText # NULL
      <4>1. pidText' = Overwritten(pidText, process) /\ process' = process
        BY <1>15, <3>2 DEF SavePid
      <4>2. pidText \in Seq(0..9)
        BY <3>2 DEF MainInv
      <4> QED
        BY <2>1, <4>1, <4>2, OverwrittenOK DEF PidFileNamesServer
    <3> QED
      BY <3>1, <3>2
  <2>3. MainInv'
    BY <1>15, <2>2 DEF SavePid, MainInv
  <2> QED
    BY <1>15, <1>a, <2>3 DEF SavePid
<1>16. CASE Serve
  <2>1. AppInv'
    BY <1>16, ExecuteOK DEF Serve
  <2> QED
    BY <1>16, <1>b, <2>1 DEF Serve
<1> QED
  BY <1>1, <1>2, <1>3, <1>4, <1>5, <1>6, <1>7, <1>8, <1>9, <1>10, <1>11, <1>12, <1>13,
     <1>14, <1>15, <1>16
  DEF Next, Main

LEMMA StartupInvariant == Spec => []StartupInv
BY StartupInit, StartupStep, PTL DEF Spec

-----------------------------------------------------------------------------
(* The commands among lines *)

(* A line is added if it is a command. *)
With(t, x) == IF IsCommand(x) THEN Append(t, x) ELSE t

LEMMA WithOK ==
  ASSUME NEW S, NEW t \in Seq(S), NEW x \in S
  PROVE  /\ With(t, x) \in Seq(S)
         /\ \A u \in Seq(S) : With(u \o t, x) = u \o With(t, x)
<1>1. CASE IsCommand(x)
  <2>1. With(t, x) = Append(t, x) /\ \A u \in Seq(S) : With(u \o t, x) = Append(u \o t, x)
    BY <1>1, Zenon DEF With
  <2>2. \A u \in Seq(S) : Append(u \o t, x) = u \o Append(t, x)
    OBVIOUS
  <2>3. Append(t, x) \in Seq(S)
    BY AppendProperties
  <2> QED
    BY <2>1, <2>2, <2>3, Zenon
<1>2. CASE ~IsCommand(x)
  <2>1. With(t, x) = t /\ \A u \in Seq(S) : With(u \o t, x) = u \o t
    BY <1>2, Zenon DEF With
  <2> QED
    BY <2>1, Zenon
<1> QED
  BY <1>1, <1>2

(* OnlyCommands walks along the lines; so does every function that takes   *)
(* the same steps.                                                         *)
LEMMA OnlyCommandsWalk ==
  ASSUME NEW S, NEW s \in Seq(S)
  PROVE  \E g \in [0..Len(s) -> Seq(S)] :
           /\ g[0] = <<>>
           /\ \A i \in 1..Len(s) : g[i] = With(g[i - 1], s[i])
           /\ OnlyCommands(s) = g[Len(s)]
           /\ OnlyCommands(s) \in Seq(S)
<1> DEFINE n == Len(s)
           f == [i \in 1..n |-> [t \in Seq(S) |-> With(t, s[i])]]
           F(c) == [i \in 0..n |->
                      IF i = 0 THEN <<>> ELSE With(c[i - 1], s[i])]
           c == CHOOSE c : c = F(c)
<1>1. n \in Nat /\ \A i \in 1..n : s[i] \in S
  BY ElementOfSeq
<1>2. f \in [1..n -> [Seq(S) -> Seq(S)]]
  BY <1>1, WithOK
<1>3. \A i \in 1..n, t \in Seq(S) : f[i][t] = With(t, s[i])
  OBVIOUS
<1>4. OnlyCommands(s) = c[n]
  BY DEF OnlyCommands, With
<1> HIDE DEF f
<1>5. PICK g \in [0..n -> Seq(S)] : g[0] = <<>> /\ \A i \in 1..n : g[i] = f[i][g[i - 1]]
  <2>1. \E g \in [0..n -> Seq(S)] : g[0] = <<>> /\ \A i \in 1..n : g[i] = f[i][g[i - 1]]
    <3>1. PICK Q, e, m, h : Q = Seq(S) /\ e = <<>> /\ m = n /\ h = f
      OBVIOUS
    <3>2. m \in Nat /\ h \in [1..m -> [Q -> Q]] /\ e \in Q
      BY <1>1, <1>2, <3>1
    <3>3. \E g \in [0..m -> Q] : g[0] = e /\ \A i \in 1..m : g[i] = h[i][g[i - 1]]
      BY ONLY <3>2, Iterates
    <3> QED
      BY <3>1, <3>3
  <2> QED
    BY <2>1
<1>6. \A i \in 1..n : g[i] = With(g[i - 1], s[i])
  <2> SUFFICES ASSUME NEW i \in 1..n PROVE g[i] = With(g[i - 1], s[i])
    OBVIOUS
  <2>1. i - 1 \in 0..n
    BY <1>1
  <2>2. g[i - 1] \in Seq(S) /\ g[i] = f[i][g[i - 1]]
    BY <1>5, <2>1
  <2> QED
    BY <1>3, <2>2
<1>7. g = F(g)
  <2>1. \A i \in 0..n :
          g[i] = IF i = 0 THEN <<>> ELSE With(g[i - 1], s[i])
    BY <1>1, <1>5, <1>6
  <2> QED
    BY <1>5, <2>1
<1>8. c = F(c)
  <2> HIDE DEF F
  <2> QED
    BY <1>7
<1> HIDE DEF c
<1>9. \A i \in 0..n : c[i] = g[i]
  <2>1. \A i \in 0..n : c[i] = IF i = 0 THEN <<>> ELSE With(c[i - 1], s[i])
    BY <1>8, Zenon
  <2> DEFINE T == {i \in 0..n : c[i] = g[i]}
  <2>2. 0 \in T
    BY <1>1, <1>5, <2>1
  <2>3. ASSUME NEW i \in 0..(n - 1), i \in T PROVE i + 1 \in T
    <3>1. i + 1 \in 0..n /\ i + 1 \in 1..n /\ i + 1 # 0 /\ (i + 1) - 1 = i /\ c[i] = g[i]
      BY <1>1, <2>3
    <3> QED
      BY <1>6, <2>1, <3>1
  <2>4. \A i \in 0..n : i \in T
    <3> HIDE DEF T
    <3> QED
      BY <1>1, <2>2, <2>3, Induct
  <2> QED
    BY <2>4
<1>10. n \in 0..n
  BY <1>1
<1>11. OnlyCommands(s) = g[n] /\ g[n] \in Seq(S)
  BY <1>4, <1>5, <1>9, <1>10
<1> QED
  BY <1>5, <1>6, <1>11

LEMMA OnlyCommandsUnique ==
  ASSUME NEW S, NEW s \in Seq(S), NEW g,
         g[0] = <<>>,
         \A i \in 1..Len(s) :
           g[i] = With(g[i - 1], s[i])
  PROVE  OnlyCommands(s) = g[Len(s)]
<1>1. PICK h \in [0..Len(s) -> Seq(S)] :
        /\ h[0] = <<>>
        /\ \A i \in 1..Len(s) :
             h[i] = With(h[i - 1], s[i])
        /\ OnlyCommands(s) = h[Len(s)]
  BY OnlyCommandsWalk
<1> DEFINE n == Len(s)
           T == {i \in 0..n : g[i] = h[i]}
<1>2. n \in Nat
  OBVIOUS
<1>3. 0 \in T
  BY <1>1, <1>2
<1>4. ASSUME NEW i \in 0..(n - 1), i \in T PROVE i + 1 \in T
  <2>1. i + 1 \in 0..n /\ i + 1 \in 1..n /\ (i + 1) - 1 = i /\ g[i] = h[i]
    BY <1>2, <1>4
  <2> QED
    BY <1>1, <2>1
<1>5. \A i \in 0..n : i \in T
  <2> HIDE DEF T
  <2> QED
    BY <1>2, <1>3, <1>4, Induct
<1> QED
  BY <1>1, <1>2, <1>5

LEMMA OnlyCommandsConcat ==
  ASSUME NEW S, NEW s \in Seq(S), NEW t \in Seq(S)
  PROVE  /\ OnlyCommands(s) \in Seq(S)
         /\ OnlyCommands(s \o t) = OnlyCommands(s) \o OnlyCommands(t)
<1>1. PICK g \in [0..Len(s) -> Seq(S)] :
        /\ g[0] = <<>>
        /\ \A i \in 1..Len(s) :
             g[i] = With(g[i - 1], s[i])
        /\ OnlyCommands(s) = g[Len(s)]
        /\ OnlyCommands(s) \in Seq(S)
  BY OnlyCommandsWalk
<1>2. PICK h \in [0..Len(t) -> Seq(S)] :
        /\ h[0] = <<>>
        /\ \A i \in 1..Len(t) :
             h[i] = With(h[i - 1], t[i])
        /\ OnlyCommands(t) = h[Len(t)]
  BY OnlyCommandsWalk
<1> DEFINE a == Len(s)
           b == Len(t)
           k == [i \in 0..(a + b) |-> IF i <= a THEN g[i] ELSE g[a] \o h[i - a]]
<1>3. a \in Nat /\ b \in Nat
  OBVIOUS
<1>4. /\ s \o t \in Seq(S) /\ Len(s \o t) = a + b
      /\ \A i \in 1..(a + b) : (s \o t)[i] = IF i <= a THEN s[i] ELSE t[i - a]
  BY ConcatProperties
<1>5. k[0] = <<>>
  BY <1>1, <1>3
<1>6. g[a] \o h[0] = g[a]
  BY <1>1, <1>2, <1>3, ConcatEmptySeq
<1>7. ASSUME NEW i \in 1..(a + b)
      PROVE  k[i] = With(k[i - 1], (s \o t)[i])
  <2>1. CASE i <= a
    <3>1. i \in 1..a /\ i \in 0..(a + b) /\ i - 1 \in 0..(a + b) /\ i - 1 <= a
      BY <1>3, <2>1
    <3> QED
      BY <1>1, <1>4, <2>1, <3>1
  <2>2. CASE ~(i <= a)
    <3>1. /\ i - a \in 1..b /\ i \in 0..(a + b) /\ i - 1 \in 0..(a + b)
          /\ (i - 1) - a = (i - a) - 1 /\ (i - a) - 1 \in 0..b
          /\ i - 1 <= a => i - 1 = a /\ (i - a) - 1 = 0
      BY <1>3, <2>2
    <3>2. k[i] = g[a] \o h[i - a] /\ k[i - 1] = g[a] \o h[(i - a) - 1] /\ (s \o t)[i] = t[i - a]
      BY <1>4, <1>6, <2>2, <3>1
    <3>3. /\ g[a] \in Seq(S) /\ h[(i - a) - 1] \in Seq(S) /\ t[i - a] \in S
          /\ h[i - a] = With(h[(i - a) - 1], t[i - a])
      BY <1>1, <1>2, <3>1, ElementOfSeq
    <3>4. With(g[a] \o h[(i - a) - 1], t[i - a]) = g[a] \o With(h[(i - a) - 1], t[i - a])
      <4>1. PICK x, y, z : x = g[a] /\ y = h[(i - a) - 1] /\ z = t[i - a]
        OBVIOUS
      <4>2. x \in Seq(S) /\ y \in Seq(S) /\ z \in S
        BY <3>3, <4>1
      <4>3. With(x \o y, z) = x \o With(y, z)
        <5>1. \A u \in Seq(S) : With(u \o y, z) = u \o With(y, z)
          BY ONLY <4>2, WithOK
        <5> QED
          BY <4>2, <5>1
      <4> QED
        BY <4>1, <4>3
    <3> HIDE DEF k
    <3> QED
      BY <3>2, <3>3, <3>4
  <2> QED
    BY <2>1, <2>2
<1>8. k[a + b] = g[a] \o h[b]
  <2>1. (a + b) - a = b /\ a + b \in 0..(a + b) /\ (a + b <= a => b = 0 /\ a + b = a)
    BY <1>3
  <2>2. k[a + b] = IF a + b <= a THEN g[a + b] ELSE g[a] \o h[(a + b) - a]
    BY <2>1
  <2> HIDE DEF k
  <2> QED
    BY <1>6, <2>1, <2>2
<1> HIDE DEF k
<1>9. OnlyCommands(s \o t) = k[Len(s \o t)]
  BY <1>4, <1>5, <1>7, OnlyCommandsUnique
<1> QED
  BY <1>1, <1>2, <1>4, <1>8, <1>9

LEMMA OnlyCommandsOne ==
  /\ OnlyCommands(<<>>) = <<>>
  /\ \A x : OnlyCommands(<<x>>) = IF IsCommand(x) THEN <<x>> ELSE <<>>
<1>1. OnlyCommands(<<>>) = <<>>
  <2>1. PICK g : g[0] = <<>> /\ OnlyCommands(<<>>) = g[Len(<<>>)]
    <3>1. <<>> \in Seq({})
      OBVIOUS
    <3> QED
      BY <3>1, OnlyCommandsWalk
  <2> QED
    BY <2>1
<1>2. ASSUME NEW x PROVE OnlyCommands(<<x>>) = IF IsCommand(x) THEN <<x>> ELSE <<>>
  <2>1. <<x>> \in Seq({x}) /\ Len(<<x>>) = 1 /\ <<x>>[1] = x /\ Append(<<>>, x) = <<x>>
    OBVIOUS
  <2>2. PICK g : /\ g[0] = <<>>
                 /\ \A i \in 1..Len(<<x>>) :
                      g[i] = With(g[i - 1], <<x>>[i])
                 /\ OnlyCommands(<<x>>) = g[Len(<<x>>)]
    BY <2>1, OnlyCommandsWalk
  <2>3. OnlyCommands(<<x>>) = With(<<>>, x)
    BY <2>1, <2>2
  <2> QED
    BY <2>1, <2>3, Zenon DEF With
<1> QED
  BY <1>1, <1>2

(* What is first and what follows it, and what is added at the end. *)
LEMMA OnlyCommandsHead ==
  ASSUME NEW S, NEW s \in Seq(S), s # <<>>
  PROVE  OnlyCommands(s) = OnlyCommands(<<Head(s)>>) \o OnlyCommands(Tail(s))
<1>1. Head(s) \in S /\ Tail(s) \in Seq(S) /\ s = <<Head(s)>> \o Tail(s)
  BY HeadTailProperties
<1>2. <<Head(s)>> \in Seq(S)
  BY <1>1
<1>3. OnlyCommands(<<Head(s)>> \o Tail(s)) = OnlyCommands(<<Head(s)>>) \o OnlyCommands(Tail(s))
  BY <1>1, <1>2, OnlyCommandsConcat
<1> QED
  BY <1>1, <1>3

LEMMA OnlyCommandsAppend ==
  ASSUME NEW S, NEW s \in Seq(S), NEW x \in S
  PROVE  OnlyCommands(Append(s, x)) = OnlyCommands(s) \o OnlyCommands(<<x>>)
<1>1. <<x>> \in Seq(S) /\ Append(s, x) = s \o <<x>>
  OBVIOUS
<1>2. OnlyCommands(s \o <<x>>) = OnlyCommands(s) \o OnlyCommands(<<x>>)
  BY <1>1, OnlyCommandsConcat
<1> QED
  BY <1>1, <1>2

-----------------------------------------------------------------------------
(* The commands a file declares *)

SomeLine == Lines \cup NoCommand

(* What d says of the file in S, if there is one. *)
Of(d, S) == IF S = {} THEN <<>> ELSE d[CHOOSE g \in S : TRUE]

LEMMA OfOK ==
  /\ \A d : Of(d, {}) = <<>>
  /\ \A d, f : Of(d, {f}) = d[f]
BY Zenon DEF Of

(* What the files and their lines include. *)
LEMMA IncludedOK ==
  ASSUME MainInv
  PROVE  /\ \A s \in Seq(SomeLine) : Includes(s) \subseteq DOMAIN Glob
         /\ \A f \in Files : content[f].lines \in Seq(SomeLine) /\ Included(f) \subseteq Files
<1>1. ASSUME NEW s \in Seq(SomeLine), NEW p \in Includes(s) PROVE p \in DOMAIN Glob
  <2>1. PICK line \in ToSet(s) \ NoCommand : p = line[2] /\ line[1] = "include" /\ Len(line) > 1
    BY DEF Includes
  <2>2. ToSet(s) \subseteq SomeLine
    BY LenProperties, ElementOfSeq DEF ToSet
  <2>3. line \in Lines
    BY <2>1, <2>2 DEF SomeLine
  <2> QED
    BY <2>1, <2>3, StartupAssumption
<1>2. \A f \in Files : content[f].lines \in Seq(SomeLine)
  BY StartupAssumption DEF MainInv, SomeLine
<1>3. \A p \in DOMAIN Glob : Glob[p] \subseteq Files
  BY StartupAssumption
<1> QED
  BY <1>1, <1>2, <1>3 DEF Included

LEMMA DeclaredIs ==
  ASSUME MainInv
  PROVE  /\ Cardinality(Files) \in Nat
         /\ \A n \in 0..Cardinality(Files) : Declared[n] \in [Files -> Seq(SomeLine)]
         /\ \A f \in Files : Declared[0][f] = <<>>
         /\ \A n \in 1..Cardinality(Files), f \in Files :
              Declared[n][f] = OnlyCommands(content[f].lines) \o Of(Declared[n - 1], Included(f))
<1> DEFINE N == Cardinality(Files)
           D == [Files -> Seq(SomeLine)]
           none == [f \in Files |-> <<>>]
           more(d) == [f \in Files |-> OnlyCommands(content[f].lines) \o Of(d, Included(f))]
           F(c) == [n \in 0..N |->
                      [f \in Files |->
                         IF n = 0 THEN <<>>
                         ELSE OnlyCommands(content[f].lines) \o Of(c[n - 1], Included(f))]]
<1>1. N \in Nat
  BY StartupAssumption, FS_CardinalityType
<1>2. none \in D
  OBVIOUS
<1>3. ASSUME NEW d \in D PROVE more(d) \in D
  <2> SUFFICES ASSUME NEW f \in Files
               PROVE  OnlyCommands(content[f].lines) \o Of(d, Included(f)) \in Seq(SomeLine)
    OBVIOUS
  <2>1. OnlyCommands(content[f].lines) \in Seq(SomeLine)
    BY IncludedOK, OnlyCommandsConcat
  <2>2. CASE Included(f) = {}
    <3>1. Of(d, Included(f)) = <<>>
      BY <2>2, OfOK
    <3> QED
      BY <2>1, <3>1
  <2>3. CASE Included(f) # {}
    <3> DEFINE g == CHOOSE g \in Included(f) : TRUE
    <3>1. g \in Files /\ Of(d, Included(f)) = d[g]
      <4>1. g \in Included(f)
        BY <2>3, Zenon
      <4>2. Of(d, Included(f)) = d[g]
        BY <2>3, Zenon DEF Of
      <4> QED
        BY <4>1, <4>2, IncludedOK
    <3> HIDE DEF g
    <3>2. Of(d, Included(f)) \in Seq(SomeLine)
      BY <3>1
    <3> QED
      BY <2>1, <3>2, ConcatProperties
  <2> QED
    BY <2>2, <2>3
<1>4. \A n \in 0..N : n # 0 => n - 1 \in 0..N
  BY <1>1
<1> HIDE DEF N, D
<1>5. PICK h : h \in [1..N -> [D -> D]] /\ \A n \in 1..N, d \in D : h[n][d] = more(d)
  <2>1. PICK k : k = [d \in D |-> more(d)]
    OBVIOUS
  <2>2. k \in [D -> D] /\ \A d \in D : k[d] = more(d)
    <3> HIDE DEF more
    <3> QED
      BY <1>3, <2>1
  <2>3. PICK h : h = [n \in 1..N |-> k]
    OBVIOUS
  <2>4. h \in [1..N -> [D -> D]] /\ \A n \in 1..N : h[n] = k
    BY <2>2, <2>3
  <2> HIDE DEF more
  <2> QED
    BY <2>2, <2>4
<1>6. PICK c \in [0..N -> D] : c[0] = none /\ \A n \in 1..N : c[n] = h[n][c[n - 1]]
  <2>1. PICK Q, e, m : Q = D /\ e = none /\ m = N
    OBVIOUS
  <2>2. m \in Nat /\ h \in [1..m -> [Q -> Q]] /\ e \in Q
    BY <1>1, <1>2, <1>5, <2>1
  <2>3. \E g \in [0..m -> Q] : g[0] = e /\ \A n \in 1..m : g[n] = h[n][g[n - 1]]
    BY ONLY <2>2, Iterates
  <2> QED
    BY <2>1, <2>3
<1>7. \A n \in 1..N : c[n] = more(c[n - 1])
  <2> SUFFICES ASSUME NEW n \in 1..N PROVE c[n] = more(c[n - 1])
    OBVIOUS
  <2>1. n - 1 \in 0..N
    BY <1>1
  <2>2. c[n - 1] \in D
    BY <2>1
  <2> HIDE DEF more
  <2> QED
    BY <1>5, <1>6, <2>2
<1>8. Declared = CHOOSE d : d = F(d)
  BY DEF Declared, N, Of
<1>9. c = F(c)
  <2>1. \A n \in 0..N : c[n] = IF n = 0 THEN none ELSE more(c[n - 1])
    <3> SUFFICES ASSUME NEW n \in 0..N PROVE c[n] = IF n = 0 THEN none ELSE more(c[n - 1])
      OBVIOUS
    <3>1. n # 0 => n \in 1..N
      BY <1>1
    <3> HIDE DEF none, more
    <3> QED
      BY <1>6, <1>7, <3>1
  <2>2. \A n \in 0..N :
          c[n] = [f \in Files |-> IF n = 0 THEN <<>>
                                  ELSE OnlyCommands(content[f].lines) \o Of(c[n - 1], Included(f))]
    BY <2>1
  <2>3. c = [n \in 0..N |-> c[n]]
    OBVIOUS
  <2> QED
    BY <2>2, <2>3
<1>10. Declared = F(Declared)
  <2> HIDE DEF F
  <2> QED
    BY <1>8, <1>9
<1>11. \A n \in 0..N : Declared[n] = IF n = 0 THEN none ELSE more(Declared[n - 1])
  <2>1. \A n \in 0..N :
          Declared[n] = [f \in Files |->
                           IF n = 0 THEN <<>>
                           ELSE OnlyCommands(content[f].lines) \o Of(Declared[n - 1], Included(f))]
    BY <1>10, Zenon
  <2> QED
    BY <2>1
<1> HIDE DEF F, none, more
<1>12. \A n \in 0..N : Declared[n] = c[n]
  <2> DEFINE T == {n \in 0..N : Declared[n] = c[n]}
  <2>1. 0 \in T
    BY <1>1, <1>6, <1>11
  <2>2. ASSUME NEW n \in 0..(N - 1), n \in T PROVE n + 1 \in T
    <3>1. n + 1 \in 0..N /\ n + 1 \in 1..N /\ n + 1 # 0 /\ (n + 1) - 1 = n /\ Declared[n] = c[n]
      BY <1>1, <2>2
    <3> QED
      BY <1>7, <1>11, <3>1
  <2>3. \A n \in 0..N : n \in T
    <3> HIDE DEF T
    <3> QED
      BY <1>1, <2>1, <2>2, Induct
  <2> QED
    BY <2>3
<1>13. \A n \in 0..N : Declared[n] \in D
  BY <1>12
<1>14. \A f \in Files : Declared[0][f] = <<>>
  BY <1>1, <1>11 DEF none
<1>15. \A n \in 1..N, f \in Files :
         Declared[n][f] = OnlyCommands(content[f].lines) \o Of(Declared[n - 1], Included(f))
  <2>1. \A n \in 1..N : n \in 0..N /\ n # 0
    BY <1>1
  <2> QED
    BY <1>11, <2>1 DEF more
<1> QED
  BY <1>1, <1>13, <1>14, <1>15 DEF N, D

-----------------------------------------------------------------------------
(* Reading the configuration *)

(* No file includes two, and no line is read differently than it looks.    *)
AsItLooks == WholeLines /\ OneByOne

LEMMA OneByOneMeans ==
  ASSUME MainInv, AsItLooks, ConfigFile # NULL
  PROVE  /\ \A f \in Files : LinesOf(f) = content[f].lines
         /\ \A f \in Files : \A p, q \in Includes(content[f].lines) : p = q
         /\ \A f \in Files : \A g, h \in Included(f) : g = h
         /\ \A f, g \in Glob[ConfigFile] : f = g
<1>1. ASSUME NEW S, IsFiniteSet(S), Cardinality(S) <= 1, NEW a \in S, NEW b \in S, a # b
      PROVE  FALSE
  <2>1. IsFiniteSet({b}) /\ Cardinality({b}) = 1
    BY FS_Singleton
  <2>2. IsFiniteSet({b} \cup {a}) /\ Cardinality({b} \cup {a}) = 2
    BY <1>1, <2>1, FS_AddElement
  <2>3. Cardinality({b} \cup {a}) <= Cardinality(S) /\ Cardinality(S) \in Nat
    <3>1. {b} \cup {a} \in SUBSET S
      BY <1>1
    <3> QED
      BY ONLY <1>1, <3>1, FS_Subset, FS_CardinalityType
  <2> QED
    BY <1>1, <2>2, <2>3
<1>2. ASSUME NEW s \in Seq(SomeLine) PROVE IsFiniteSet(Includes(s))
  <2> DEFINE k == [i \in 1..Len(s) |-> s[i][2]]
             S == {k[i] : i \in 1..Len(s)}
  <2>1. Len(s) \in Nat /\ IsFiniteSet(1..Len(s)) /\ DOMAIN s = 1..Len(s)
    BY FS_Interval, LenProperties
  <2>2. k \in Surjection(1..Len(s), S)
    BY DEF Surjection
  <2>3. IsFiniteSet(S)
    <3> HIDE DEF S, k
    <3> QED
      BY <2>1, <2>2, FS_Surjection
  <2>4. Includes(s) \in SUBSET S
    <3> SUFFICES ASSUME NEW p \in Includes(s) PROVE p \in S
      OBVIOUS
    <3>1. PICK line \in ToSet(s) : p = line[2]
      BY DEF Includes
    <3>2. PICK i \in 1..Len(s) : line = s[i]
      BY <2>1 DEF ToSet
    <3>3. k[i] = p
      BY <3>1, <3>2
    <3> QED
      BY <3>3
  <2> HIDE DEF S
  <2> QED
    BY <2>3, <2>4, FS_Subset
<1>3. \A p \in DOMAIN Glob : IsFiniteSet(Glob[p])
  BY StartupAssumption, FS_Subset
<1>4. ASSUME NEW f \in Files, NEW p \in Includes(content[f].lines) \cup {ConfigFile},
             NEW g \in Glob[p], NEW h \in Glob[p]
      PROVE  g = h
  <2>1. p \in DOMAIN Glob
    BY IncludedOK, StartupAssumption
  <2>2. Cardinality(Glob[p]) <= 1
    BY DEF AsItLooks, OneByOne
  <2> QED
    BY <1>1, <1>3, <2>1, <2>2
<1>5. ASSUME NEW f \in Files, NEW p \in Includes(content[f].lines),
             NEW q \in Includes(content[f].lines)
      PROVE  p = q
  <2>1. IsFiniteSet(Includes(content[f].lines)) /\ Cardinality(Includes(content[f].lines)) <= 1
    BY <1>2, IncludedOK DEF AsItLooks, OneByOne
  <2> QED
    BY <1>1, <2>1
<1>6. ASSUME NEW f \in Files, NEW g \in Included(f), NEW h \in Included(f) PROVE g = h
  <2>1. PICK p \in Includes(content[f].lines) : g \in Glob[p]
    BY DEF Included
  <2>2. PICK q \in Includes(content[f].lines) : h \in Glob[q]
    BY DEF Included
  <2>3. p = q
    BY <1>5
  <2> QED
    BY <1>4, <2>1, <2>2, <2>3
<1>7. ASSUME NEW f \in Glob[ConfigFile], NEW g \in Glob[ConfigFile] PROVE f = g
  <2>1. f \in Files
    BY StartupAssumption
  <2> QED
    BY <1>4, <2>1
<1>8. \A f \in Files : LinesOf(f) = content[f].lines
  BY LinesAsTheyAre DEF AsItLooks
<1> QED
  BY <1>5, <1>6, <1>7, <1>8

(* The patterns to be read, and the files they mean. *)
Patterns == ({config_file} \ {NULL}) \cup Includes(rest)
Unread == UNION {Glob[p] : p \in Patterns}

(* The commands main has read so far. *)
AllRead(e, c, r) == (OnlyCommands(e) \o OnlyCommands(c)) \o OnlyCommands(r)

(* The files main has read, each included by the one before: what the      *)
(* configuration file declares is what was read, and what the file to come *)
(* declares.                                                               *)
Chained(chain) ==
  /\ chain \in Seq(Files)
  /\ \A i \in 1..(Len(chain) - 1) : chain[i + 1] \in Included(chain[i])
  /\ Unread = IF chain = <<>> THEN Glob[ConfigFile] ELSE Included(chain[Len(chain)])
  /\ phase = "take" => /\ chain # <<>>
                       /\ Patterns = Includes(content[chain[Len(chain)]].lines)
  /\ \A f \in Glob[ConfigFile], k \in Nat :
       k + Len(chain) <= Cardinality(Files) =>
         Declared[k + Len(chain)][f] = AllRead(executed, commands, rest) \o Of(Declared[k], Unread)

ConfigInv ==
  /\ phase \notin {"take", "crash", "exit"} => rest = <<>>
  /\ phase \notin {"read", "take", "crash", "exit"} => config_file = NULL
  /\ phase \in {"daemon", "pid", "serve"} => commands = <<>>
  /\ ConfigFile # NULL /\ AsItLooks /\ phase \notin {"crash", "exit"} => \E chain : Chained(chain)

LEMMA SameFiles ==
  ASSUME content' = content
  PROVE  /\ AsItLooks' <=> AsItLooks
         /\ \A f : Included(f)' = Included(f)
         /\ Declared' = Declared
<1>1. \A f : Included(f)' = Included(f)
  BY DEF Included
<1>2. AsItLooks' <=> AsItLooks
  BY DEF AsItLooks, WholeLines, OneByOne
<1>3. Declared' = Declared
  BY SMT DEF Declared, Included, Includes
<1> QED
  BY <1>1, <1>2, <1>3

LEMMA OfType ==
  ASSUME MainInv, NEW k \in 0..Cardinality(Files), NEW S \in SUBSET Files
  PROVE  Of(Declared[k], S) \in Seq(SomeLine)
<1>1. Declared[k] \in [Files -> Seq(SomeLine)]
  BY DeclaredIs
<1>2. CASE S = {}
  <2>1. Of(Declared[k], S) = <<>>
    BY <1>2, OfOK
  <2> QED
    BY <2>1
<1>3. CASE S # {}
  <2>1. PICK g \in Files : Of(Declared[k], S) = Declared[k][g]
    <3>1. (CHOOSE g \in S : TRUE) \in S
      BY <1>3, Zenon
    <3>2. Of(Declared[k], S) = Declared[k][CHOOSE g \in S : TRUE]
      BY <1>3, Zenon DEF Of
    <3> QED
      BY <3>1, <3>2
  <2> QED
    BY <1>1, <2>1
<1> QED
  BY <1>2, <1>3

(* What main takes from the lines and executes stays read. *)
LEMMA AllReadOK ==
  ASSUME NEW e \in Seq(SomeLine), NEW c \in Seq(SomeLine), NEW r \in Seq(SomeLine)
  PROVE  /\ AllRead(e, c, r) \in Seq(SomeLine)
         /\ r # <<>> /\ ~IsCommand(Head(r)) => AllRead(e, c, Tail(r)) = AllRead(e, c, r)
         /\ r # <<>> => AllRead(e, Append(c, Head(r)), Tail(r)) = AllRead(e, c, r)
         /\ c # <<>> => AllRead(Append(e, Head(c)), Tail(c), r) = AllRead(e, c, r)
         /\ r = <<>> => AllRead(e, c, r) = OnlyCommands(e) \o OnlyCommands(c)
<1> DEFINE E == OnlyCommands(e)
           C == OnlyCommands(c)
           R == OnlyCommands(r)
<1>1. E \in Seq(SomeLine) /\ C \in Seq(SomeLine) /\ R \in Seq(SomeLine)
  BY OnlyCommandsConcat
<1>2. E \o C \in Seq(SomeLine) /\ (E \o C) \o R \in Seq(SomeLine)
  <2> HIDE DEF E, C, R
  <2> QED
    BY <1>1, ConcatProperties
<1>3. ASSUME r # <<>>
      PROVE  /\ ~IsCommand(Head(r)) => AllRead(e, c, Tail(r)) = AllRead(e, c, r)
             /\ AllRead(e, Append(c, Head(r)), Tail(r)) = AllRead(e, c, r)
  <2> DEFINE X == OnlyCommands(<<Head(r)>>)
             T == OnlyCommands(Tail(r))
  <2>1. Head(r) \in SomeLine /\ Tail(r) \in Seq(SomeLine)
    BY <1>3, HeadTailProperties
  <2>2. <<Head(r)>> \in Seq(SomeLine)
    BY <2>1
  <2>3. X \in Seq(SomeLine) /\ T \in Seq(SomeLine)
    BY <2>1, <2>2, OnlyCommandsConcat
  <2>4. R = X \o T /\ OnlyCommands(Append(c, Head(r))) = C \o X
    BY <1>3, <2>1, OnlyCommandsHead, OnlyCommandsAppend
  <2>5. ~IsCommand(Head(r)) => X = <<>>
    BY OnlyCommandsOne, Zenon
  <2>6. /\ AllRead(e, c, r) = (E \o C) \o R
        /\ AllRead(e, c, Tail(r)) = (E \o C) \o T
        /\ AllRead(e, Append(c, Head(r)), Tail(r)) = (E \o (C \o X)) \o T
    BY <2>4 DEF AllRead
  <2> HIDE DEF E, C, R, X, T
  <2>7. <<>> \o T = T /\ (E \o C) \o (X \o T) = (E \o (C \o X)) \o T
    BY <1>1, <2>3, SMTT(60)
  <2>8. ~IsCommand(Head(r)) => AllRead(e, c, Tail(r)) = AllRead(e, c, r)
    BY <2>4, <2>5, <2>6, <2>7, Zenon
  <2> QED
    BY <2>4, <2>6, <2>7, <2>8
<1>4. ASSUME c # <<>> PROVE AllRead(Append(e, Head(c)), Tail(c), r) = AllRead(e, c, r)
  <2> DEFINE X == OnlyCommands(<<Head(c)>>)
             T == OnlyCommands(Tail(c))
  <2>1. Head(c) \in SomeLine /\ Tail(c) \in Seq(SomeLine)
    BY <1>4, HeadTailProperties
  <2>2. <<Head(c)>> \in Seq(SomeLine)
    BY <2>1
  <2>3. X \in Seq(SomeLine) /\ T \in Seq(SomeLine)
    BY <2>1, <2>2, OnlyCommandsConcat
  <2>4. C = X \o T /\ OnlyCommands(Append(e, Head(c))) = E \o X
    BY <1>4, <2>1, OnlyCommandsHead, OnlyCommandsAppend
  <2>5. /\ AllRead(e, c, r) = (E \o C) \o R
        /\ AllRead(Append(e, Head(c)), Tail(c), r) = ((E \o X) \o T) \o R
    BY <2>4 DEF AllRead
  <2> HIDE DEF E, C, R, X, T
  <2>6. (E \o X) \o T = E \o (X \o T)
    BY <1>1, <2>3, SMTT(60)
  <2> QED
    BY <2>4, <2>5, <2>6
<1>5. r = <<>> => AllRead(e, c, r) = E \o C
  <2>1. r = <<>> => R = <<>>
    BY OnlyCommandsOne
  <2> HIDE DEF E, C, R
  <2>2. (E \o C) \o <<>> = E \o C
    BY <1>2
  <2> QED
    BY <2>1, <2>2 DEF AllRead, E, C, R
<1> QED
  BY <1>2, <1>3, <1>4, <1>5 DEF AllRead

LEMMA IncludesOK ==
  /\ Includes(<<>>) = {}
  /\ \A s \in Seq(SomeLine) :
       s # <<>> => Includes(s) = (IF Head(s) \notin NoCommand /\ Head(s)[1] = "include" /\ Len(Head(s)) > 1
                                    THEN {Head(s)[2]} ELSE {}) \cup Includes(Tail(s))
<1>1. Includes(<<>>) = {}
  BY DEF Includes, ToSet
<1>2. ASSUME NEW s \in Seq(SomeLine), s # <<>>
      PROVE  Includes(s) = (IF Head(s) \notin NoCommand /\ Head(s)[1] = "include" /\ Len(Head(s)) > 1
                              THEN {Head(s)[2]} ELSE {}) \cup Includes(Tail(s))
  <2> DEFINE T == Tail(s)
  <2>1. /\ Len(s) \in Nat \ {0} /\ T \in Seq(SomeLine) /\ Len(T) = Len(s) - 1
        /\ Head(s) = s[1] /\ \A i \in 1..Len(T) : T[i] = s[i + 1]
    BY <1>2, EmptySeq, HeadTailProperties
  <2>2. ToSet(s) = {s[i] : i \in 1..Len(s)} /\ ToSet(T) = {T[i] : i \in 1..Len(T)}
    BY <2>1, LenProperties DEF ToSet
  <2> HIDE DEF T
  <2>3. ToSet(s) = {s[1]} \cup ToSet(T)
    <3>1. ASSUME NEW x \in ToSet(s) PROVE x \in {s[1]} \cup ToSet(T)
      <4>1. PICK i \in 1..Len(s) : x = s[i]
        BY <2>2
      <4>2. CASE i # 1
        <5>1. i - 1 \in 1..Len(T) /\ (i - 1) + 1 = i
          BY <2>1, <4>2
        <5> QED
          BY <2>1, <2>2, <4>1, <5>1
      <4> QED
        BY <4>1, <4>2
    <3>2. ASSUME NEW x \in ToSet(T) PROVE x \in ToSet(s)
      <4>1. PICK i \in 1..Len(T) : x = T[i]
        BY <2>2
      <4>2. i + 1 \in 1..Len(s)
        BY <2>1
      <4> QED
        BY <2>1, <2>2, <4>1, <4>2
    <3>3. 1 \in 1..Len(s)
      BY <2>1
    <3> QED
      BY <2>2, <3>1, <3>2, <3>3
  <2> QED
    BY <2>1, <2>3 DEF Includes, T
<1> QED
  BY <1>1, <1>2

LEMMA ChainKept ==
  ASSUME content' = content, NEW chain, Chained(chain),
         phase' = "take" => phase = "take" /\ Patterns' = Patterns, Unread' = Unread,
         AllRead(executed', commands', rest') = AllRead(executed, commands, rest)
  PROVE  Chained(chain)'
<1>1. /\ \A f : Included(f)' = Included(f)
      /\ Declared' = Declared
  BY SameFiles
<1>2. \A f \in Glob[ConfigFile], k \in Nat :
        k + Len(chain) <= Cardinality(Files) =>
          Declared'[k + Len(chain)][f] =
            AllRead(executed', commands', rest') \o Of(Declared'[k], Unread')
  BY <1>1 DEF Chained
<1> QED
  BY <1>1, <1>2 DEF Chained

LEMMA ConfigInitOK == Init /\ MainInv => ConfigInv
<1> SUFFICES ASSUME Init, MainInv PROVE ConfigInv
  OBVIOUS
<1>1. phase = "read" /\ rest = <<>> /\ commands = <<>> /\ executed = <<>> /\ config_file = ConfigFile
  BY DEF Init
<1>2. ASSUME ConfigFile # NULL, AsItLooks PROVE Chained(<<>>)
  <2>1. Unread = Glob[ConfigFile]
    BY <1>1, <1>2, IncludesOK DEF Unread, Patterns
  <2>2. AllRead(executed, commands, rest) = <<>>
    <3>1. <<>> \in Seq(SomeLine) /\ <<>> \o <<>> = <<>>
      OBVIOUS
    <3> QED
      BY <1>1, <3>1, OnlyCommandsOne DEF AllRead
  <2>3. ASSUME NEW f \in Glob[ConfigFile], NEW k \in Nat, k + 0 <= Cardinality(Files)
        PROVE  Declared[k + 0][f] = <<>> \o Of(Declared[k], Glob[ConfigFile])
    <3>1. Glob[ConfigFile] = {f}
      BY <1>2, OneByOneMeans
    <3>2. f \in Files /\ k \in 0..Cardinality(Files) /\ k + 0 = k
      BY <1>2, <2>3, DeclaredIs, StartupAssumption
    <3>3. Of(Declared[k], Glob[ConfigFile]) = Declared[k][f]
      BY <3>1, OfOK
    <3>4. Declared[k][f] \in Seq(SomeLine)
      BY <3>2, DeclaredIs
    <3>5. <<>> \o Declared[k][f] = Declared[k][f]
      BY <3>4
    <3> QED
      BY <3>2, <3>3, <3>5
  <2>4. <<>> \in Seq(Files) /\ Len(<<>>) = 0 /\ 1..(0 - 1) = {}
    OBVIOUS
  <2> QED
    BY <1>1, <2>1, <2>2, <2>3, <2>4 DEF Chained
<1> QED
  BY <1>1, <1>2 DEF ConfigInv

(* A file is read: what it declares is read, and what it includes is to    *)
(* come.                                                                   *)
LEMMA FileRead ==
  ASSUME MainInv, MainInv', AsItLooks, ConfigFile # NULL, rest = <<>>, ReadFromFile,
         NEW chain, Chained(chain)
  PROVE  \E c : Chained(c)'
<1> DEFINE N == Cardinality(Files)
           n == Len(chain)
<1>1. /\ content' = content /\ phase = "read" /\ phase' = "take"
      /\ config_file # NULL /\ config_file' = NULL
      /\ commands' = commands /\ executed' = executed
  BY DEF ReadFromFile, options, appVars
<1>2. PICK f \in Glob[config_file] : rest' = LinesOf(f)
  BY DEF ReadFromFile
<1>3. Patterns = {config_file} /\ Unread = Glob[config_file]
  BY <1>1, IncludesOK DEF Patterns, Unread
<1>4. f \in Files /\ config_file \in DOMAIN Glob
  BY <1>1, <1>2, StartupAssumption DEF MainInv
<1>5. rest' = content[f].lines /\ content[f].lines \in Seq(SomeLine)
  BY <1>2, <1>4, OneByOneMeans, IncludedOK
<1>6. Patterns' = Includes(content[f].lines) /\ Unread' = Included(f)
  BY <1>1, <1>5 DEF Patterns, Unread, Included
<1>7. /\ chain \in Seq(Files) /\ n \in Nat
      /\ \A i \in 1..(n - 1) : chain[i + 1] \in Included(chain[i])
      /\ Unread = IF chain = <<>> THEN Glob[ConfigFile] ELSE Included(chain[n])
  BY DEF Chained
<1>8. Unread = {f}
  <2>1. CASE chain = <<>>
    BY <1>2, <1>3, <1>7, <2>1, OneByOneMeans
  <2>2. CASE chain # <<>>
    <3>1. chain[n] \in Files
      BY <1>7, <2>2, EmptySeq, ElementOfSeq
    <3> QED
      BY <1>2, <1>3, <1>7, <2>2, <3>1, OneByOneMeans
  <2> QED
    BY <2>1, <2>2
<1> DEFINE c == Append(chain, f)
<1>9. /\ c \in Seq(Files) /\ Len(c) = n + 1 /\ c # <<>> /\ c[n + 1] = f
      /\ \A i \in 1..n : c[i] = chain[i]
  BY <1>4, <1>7, AppendProperties
<1> HIDE DEF c
<1>10. ASSUME NEW i \in 1..(Len(c) - 1) PROVE c[i + 1] \in Included(c[i])
  <2>1. CASE i = n
    <3>1. chain # <<>>
      BY <1>7, <1>9, <2>1
    <3> QED
      BY <1>7, <1>8, <1>9, <2>1, <3>1
  <2>2. CASE i # n
    <3>1. i \in 1..(n - 1) /\ i \in 1..n /\ i + 1 \in 1..n
      BY <1>7, <1>9, <2>2
    <3> QED
      BY <1>7, <1>9, <3>1
  <2> QED
    BY <2>1, <2>2
<1>11. ASSUME NEW f0 \in Glob[ConfigFile], NEW k \in Nat, k + Len(c) <= N
       PROVE  Declared[k + Len(c)][f0] =
                AllRead(executed', commands', rest') \o Of(Declared[k], Included(f))
  <2> DEFINE O == OnlyCommands(content[f].lines)
             L == Of(Declared[k], Included(f))
             E == OnlyCommands(executed)
             C == OnlyCommands(commands)
  <2>1. /\ N \in Nat /\ k + 1 \in Nat /\ k + 1 \in 1..N /\ k \in 0..N /\ (k + 1) - 1 = k
        /\ k + Len(c) = (k + 1) + n /\ (k + 1) + n <= N
    BY <1>7, <1>9, <1>11, DeclaredIs
  <2>2. Declared[(k + 1) + n][f0] = AllRead(executed, commands, rest) \o Of(Declared[k + 1], {f})
    BY <1>8, <2>1 DEF Chained
  <2>3. Of(Declared[k + 1], {f}) = O \o L
    BY <1>4, <2>1, OfOK, DeclaredIs
  <2>4. O \in Seq(SomeLine) /\ L \in Seq(SomeLine)
    <3>1. Included(f) \in SUBSET Files
      BY <1>4, IncludedOK
    <3> QED
      BY <1>5, <2>1, <3>1, OnlyCommandsConcat, OfType
  <2>5. executed \in Seq(SomeLine) /\ commands \in Seq(SomeLine)
    BY DEF MainInv, SomeLine
  <2>6. E \in Seq(SomeLine) /\ C \in Seq(SomeLine)
    BY <2>5, OnlyCommandsConcat
  <2>7. /\ AllRead(executed', commands', rest') = (E \o C) \o O
        /\ AllRead(executed, commands, rest) = E \o C
    <3>1. AllRead(executed, commands, rest) = E \o C
      <4>1. rest \in Seq(SomeLine)
        OBVIOUS
      <4> QED
        BY <2>5, <4>1, AllReadOK
    <3> QED
      BY <1>1, <1>5, <3>1 DEF AllRead
  <2> HIDE DEF O, L, E, C
  <2>8. (E \o C) \o (O \o L) = ((E \o C) \o O) \o L
    BY <2>4, <2>6
  <2> QED
    BY <2>1, <2>2, <2>3, <2>7, <2>8 DEF L
<1>12. /\ \A g : Included(g)' = Included(g)
       /\ Declared' = Declared
  BY <1>1, SameFiles
<1>13. \A f0 \in Glob[ConfigFile], k \in Nat :
         k + Len(c) <= Cardinality(Files) =>
           Declared'[k + Len(c)][f0] =
             AllRead(executed', commands', rest') \o Of(Declared'[k], Unread')
  BY <1>6, <1>11, <1>12
<1>14. Chained(c)'
  BY <1>1, <1>6, <1>9, <1>10, <1>12, <1>13 DEF Chained
<1> QED
  BY <1>14

LEMMA ConfigStep ==
  ASSUME MainInv, MainInv', ConfigInv, [Next]_vars
  PROVE  ConfigInv'
<1> USE DEF options, config, running
<1>a. /\ executed \in Seq(SomeLine) /\ commands \in Seq(SomeLine) /\ rest \in Seq(SomeLine)
      /\ NULL \notin DOMAIN Glob /\ config_file \in DOMAIN Glob \cup {NULL}
  BY CommandsAssumption, StartupAssumption DEF MainInv, SomeLine
<1>b. ASSUME content' = content, phase # "crash" /\ phase # "exit",
             phase' \notin {"take", "crash", "exit"} => rest' = <<>>,
             phase' \notin {"read", "take", "crash", "exit"} => config_file' = NULL,
             phase' \in {"daemon", "pid", "serve"} => commands' = <<>>,
             \A chain : ConfigFile # NULL /\ AsItLooks /\ Chained(chain) =>
               /\ phase' = "take" => phase = "take" /\ Patterns' = Patterns
               /\ Unread' = Unread
               /\ AllRead(executed', commands', rest') = AllRead(executed, commands, rest)
      PROVE  ConfigInv'
  <2>1. ASSUME ConfigFile # NULL, AsItLooks' PROVE \E chain : Chained(chain)'
    <3>1. AsItLooks
      BY <1>b, <2>1, SameFiles
    <3>2. PICK chain : Chained(chain)
      BY <1>b, <2>1, <3>1 DEF ConfigInv
    <3> QED
      BY <1>b, <2>1, <3>1, <3>2, ChainKept
  <2> QED
    BY <1>b, <2>1 DEF ConfigInv
<1>c. ASSUME UNCHANGED <<config_file, rest, commands, executed>>
      PROVE  /\ Patterns' = Patterns /\ Unread' = Unread
             /\ AllRead(executed', commands', rest') = AllRead(executed, commands, rest)
  BY <1>c DEF Patterns, Unread
<1>d. ASSUME UNCHANGED mainVars PROVE ConfigInv'
  <2>1. CASE phase = "crash" \/ phase = "exit"
    BY <1>d, <2>1 DEF mainVars, ConfigInv
  <2>2. CASE phase # "crash" /\ phase # "exit"
    <3>1. UNCHANGED <<config_file, rest, commands, executed, content, phase>>
      BY <1>d DEF mainVars
    <3> QED
      BY <1>b, <1>c, <2>2, <3>1 DEF ConfigInv
  <2> QED
    BY <2>1, <2>2
<1>e. ASSUME phase' \in {"crash", "exit"} PROVE ConfigInv'
  BY <1>e DEF ConfigInv
(* A line is looked at that includes nothing.                              *)
<1>f. ASSUME phase = "take", rest # <<>>, rest' = Tail(rest),
             Head(rest) \in NoCommand \/ Head(rest)[1] # "include",
             config_file' = config_file
      PROVE  Patterns' = Patterns /\ Unread' = Unread
  BY <1>a, <1>f, IncludesOK DEF Patterns, Unread
<1>1. CASE UNCHANGED vars
  BY <1>1, <1>d DEF vars
<1>2. CASE GlobFails
  <2>1. /\ phase = "read" /\ phase' = "read" /\ config_file # NULL /\ config_file' = NULL
        /\ Glob[config_file] = {} /\ content' = content
        /\ UNCHANGED <<rest, commands, executed>>
    BY <1>2 DEF GlobFails
  <2>2. rest = <<>>
    BY <2>1 DEF ConfigInv
  <2>3. Unread' = Unread
    BY <2>1, <2>2, IncludesOK DEF Unread, Patterns
  <2> QED
    BY <1>b, <2>1, <2>2, <2>3
<1>3. CASE FileFails
  BY <1>3, <1>e DEF FileFails
<1>4. CASE ReadFromFile
  <2>1. phase = "read" /\ phase' = "take" /\ content' = content
    BY <1>4 DEF ReadFromFile
  <2>2. rest = <<>>
    BY <2>1 DEF ConfigInv
  <2>3. ASSUME ConfigFile # NULL, AsItLooks' PROVE \E chain : Chained(chain)'
    <3>1. AsItLooks
      BY <2>1, <2>3, SameFiles
    <3>2. PICK chain : Chained(chain)
      BY <2>1, <2>3, <3>1 DEF ConfigInv
    <3> QED
      BY <1>4, <2>2, <2>3, <3>1, <3>2, FileRead
  <2> QED
    BY <2>1, <2>3 DEF ConfigInv
<1>5. CASE ReadDone
  <2>1. phase = "read" /\ phase' = "load" /\ config_file = NULL
    BY <1>5 DEF ReadDone
  <2>2. UNCHANGED <<config_file, rest, commands, executed, content>>
    BY <1>5 DEF ReadDone
  <2>3. rest = <<>>
    BY <2>1 DEF ConfigInv
  <2> QED
    BY <1>b, <1>c, <2>1, <2>2, <2>3
<1>6. CASE Skip
  <2>1. /\ phase = "take" /\ phase' = "take" /\ rest # <<>> /\ Head(rest) \in NoCommand
        /\ rest' = Tail(rest) /\ UNCHANGED <<content, config_file, commands, executed>>
    BY <1>6 DEF Skip, NoCommand
  <2>2. ~IsCommand(Head(rest))
    BY <2>1 DEF IsCommand
  <2>3. AllRead(executed', commands', rest') = AllRead(executed, commands, rest)
    BY <1>a, <2>1, <2>2, AllReadOK
  <2>4. Patterns' = Patterns /\ Unread' = Unread
    BY <1>f, <2>1
  <2> QED
    BY <1>b, <2>1, <2>3, <2>4
<1>7. CASE TakeBlanks \/ TakeBare
  BY <1>7, <1>e DEF TakeBlanks, TakeBare
<1>8. CASE TakePidFile
  <2>1. /\ phase = "take" /\ phase' = "take" /\ rest # <<>> /\ Head(rest)[1] = "pid-file"
        /\ rest' = Tail(rest) /\ UNCHANGED <<content, config_file, commands, executed>>
    BY <1>8 DEF TakePidFile, Takes
  <2>2. ~IsCommand(Head(rest))
    BY <2>1 DEF IsCommand
  <2>3. AllRead(executed', commands', rest') = AllRead(executed, commands, rest)
    BY <1>a, <2>1, <2>2, AllReadOK
  <2>4. Patterns' = Patterns /\ Unread' = Unread
    BY <1>f, <2>1
  <2> QED
    BY <1>b, <2>1, <2>3, <2>4
<1>9. CASE TakeInclude
  <2>1. /\ phase = "take" /\ phase' = "take" /\ rest # <<>> /\ Head(rest)[1] = "include"
        /\ Head(rest) \in Lines /\ Len(Head(rest)) > 1 /\ config_file' = Head(rest)[2]
        /\ rest' = Tail(rest) /\ UNCHANGED <<content, commands, executed>>
    BY <1>9 DEF TakeInclude, Takes
  <2>2. ~IsCommand(Head(rest))
    BY <2>1 DEF IsCommand
  <2>3. AllRead(executed', commands', rest') = AllRead(executed, commands, rest)
    BY <1>a, <2>1, <2>2, AllReadOK
  <2>4. ASSUME ConfigFile # NULL, AsItLooks, NEW chain, Chained(chain)
        PROVE  Patterns' = Patterns /\ Unread' = Unread
    <3> DEFINE p == Head(rest)[2]
    <3>1. Head(rest) \notin NoCommand
      <4>1. PICK h : h = Head(rest)
        OBVIOUS
      <4>2. h # <<>> /\ h[1] = "include"
        BY <2>1, <4>1, CommandsAssumption
      <4>3. h # <<"">> /\ h # <<"#">> /\ h # <<"#", "...">>
        <5>1. <<"">>[1] = "" /\ <<"#">>[1] = "#" /\ <<"#", "...">>[1] = "#"
          OBVIOUS
        <5>2. "" # "include" /\ "#" # "include"
          OBVIOUS
        <5> QED
          BY <4>2, <5>1, <5>2, Zenon
      <4>4. h \notin {<<"">>, <<"#">>, <<"#", "...">>} \cup {<<>>}
        BY <4>2, <4>3
      <4> QED
        BY <4>1, <4>4 DEF NoCommand, Ignored, Blanks, Empty, Comment, LongComment
    <3>2. Includes(rest) = {p} \cup Includes(Tail(rest))
      BY <1>a, <2>1, <3>1, IncludesOK
    <3>3. p \in DOMAIN Glob /\ p # NULL
      BY <1>a, <2>1, StartupAssumption
    <3>4. PICK f \in Files : Patterns = Includes(content[f].lines)
      <4>1. chain \in Seq(Files) /\ chain # <<>> /\ Patterns = Includes(content[chain[Len(chain)]].lines)
        BY <2>1, <2>4 DEF Chained
      <4>2. chain[Len(chain)] \in Files
        BY <4>1, EmptySeq, ElementOfSeq
      <4> QED
        BY <4>1, <4>2
    <3>5. \A q, r \in Patterns : q = r
      BY <2>4, <3>4, OneByOneMeans
    <3>6. Patterns = {p}
      BY <3>2, <3>5 DEF Patterns
    <3>7. Patterns' = {p} \cup Includes(Tail(rest))
      BY <2>1, <3>3 DEF Patterns
    <3>8. Patterns' = Patterns
      BY <3>2, <3>6, <3>7 DEF Patterns
    <3> QED
      BY <3>8 DEF Unread
  <2> QED
    BY <1>b, <2>1, <2>3, <2>4
<1>10. CASE TakeCommand
  <2>1. /\ phase = "take" /\ phase' = "take" /\ rest # <<>> /\ Head(rest)[1] # "include"
        /\ commands' = Append(commands, Head(rest))
        /\ rest' = Tail(rest) /\ UNCHANGED <<content, config_file, executed>>
    BY <1>10 DEF TakeCommand
  <2>2. AllRead(executed', commands', rest') = AllRead(executed, commands, rest)
    BY <1>a, <2>1, AllReadOK
  <2>3. Patterns' = Patterns /\ Unread' = Unread
    BY <1>f, <2>1
  <2> QED
    BY <1>b, <2>1, <2>2, <2>3
<1>11. CASE TakeDone
  <2>1. phase = "take" /\ phase' = "read" /\ rest = <<>>
    BY <1>11 DEF TakeDone
  <2>2. UNCHANGED <<config_file, rest, commands, executed, content>>
    BY <1>11 DEF TakeDone
  <2> QED
    BY <1>b, <1>c, <2>1, <2>2
<1>12. CASE LoadConfig
  <2>1. CASE phase' = "crash"
    BY <1>e, <2>1
  <2>2. CASE phase' # "crash"
    <3>1. /\ phase = "load" /\ phase' = "load" /\ commands # <<>> /\ commands' = Tail(commands)
          /\ executed' = Append(executed, Head(commands))
          /\ UNCHANGED <<content, config_file, rest>>
      BY <1>12, <2>2 DEF LoadConfig
    <3>2. rest = <<>> /\ config_file = NULL
      BY <3>1 DEF ConfigInv
    <3>3. AllRead(executed', commands', rest') = AllRead(executed, commands, rest)
      BY <1>a, <3>1, AllReadOK
    <3>4. Unread' = Unread
      BY <3>1 DEF Unread, Patterns
    <3> QED
      BY <1>b, <3>1, <3>2, <3>3, <3>4
  <2> QED
    BY <2>1, <2>2
<1>13. CASE RunTransports
  <2>1. phase = "load" /\ phase' \in {"daemon", "pid"} /\ commands = <<>>
    BY <1>13 DEF RunTransports
  <2>2. UNCHANGED <<config_file, rest, commands, executed, content>>
    BY <1>13 DEF RunTransports
  <2>3. rest = <<>> /\ config_file = NULL
    BY <2>1 DEF ConfigInv
  <2> QED
    BY <1>b, <1>c, <2>1, <2>2, <2>3
<1>14. CASE Daemon
  <2>1. phase = "daemon" /\ phase' \in {"pid", "exit"}
    BY <1>14 DEF Daemon
  <2>2. UNCHANGED <<config_file, rest, commands, executed, content>>
    BY <1>14 DEF Daemon
  <2>3. rest = <<>> /\ config_file = NULL /\ commands = <<>>
    BY <2>1 DEF ConfigInv
  <2> QED
    BY <1>b, <1>c, <2>1, <2>2, <2>3
<1>15. CASE SavePid
  <2>1. phase = "pid" /\ phase' \in {"serve", "exit"}
    BY <1>15 DEF SavePid
  <2>2. UNCHANGED <<config_file, rest, commands, executed, content>>
    BY <1>15 DEF SavePid
  <2>3. rest = <<>> /\ config_file = NULL /\ commands = <<>>
    BY <2>1 DEF ConfigInv
  <2> QED
    BY <1>b, <1>c, <2>1, <2>2, <2>3
<1>16. CASE Serve
  BY <1>16, <1>d DEF Serve
<1> QED
  BY <1>1, <1>2, <1>3, <1>4, <1>5, <1>6, <1>7, <1>8, <1>9, <1>10, <1>11, <1>12, <1>13,
     <1>14, <1>15, <1>16
  DEF Next, Main

(* When all is read, no file has been read twice: it would have been read  *)
(* for ever.                                                               *)
LEMMA NoneTwice ==
  ASSUME MainInv, AsItLooks, ConfigFile # NULL, Unread = {}, NEW chain, Chained(chain)
  PROVE  Len(chain) <= Cardinality(Files)
<1> DEFINE n == Len(chain)
<1>1. /\ chain \in Seq(Files) /\ n \in Nat /\ chain \in [1..n -> Files]
      /\ \A i \in 1..(n - 1) : chain[i + 1] \in Included(chain[i])
      /\ chain # <<>> => Included(chain[n]) = {}
  BY LenProperties DEF Chained
<1> HIDE DEF n
<1>2. ASSUME NEW a \in 1..n, NEW b \in 1..n, a < b, chain[a] = chain[b] PROVE FALSE
  <2> DEFINE m == n - b
             T == {i \in 0..m : chain[a + i] = chain[b + i]}
  <2>1. m \in Nat /\ a \in Nat /\ b \in Nat /\ n >= 1
    BY <1>1, <1>2
  <2>2. 0 \in T
    BY <1>2, <2>1
  <2>3. ASSUME NEW i \in 0..(m - 1), i \in T PROVE i + 1 \in T
    <3>1. /\ a + i \in 1..(n - 1) /\ b + i \in 1..(n - 1) /\ a + i \in 1..n
          /\ (a + i) + 1 = a + (i + 1) /\ (b + i) + 1 = b + (i + 1)
          /\ i + 1 \in 0..m /\ chain[a + i] = chain[b + i]
      BY <1>1, <1>2, <2>1, <2>3
    <3>2. /\ chain[a + (i + 1)] \in Included(chain[a + i])
          /\ chain[b + (i + 1)] \in Included(chain[a + i])
      <4>1. /\ chain[(a + i) + 1] \in Included(chain[a + i])
            /\ chain[(b + i) + 1] \in Included(chain[b + i])
        BY <1>1, <3>1
      <4> QED
        BY <3>1, <4>1
    <3>3. chain[a + i] \in Files
      BY <1>1, <3>1
    <3>4. chain[a + (i + 1)] = chain[b + (i + 1)]
      BY <3>2, <3>3, OneByOneMeans
    <3> QED
      BY <3>1, <3>4
  <2>4. m \in T
    <3>1. \A i \in 0..m : i \in T
      <4> HIDE DEF T, m
      <4> QED
        BY <2>1, <2>2, <2>3, Induct
    <3>2. m \in 0..m
      BY <2>1
    <3> QED
      BY <3>1, <3>2
  <2>5. /\ chain[a + m] = chain[n] /\ a + m \in 1..(n - 1)
    <3>1. b + m = n /\ a + m \in 1..(n - 1)
      BY <1>1, <1>2, <2>1
    <3> QED
      BY <2>4, <3>1
  <2>6. chain[(a + m) + 1] \in Included(chain[n])
    BY <1>1, <2>5
  <2>7. chain # <<>>
    BY <2>1, EmptySeq DEF n
  <2> QED
    BY <1>1, <2>6, <2>7
<1>3. ASSUME ~(n <= Cardinality(Files)) PROVE FALSE
  <2>1. /\ IsFiniteSet(1..n) /\ Cardinality(1..n) = n
        /\ IsFiniteSet(Files) /\ Cardinality(Files) \in Nat
    BY <1>1, FS_Interval, DeclaredIs, StartupAssumption
  <2>2. Cardinality(Files) < Cardinality(1..n)
    BY <1>1, <1>3, <2>1
  <2>3. PICK a \in 1..n, b \in 1..n : a # b /\ chain[a] = chain[b]
    <3>1. PICK A : A = 1..n
      OBVIOUS
    <3>2. IsFiniteSet(A) /\ IsFiniteSet(Files) /\ Cardinality(Files) < Cardinality(A)
          /\ chain \in [A -> Files]
      BY <1>1, <2>1, <2>2, <3>1
    <3>3. \E a, b \in A : a # b /\ chain[a] = chain[b]
      BY ONLY <3>2, FS_PigeonHole
    <3> QED
      BY <3>1, <3>3
  <2>4. a < b \/ b < a
    BY <1>1, <2>3
  <2> QED
    BY <1>2, <2>3, <2>4
<1> QED
  BY <1>3 DEF n

LEMMA ConfigInvariant == Spec => [](MainInv /\ ConfigInv)
<1>1. Init => StartupInv
  BY StartupInit
<1>2. Init /\ StartupInv => MainInv /\ ConfigInv
  BY ConfigInitOK DEF StartupInv
<1>3. StartupInv /\ StartupInv' /\ (MainInv /\ ConfigInv) /\ [Next]_vars => (MainInv /\ ConfigInv)'
  BY ConfigStep DEF StartupInv
<1> QED
  BY <1>1, <1>2, <1>3, StartupInvariant, PTL DEF Spec

-----------------------------------------------------------------------------
(* No library is ever opened twice or closed once too often, no log file   *)
(* either, and main only executes lines of its configuration files.        *)
THEOREM TypeCorrect == Spec => []TypeOK
<1>1. StartupInv => TypeOK
  BY DEF StartupInv, MainInv, AppInv, LoaderOK, LogOK, TypeOK, AppTypeOK
<1> QED
  BY <1>1, StartupInvariant, PTL

(* However plugins replace each other, fail to load or are unloaded, a     *)
(* library is open if and only if the plugin made of it is in the table:   *)
(* no code goes away under a plugin, and none stays behind.                *)
THEOREM NoLibraryLeaks == Spec => []LibrariesOpen
<1>1. StartupInv => LibrariesOpen
  <2> SUFFICES ASSUME LoaderOK, NEW l \in Libs
               PROVE  opened[l] = Cardinality({w \in Words : plugins[w] = l})
    BY DEF StartupInv, AppInv, LibrariesOpen
  <2> DEFINE name == PluginName[l]
  <2>1. name \in Words /\ l # NULL
    BY WordsAreStrings
  <2>2. \A w \in Words : plugins[w] = l => w = name
    BY <2>1 DEF LoaderOK
  <2>3. opened[l] = IF plugins[name] = l THEN 1 ELSE 0
    BY DEF LoaderOK
  <2>4. CASE plugins[name] = l
    <3>1. {w \in Words : plugins[w] = l} = {name}
      BY <2>1, <2>2, <2>4
    <3> QED
      BY <2>3, <2>4, <3>1, FS_Singleton
  <2>5. CASE plugins[name] # l
    <3>1. {w \in Words : plugins[w] = l} = {}
      BY <2>2, <2>5
    <3> QED
      BY <2>3, <2>5, <3>1, FS_EmptySet
  <2> QED
    BY <2>4, <2>5
<1> QED
  BY <1>1, StartupInvariant, PTL

(* The one open log file is the last one that could be opened.             *)
THEOREM OneLogFile == Spec => []LogIsOpen
<1>1. StartupInv => LogIsOpen
  BY DEF StartupInv, AppInv, LogOK
<1> QED
  BY <1>1, StartupInvariant, PTL

(* The pid file names the process that serves, for process numbers of any  *)
(* length, unless the end of a longer number remained in it.               *)
THEOREM PidFileCorrect == Spec => []PidFileNamesServer
<1>1. StartupInv => PidFileNamesServer
  BY DEF StartupInv, MainInv
<1> QED
  BY <1>1, StartupInvariant, PTL

(* When main begins to serve, it has executed every command that the       *)
(* configuration file and the chain of files it includes declare, each     *)
(* once and in order, however long the files and the chain are, as long as *)
(* no file includes two, all lines end and fgets takes each in one piece:  *)
(* it does not if there are 254 characters or more.                        *)
THEOREM ConfigIsExecuted == Spec => []ConfigExecuted
<1>1. MainInv /\ ConfigInv => ConfigExecuted
  <2> SUFFICES ASSUME MainInv, ConfigInv, ConfigFile # NULL, AsItLooks,
                      phase \in {"daemon", "pid", "serve"}, NEW f \in Glob[ConfigFile]
               PROVE  OnlyCommands(executed) = Declared[Cardinality(Files)][f]
    BY DEF ConfigExecuted, AsItLooks
  <2> DEFINE N == Cardinality(Files)
  <2>1. rest = <<>> /\ commands = <<>> /\ config_file = NULL
    BY DEF ConfigInv
  <2>2. PICK chain : Chained(chain)
    BY DEF ConfigInv
  <2>3. Unread = {}
    BY <2>1, IncludesOK DEF Unread, Patterns
  <2>4. Len(chain) <= N
    BY <2>2, <2>3, NoneTwice
  <2>5. /\ Len(chain) \in Nat /\ N \in Nat /\ N - Len(chain) \in Nat
        /\ (N - Len(chain)) + Len(chain) = N /\ N <= N
    <3>1. Len(chain) \in Nat /\ N \in Nat
      BY <2>2, DeclaredIs DEF Chained
    <3> HIDE DEF N
    <3> QED
      BY <2>4, <3>1
  <2>6. Declared[N][f] =
          AllRead(executed, commands, rest) \o Of(Declared[N - Len(chain)], {})
    <3>1. Declared[(N - Len(chain)) + Len(chain)][f] =
            AllRead(executed, commands, rest) \o Of(Declared[N - Len(chain)], Unread)
      BY <2>2, <2>5 DEF Chained
    <3> QED
      BY <2>3, <2>5, <3>1
  <2>7. executed \in Seq(SomeLine) /\ OnlyCommands(executed) \in Seq(SomeLine)
    <3>1. executed \in Seq(SomeLine)
      BY DEF MainInv, SomeLine
    <3> QED
      BY <3>1, OnlyCommandsConcat
  <2>8. AllRead(executed, commands, rest) = OnlyCommands(executed)
    <3>1. OnlyCommands(<<>>) = <<>>
      BY OnlyCommandsOne
    <3>2. AllRead(executed, commands, rest) = (OnlyCommands(executed) \o <<>>) \o <<>>
      BY <2>1, <3>1 DEF AllRead
    <3> QED
      BY <2>7, <3>2, ConcatEmptySeq
  <2>9. Of(Declared[N - Len(chain)], {}) = <<>>
    BY OfOK
  <2> QED
    BY <2>6, <2>7, <2>8, <2>9, ConcatEmptySeq
<1> QED
  BY <1>1, ConfigInvariant, PTL
=============================================================================
