------------------------------ MODULE Commands -------------------------------
(***************************************************************************)
(* The commands of app.c and the plugins of loader.c.  Execute(line) is    *)
(* bitu_app_exec_command: the application's own commands first, then a     *)
(* plugin that matches the line, then a plugin named like the line.  Only  *)
(* one thread executes commands at a time: main before it starts the       *)
(* consumer, and the consumer inside the queue's critical section.         *)
(*                                                                         *)
(* A line is the sequence of its words, without blanks around it; an       *)
(* answer is a set of words or NULL.                                       *)
(* Left out: what `transport' does (see TransportManager), and the level   *)
(* and the colours of the loggers.  The tables are functions, as           *)
(* Dictionary describes them.                                              *)
(***************************************************************************)
EXTENDS Naturals, SequencesExt

CONSTANTS Lines,       \* the lines given, each a sequence of words
          Libs,        \* the x for which there is a lib<x>.so
          PluginName,  \* what the plugin_name of each returns
          Incomplete,  \* those without plugin_name or plugin_execute
          Matches,     \* the lines plugin_match accepts; none without one
          MallocFails, \* TRUE if malloc may return NULL
          NULL

ASSUME CommandsAssumption ==
         /\ Lines \subseteq Seq(STRING) \ {<<>>}
         /\ Incomplete \subseteq Libs
         /\ PluginName \in [Libs -> STRING]
         /\ Matches \in [Libs -> SUBSET Lines]
         /\ MallocFails \in BOOLEAN
         /\ NULL \notin Libs \cup STRING

(* _register_commands *)
BuiltIns == {"help", "set", "get", "unset", "env", "transport", "load", "unload",
             "send", "list", "set-log-file", "set-log-level", "set-log-use-colors"}

(* _validate_num_params and _validate_min_num_params *)
NumParams == [name \in {"set", "get", "unset", "env", "load", "unload", "list",
                        "set-log-file", "set-log-use-colors"} |->
                CASE name = "set" -> 2 [] name = "env" -> 0 [] OTHER -> 1]
MinNumParams == [name \in {"transport", "set-log-level"} |-> 1]

Words == (UNION {ToSet(line) : line \in Lines}) \cup {PluginName[l] : l \in Libs}

VARIABLES
  environment,  \* the value of each variable, or NULL
  plugins,      \* plugin_ctx->plugins: the library of each plugin, or NULL
  opened,       \* how often each library is open, as dlopen counts
  logfile,      \* app->logfile and logfd: the log file, or NULL
  files,        \* open descriptors of each file
  last          \* the last answer, and who gave it: [by, answer]

appVars == <<environment, plugins, opened, logfile, files, last>>

AppInit == /\ environment = [w \in Words |-> NULL]
           /\ plugins = [w \in Words |-> NULL]
           /\ opened = [l \in Libs |-> 0]
           /\ logfile = NULL
           /\ files = [w \in Words |-> 0]
           /\ last = [by |-> NULL, answer |-> NULL]

Answer(by, answer) == last' = [by |-> by, answer |-> answer]
SameTables == UNCHANGED <<environment, plugins, opened, logfile, files>>
Names(table) == {w \in Words : table[w] # NULL}
Listing(words) == IF words = {} THEN NULL ELSE words

-----------------------------------------------------------------------------
(* loader.c.  dlopen and dlclose count; the code of a library is there     *)
(* while its count is positive.                                            *)

Open(o, lib) == [o EXCEPT ![lib] = @ + 1]
Close(o, lib) == IF lib = NULL THEN o ELSE [o EXCEPT ![lib] = @ - 1]

CtxLoadKeepingIncomplete(lib) ==   \* a bug: free instead of bitu_plugin_free
  LET name == PluginName[lib]
  IN IF lib \in Incomplete
       THEN /\ opened' = Open(opened, lib)
            /\ UNCHANGED plugins
       ELSE /\ opened' = Close(Open(opened, lib), plugins[name])
            /\ plugins' = [plugins EXCEPT ![name] = lib]

CtxLoadKeepingOld(lib) ==   \* a bug: the replaced plugin is not freed
  LET name == PluginName[lib]
  IN /\ lib \notin Incomplete /\ plugins[name] # lib
     /\ opened' = Open(opened, lib)
     /\ plugins' = [plugins EXCEPT ![name] = lib]

(* bitu_plugin_load and hashtable_set, which frees the plugin that had the *)
(* name, and fails after that if it does.                                  *)
CtxLoad(lib) ==
  LET name == PluginName[lib]
      replaced == Close(Open(opened, lib), plugins[name])
  IN \/ /\ lib \in Incomplete
        /\ opened' = Close(Open(opened, lib), lib)
        /\ UNCHANGED plugins
     \/ /\ lib \notin Incomplete
        /\ opened' = replaced
        /\ plugins' = [plugins EXCEPT ![name] = lib]
     \/ /\ lib \notin Incomplete /\ MallocFails
        /\ opened' = Close(replaced, lib)
        /\ plugins' = [plugins EXCEPT ![name] = NULL]

(* The loaded plugins one of which bitu_plugin_ctx_find_for_cmdline        *)
(* returns: the first match in the order of the hash table, or the one     *)
(* that has the whole line for its name.                                   *)
FindForCmdline(line) ==
  LET matching == {w \in Names(plugins) : line \in Matches[plugins[w]]}
      named == {w \in Names(plugins) : line = <<w>>}
  IN IF matching # {} THEN matching ELSE named

-----------------------------------------------------------------------------
(* app.c, one action per command.                                          *)

BadParams(line) ==
  \/ line[1] \in DOMAIN NumParams /\ Len(line) # NumParams[line[1]] + 1
  \/ line[1] \in DOMAIN MinNumParams /\ Len(line) < MinNumParams[line[1]] + 1

CmdUsage(line) == /\ line[1] \in BuiltIns /\ BadParams(line)
                  /\ Answer("app", {"usage"})
                  /\ SameTables

Cmd(line, name) == line[1] = name /\ ~BadParams(line)

(* hashtable_set deletes the old value even if it fails. *)
CmdSet(line) == /\ Cmd(line, "set")
                /\ \/ environment' = [environment EXCEPT ![line[2]] = line[3]]
                   \/ MallocFails /\ environment' = [environment EXCEPT ![line[2]] = NULL]
                /\ Answer("app", NULL)
                /\ UNCHANGED <<plugins, opened, logfile, files>>

CmdUnset(line) == /\ Cmd(line, "unset")
                  /\ environment' = [environment EXCEPT ![line[2]] = NULL]
                  /\ Answer("app", NULL)
                  /\ UNCHANGED <<plugins, opened, logfile, files>>

(* get, env, list and help only look. *)
CmdShow(line) ==
  /\ \/ /\ Cmd(line, "get")
        /\ LET val == environment[line[2]]
           IN Answer("app", IF val = NULL THEN NULL ELSE {val})
     \/ Cmd(line, "env") /\ Answer("app", Listing(Names(environment)))
     \/ /\ Cmd(line, "list")
        /\ Answer("app", CASE line[2] = "plugins" -> Listing(Names(plugins))
                                 [] line[2] = "commands" -> BuiltIns
                                 [] OTHER -> {"values"})
     \/ Cmd(line, "help") /\ Answer("app", {"help"})
  /\ SameTables

(* Loaded by the name of the library, unloaded by that of the plugin.      *)
CmdLoad(line) ==
  /\ Cmd(line, "load")
  /\ \/ /\ line[2] \in Libs
        /\ CtxLoad(line[2])
        /\ Answer("app", IF plugins'[PluginName[line[2]]] = line[2]
                                  /\ line[2] \notin Incomplete
                                 THEN NULL ELSE {"failed"})
     \/ /\ line[2] \notin Libs
        /\ Answer("app", {"failed"})
        /\ UNCHANGED <<plugins, opened>>
     \/ /\ MallocFails
        /\ Answer("app", NULL)
        /\ UNCHANGED <<plugins, opened>>
  /\ UNCHANGED <<environment, logfile, files>>

CmdUnload(line) ==
  /\ Cmd(line, "unload")
  /\ Answer("app", IF plugins[line[2]] = NULL THEN {"failed"} ELSE NULL)
  /\ opened' = Close(opened, plugins[line[2]])
  /\ plugins' = [plugins EXCEPT ![line[2]] = NULL]
  /\ UNCHANGED <<environment, logfile, files>>

CmdSetLogFileClosingFirst(line) ==   \* a bug: the old file is closed before open
  /\ Cmd(line, "set-log-file")
  /\ LET closed == IF logfile = NULL THEN files ELSE [files EXCEPT ![logfile] = @ - 1]
     IN \/ /\ files' = [closed EXCEPT ![line[2]] = @ + 1]
           /\ logfile' = line[2]
           /\ Answer("app", NULL)
        \/ /\ files' = closed
           /\ UNCHANGED logfile
           /\ Answer("app", {"failed"})
  /\ UNCHANGED <<environment, plugins, opened>>

(* The file is opened first; the old one is closed if that succeeded.      *)
CmdSetLogFile(line) ==
  /\ Cmd(line, "set-log-file")
  /\ \/ /\ LET both == [files EXCEPT ![line[2]] = @ + 1]
           IN files' = IF logfile = NULL THEN both ELSE [both EXCEPT ![logfile] = @ - 1]
        /\ logfile' = line[2]
        /\ Answer("app", NULL)
     \/ /\ UNCHANGED <<files, logfile>>
        /\ Answer("app", {"failed"})
  /\ UNCHANGED <<environment, plugins, opened>>

(* The others change nothing that is modelled here. *)
CmdOther(line) ==
  /\ \/ \E name \in {"send", "set-log-level", "set-log-use-colors"} :
          Cmd(line, name) /\ Answer("app", NULL)
     \/ Cmd(line, "transport") /\ \E a \in {NULL, {"status"}} : Answer("app", a)
  /\ SameTables

BuiltIn(line) == \/ CmdUsage(line) \/ CmdSet(line) \/ CmdUnset(line) \/ CmdShow(line)
                 \/ CmdLoad(line) \/ CmdUnload(line) \/ CmdSetLogFile(line)
                 \/ CmdOther(line)

(* What a plugin answers, if anything, is its own business. *)
ExecutePlugin(line) == /\ \E w \in FindForCmdline(line), a \in {NULL, {"text"}} :
                            Answer(plugins[w], a)
                       /\ SameTables

NoHandler(line) == /\ FindForCmdline(line) = {}
                   /\ Answer(NULL, {"no handler"})
                   /\ SameTables

Execute(line) == IF line[1] \in BuiltIns
                   THEN BuiltIn(line)
                   ELSE ExecutePlugin(line) \/ NoHandler(line)

-----------------------------------------------------------------------------
AppTypeOK == /\ environment \in [Words -> Words \cup {NULL}]
             /\ plugins \in [Words -> Libs \cup {NULL}]
             /\ opened \in [Libs -> 0..1]
             /\ logfile \in Words \cup {NULL}
             /\ files \in [Words -> 0..1]
             /\ last.by \in Libs \cup {"app", NULL}

(* A library is open once for the plugin that is loaded from it, and else  *)
(* not at all: however plugins replace each other, are incomplete or fail  *)
(* to load, no code goes away under a plugin and none stays behind         *)
(* (loader.c:57-92, 120-148).                                              *)
LibrariesOpen == \A l \in Libs :
                   opened[l] = Cardinality({w \in Words : plugins[w] = l})

(* Messages go to the last log file that could be opened, which is open,   *)
(* and no other is (app.c:621-647).                                        *)
LogIsOpen == \A f \in Words : files[f] = IF f = logfile THEN 1 ELSE 0
=============================================================================
