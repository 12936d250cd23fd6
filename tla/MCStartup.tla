------------------------------ MODULE MCStartup ------------------------------
(* Two plugins of one name, of which one matches everything, a library     *)
(* that is no plugin, and files that include one another: in a chain, two  *)
(* of them, by a pattern that matches two or none; with comments, blanks,  *)
(* a line that does not end and lines that are too long.                   *)
EXTENDS Startup

MCLines == {<<"set", "x", "v">>, <<"get", "x">>, <<"get">>, <<"unset", "x">>, <<"env">>,
            <<"load", "uptime">>, <<"load", "greedy">>, <<"load", "libuptime.so">>,
            <<"load", "broken">>, <<"unload", "uptime">>, <<"list", "plugins">>,
            <<"set-log-file", "a.log">>, <<"set-log-file", "b.log">>, <<"transport", "add", "x">>,
            <<"uptime">>, <<"uptime", "x">>, <<"hi">>,
            <<"pid-file", "a.pid">>, <<"pid-file", "b.pid">>,
            <<"include", "one">>, <<"include", "two">>, <<"include", "both">>,
            <<"include", "none">>, <<"include">>, <<"pid-file">>, <<"help">>}

MCLibs == {"uptime", "greedy", "broken"}
MCPluginName == [uptime |-> "uptime", greedy |-> "uptime", broken |-> "broken"]
MCMatches == [uptime |-> {}, greedy |-> MCLines, broken |-> {}]

MCFiles == {"main", "one", "two"}
MCGlob == [main |-> {"main"}, one |-> {"one"}, two |-> {"two"},
           both |-> {"one", "two"}, none |-> {}]

(* A long comment, a command of two pieces and one that just fills the     *)
(* first.                                                                  *)
MCPieces == LongComment :> <<Comment, <<"uptime", "x">>>>
            @@ <<"transport", "add", "x">> :> <<<<"uptime", "x">>, <<"hi">>>>
            @@ <<"set-log-file", "b.log">> :> <<<<"uptime", "x">>, Empty>>

MCShortened == <<"uptime", "x">> :> <<"uptime">> @@ Comment :> Comment

Ended(lines) == [lines |-> lines, ended |-> TRUE]
Unended(lines) == [lines |-> lines, ended |-> FALSE]

MCContents ==
  {[main |-> c[1], one |-> c[2], two |-> c[3]] : c \in {
     \* a chain of three
     <<Ended(<<<<"pid-file", "a.pid">>, <<"include", "one">>, <<"load", "uptime">>>>),
       Ended(<<<<"pid-file", "b.pid">>, Comment, <<"load", "greedy">>, <<"include", "two">>>>),
       Ended(<<<<"unload", "uptime">>, Empty, <<"set", "x", "v">>>>)>>,
     \* a chain that ends in a pattern without files
     <<Ended(<<<<"include", "one">>, <<"get">>>>),
       Ended(<<<<"set-log-file", "a.log">>, <<"include", "none">>>>),
       Ended(<<<<"help">>>>)>>,
     \* two includes in one file; a last line without an end
     <<Ended(<<<<"include", "one">>, <<"set", "x", "v">>, <<"include", "two">>>>),
       Ended(<<<<"load", "uptime">>>>),
       Unended(<<<<"pid-file", "a.pid">>, <<"load", "uptime">>, <<"uptime", "x">>>>)>>,
     \* a pattern with two files, of which one has a line of blanks
     <<Ended(<<<<"include", "both">>>>), Ended(<<<<"load", "greedy">>>>),
       Ended(<<<<"load", "uptime">>, Blanks>>)>>,
     \* lines that are too long, the last one without an end, too
     <<Ended(<<LongComment, <<"load", "uptime">>>>), Ended(<<>>), Ended(<<>>)>>,
     <<Ended(<<<<"transport", "add", "x">>, <<"include", "one">>>>),
       Unended(<<<<"load", "greedy">>, <<"set-log-file", "b.log">>>>), Ended(<<>>)>>,
     \* an include and a pid-file of nothing
     <<Ended(<<<<"load", "uptime">>, <<"include">>>>), Ended(<<>>), Ended(<<>>)>>,
     <<Ended(<<<<"pid-file">>>>), Ended(<<>>), Ended(<<>>)>>,
     \* nothing but comment
     <<Ended(<<<<"include", "two">>>>), Ended(<<<<"help">>>>), Ended(<<Comment>>)>>}}

MCPids == {<<7>>, <<4, 2>>, <<9, 8>>}
=============================================================================
