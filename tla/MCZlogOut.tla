----------------------------- MODULE MCZlogOut -----------------------------
(***************************************************************************)
(* The parts of zlog behind a rule, which share no state: the rotated file *)
(* (ZlogFile), the plain file (ZlogSingle), the text of a message          *)
(* (ZlogFormat), the rule and the levels (ZlogRule), the configuration     *)
(* file (ZlogConf) and the hash table (ZcHashtable).  A behaviour is one   *)
(* of one part; the others rest.                                           *)
(***************************************************************************)
EXTENDS ZlogFile, ZlogSingle, ZlogFormat, ZlogRule, ZlogConf, ZcHashtable

VARIABLE which
outVars == <<which, fileVars, singleVars, fmtVars, ruleVars, confVars, hashVars>>

\* Rotated file: rolling and sequence, with and without a limit, a stray file
\* that matches the pattern, threads of one process and of two.
TwoThreads == {1, 2}
FileConf(r, c, s, p) == [rolling |-> r, count |-> c, stray |-> s, proc |-> p]
AllRules == {FileConf(k[1], k[2], s, p) :
               k \in {<<TRUE, 2>>, <<TRUE, 0>>, <<FALSE, 1>>, <<FALSE, 0>>},
               s \in BOOLEAN, p \in {<<1, 1>>, <<1, 2>>}}

\* Formats: the time cached under two formats, widths, cuts and a hex dump.
Conv(w) == [w |-> w, min |-> 0, max |-> 0, left |-> FALSE, zero |-> FALSE, cache |-> 0,
            fmt |-> 0, str |-> <<>>]
TimeAs(f) == [Conv("time") EXCEPT !.fmt = f]
Wide(s, min, max, left, zero) == [s EXCEPT !.min = min, !.max = max, !.left = left, !.zero = zero]
Const(str) == [Conv("str") EXCEPT !.str = str]
Pats == { <<TimeAs(1), Const(<<7, 7>>), Conv("msg"), TimeAs(2), TimeAs(1)>>,
          <<Wide(Conv("line"), 3, 0, FALSE, TRUE), Conv("pid"), Wide(TimeAs(1), 2, 0, TRUE, FALSE), Conv("ms")>>,
          <<Wide(Conv("msg"), 2, 4, FALSE, FALSE), Wide(Conv("msg"), 3, 0, TRUE, TRUE)>>,
          <<Conv("file"), Conv("pid"), Conv("msg"), Wide(Conv("mdc"), 3, 0, FALSE, FALSE), Conv("pid")>> }
Msg(line, text, hex, file) == [line |-> line, text |-> text, hex |-> hex, file |-> file, mdc |-> file]
Msgs == { Msg(5, <<8>>, FALSE, <<6>>), Msg(12, <<8, 9, 8, 9, 8, 9, 8, 9, 8, 9, 8, 9>>, FALSE, <<>>),
          Msg(3, <<26, 200>>, TRUE, <<6>>), Msg(0, <<>>, TRUE, <<6>>),
          Msg(1, <<8, 9, 8, 9, 8, 9, 8, 9, 8, 9, 8, 9, 8, 9, 8, 9>>, FALSE, <<>>) }
Trunc == <<Dot, Dot, Newline>>

\* Rules: every kind of output, level test and category, and lines refused.
Cats == UNION {[1..n -> {"a", "b", "_"}] : n \in 1..3}
Line == [catOk |-> TRUE, formatKnown |-> TRUE, out |-> "stdout", path |-> "ok", dynamic |-> FALSE,
         archive |-> "none", size |-> 0, unit |-> "", category |-> <<"*">>, cmp |-> "*",
         level |-> "*"]
SomeLines ==
  {[Line EXCEPT !.out = o, !.dynamic = d, !.size = n, !.unit = "MB"] :
     o \in {"file", "sync", "pipe", "record"}, d \in BOOLEAN, n \in {0, 2}}
  \cup {[Line EXCEPT !.cmp = c, !.level = l] :
     c \in {".", "=", "!"}, l \in {"*", "debug", "user", "fatal", "nosuch", "!"}}
  \cup {[Line EXCEPT !.category = c] : c \in {<<"a">>, <<"a", "_">>, <<"a", "b", "_">>, <<"_">>, <<"!">>}}
  \cup {[Line EXCEPT !.catOk = FALSE], [Line EXCEPT !.formatKnown = FALSE], [Line EXCEPT !.out = "wrong"],
        [Line EXCEPT !.out = "file", !.archive = "nonumber"], [Line EXCEPT !.path = "broken"]}

\* Configuration files: some options, continued or not, a level, a format, rules that
\* name it or one that is missing, sections in and out of order.
Sec(name) == <<"[", name, "]">>
Opt(name, v) == name \o <<" ", "=", " ", v>>
Strict == <<"strict", " ", "init">>
Reload == <<"reload", " ", "conf", " ", "period">>
SyncPeriod == <<"fsync", " ", "period">>
Quoted == <<Quote, "m", "#", Quote>>
FmtLine(name) == <<name, " ", "=", " ">> \o Quoted
RuleLine(fmt) == <<"a.b", " ", "out", ";", fmt>>
Globals ==
  {<<Opt(Strict, s), Opt(Reload, r), Opt(SyncPeriod, "5")>> : s \in {"false", "true"}, r \in {"5", "10"}}
  \cup {<<Opt(SyncPeriod, "10"), <<" ", "#", "x">>, Opt(Reload, "5"), Opt(Strict, "false")>>,
        <<Strict \o <<" ", "=", "\\">>, <<>>, <<" ", "#", "x", "\\">>, <<" ", "false", "#", "x">>, Opt(SyncPeriod, "5")>>,
        <<Strict \o <<"\\">>, <<"x", "=", "false">>>>,
        <<Opt(<<"buffer", " ", "min">>, "5"), Opt(<<"buffer", " ", "max">>, "10"), Opt(<<"file", " ", "perms">>, "5")>>,
        <<Opt(<<"rotate", " ", "lock", " ", "file">>, "self"), Opt(<<"rotate", " ", "lock">>, "x")>>,
        <<<<"default", " ", "format", "=", " ">> \o Quoted, <<"strict", " ", "init">>>>,
        <<Opt(<<"default", " ", "format">>, "x")>>,
        <<<<"#", "x">>, <<"strict", "x", "\\">>>>,
        <<Opt(Strict, "false"), Opt(<<"nosuch">>, "5"), <<"x", "#", "\\">>, <<"y", " ", "=">>, <<"x", "y", "=", "z">>>>}
Levels1 == {<<>>, <<Sec("levels"), Opt(<<"user">>, "10")>>, <<Sec("levels"), Opt(<<"user">>, "x")>>}
Formats1 == {<<>>, <<Sec("formats"), FmtLine("f")>>, <<Sec("formats"), FmtLine("f"), FmtLine("g"), Opt(<<"h">>, "x")>>}
Rules1 == {<<Sec("rules"), RuleLine("f"), <<"a.b">>>>,
           <<Sec("rules"), <<"a.b", " ", "out">>, RuleLine("g"), <<"a.b", " ", "out", " ", "\\">>, <<";", "g">>>>,
           <<Sec("rules"), Sec("rules"), RuleLine("f")>>, <<Sec("rules"), <<"a.b", " ", "out", "\\">>>>,
           <<Sec("rules"), <<"a.b", " ", "out">>, Sec("global")>>, <<Sec("nosuch")>>}
LaxGlobals == <<Opt(Strict, "false"), Opt(Reload, "10"), Opt(SyncPeriod, "5")>>
SomeFiles ==
  {<<Sec("global")>> \o g \o <<Sec("formats"), FmtLine("f")>> \o r : g \in Globals, r \in Rules1}
  \cup {<<Sec("global")>> \o LaxGlobals \o l \o f \o r : l \in Levels1, f \in Formats1, r \in Rules1}
  \cup {l \o f \o <<Sec("rules"), RuleLine("g")>> : l \in Levels1, f \in Formats1}
  \cup {<<>>, <<RuleLine("f")>>,
        <<Sec("rules"), <<"a", " ", "b", "c", "d", "e", "f", "g", "h", "i", "\\">>, <<"j">>>>}
Sizes == (<<"5">> :> 5) @@ (<<"10">> :> 10)

\* Five keys in a table of two buckets, which grows twice.
FiveKeys == 1..5
FiveHashes == <<0, 2, 4, 3, 6>>

OutInit ==
  /\ which \in {"file", "single", "fmt", "rule", "conf", "hash"}
  /\ FileInit /\ (which # "file" => conf = FileConf(TRUE, 0, FALSE, <<1, 1>>))
  /\ SingleInit /\ (which # "single" => replaces = FALSE)
  /\ FmtInit
  /\ which # "fmt" => pattern = SpecsNew(<<TimeAs(1), Const(<<7, 7>>), Conv("msg"), TimeAs(2), TimeAs(1)>>)
  /\ RuleInit /\ HashInit
  /\ IF which = "conf" THEN ConfInit ELSE ConfInit /\ cfFile = <<>> /\ ~ cfStrictEnv

OutNext ==
  /\ UNCHANGED which
  /\ \/ which = "file" /\ FileNext /\ UNCHANGED <<singleVars, fmtVars, ruleVars, confVars, hashVars>>
     \/ which = "single" /\ SingleNext /\ UNCHANGED <<fileVars, fmtVars, ruleVars, confVars, hashVars>>
     \/ which = "fmt" /\ FmtNext /\ UNCHANGED <<fileVars, singleVars, ruleVars, confVars, hashVars>>
     \/ which = "rule" /\ RuleNext /\ UNCHANGED <<fileVars, singleVars, fmtVars, confVars, hashVars>>
     \/ which = "conf" /\ ConfNext /\ UNCHANGED <<fileVars, singleVars, fmtVars, ruleVars, hashVars>>
     \/ which = "hash" /\ HashNext /\ UNCHANGED <<fileVars, singleVars, fmtVars, ruleVars, confVars>>

OutSpec == OutInit /\ [][OutNext]_outVars
=============================================================================
