------------------------------ MODULE ZlogConf ------------------------------
(***************************************************************************)
(* zlog_conf_new (third_part/zlog/src/conf.c): the configuration read line *)
(* by line from a file, or built without one.                              *)
(*                                                                         *)
(* A line is a sequence of atoms: " ", "#", "\\", the quote, "=", "[", "]" *)
(* ";" and words.  Two words that meet where a continued line is joined    *)
(* become one word, a sequence of two atoms.  Left out: physical lines     *)
(* longer than what is free of the buffer (fgets would split them) and     *)
(* exhausted memory.                                                       *)
(***************************************************************************)
EXTENDS Integers, Sequences, SequencesExt, FiniteSets

CONSTANTS ConfFiles,      \* the files considered: sequences of lines
          ByteSizeOf,     \* zc_parse_byte_size: word -> number, 0 for all others
          JoinMax         \* MAXLEN_CFG_LINE - 30: place of the last backslash obeyed

ASSUME ConfAssumption == JoinMax \in Nat /\ \A w \in DOMAIN ByteSizeOf : ByteSizeOf[w] \in Nat

VARIABLES cfState,        \* "new", "read", "ok" or "refused"
          cfFile,         \* the lines of the file
          cfLine,         \* number of lines read
          cfPend,         \* what stands in line before pline: the continued part
          cfSection, cf,  \* *section and *a_conf
          cfLive,         \* objects allocated and not freed
          cfStrictEnv,    \* the environment has ZLOG_STRICT_INIT
          cfParsed,       \* for the properties: the complete lines handed to parse_line
          cfIgnored       \* and how many of them had been parsed at the first bad one ignored

confVars == <<cfState, cfFile, cfLine, cfPend, cfSection, cf, cfLive, cfStrictEnv, cfParsed, cfIgnored>>

Quote == "\""
NotYet == -1

-----------------------------------------------------------------------------
\* Lines.
ConfTrim(s) ==
  LET keep == {i \in DOMAIN s : s[i] # " "} IN
  IF keep = {} THEN <<>>
  ELSE SubSeq(s, CHOOSE i \in keep : \A j \in keep : i <= j, CHOOSE i \in keep : \A j \in keep : i >= j)

\* A blank line or one that starts with # is passed over.
Skipped(s) == ~ (ConfTrim(s) # <<>> /\ Head(ConfTrim(s)) # "#")

\* The tail from a # outside quotation marks is cut off.
CutComment(s) ==
  LET quotes(i) == Cardinality({j \in 1..(i - 1) : s[j] = Quote})
      hash == {i \in DOMAIN s : s[i] = "#" /\ quotes(i) % 2 = 0} IN
  IF hash = {} THEN s ELSE SubSeq(s, 1, (CHOOSE i \in hash : \A j \in hash : i <= j) - 1)

\* The words of a line between the separators, as sscanf reads them.
WordsIn(s, seps) ==
  SelectSeq(FoldLeft(LAMBDA ws, a : IF a \in seps THEN Append(ws, <<>>)
                                    ELSE [ws EXCEPT ![Len(ws)] = Append(@, a)],
                     << <<>> >>, s),
            LAMBDA w : w # <<>>)

\* name = value: the words of the name, and the first word of the value.
OptionName(s) == WordsIn(SubSeq(s, 1, SelectInSeq(s, LAMBDA a : a = "=") - 1), {" "})
OptionValue(s) == WordsIn(SubSeq(s, SelectInSeq(s, LAMBDA a : a = "=") + 1, Len(s)), {" "})
OptionWhole(s) == "=" \in Range(s) /\ s[1] # "=" /\ OptionValue(s) # <<>>
Named(s, words) ==
  /\ Len(OptionName(s)) >= Len(words)
  /\ \A i \in DOMAIN words : OptionName(s)[i] = <<words[i]>>
SizeOf(w) == IF w \in DOMAIN ByteSizeOf THEN ByteSizeOf[w] ELSE 0

\* zlog_format_new on a line: a name, = and a quoted pattern.
FormatGood(s) ==
  /\ OptionWhole(s) /\ Len(OptionName(s)) = 1
  /\ Head(OptionValue(s)[1]) = Quote
  /\ Cardinality({i \in DOMAIN s : s[i] = Quote}) >= 2

\* zlog_level_list_set on a line: a name, = and a number of a byte.
LevelGood(s) ==
  /\ OptionWhole(s) /\ Len(OptionName(s)) = 1
  /\ OptionValue(s)[1] \in DOMAIN ByteSizeOf /\ SizeOf(OptionValue(s)[1]) <= 255

\* zlog_rule_new on a line: category and level, output, and the format if one is named
\* (ZlogRule has the rest).  RuleFormat is <<>> for the default format.
RuleParts(s) == WordsIn(s, {" ", ";"})
RuleFormat(s) == IF Len(RuleParts(s)) < 3 THEN <<>> ELSE RuleParts(s)[3]
RuleGood(s, formats) ==
  /\ Len(RuleParts(s)) >= 2
  /\ RuleFormat(s) # <<>> => RuleFormat(s) \in Range(formats)

-----------------------------------------------------------------------------
\* The defaults, and the objects a configuration points to: itself, the three lists,
\* their members, the rotater and the default format.
ConfDefaults ==
  [strict |-> TRUE, min |-> 1024, max |-> 2097152, perms |-> <<"600">>, lock |-> <<"file">>,
   defaultLine |-> <<"default", "=", Quote, "m", Quote>>, reload |-> 0, fsync |-> 0,
   rotater |-> FALSE, defaultFormat |-> FALSE, levels |-> {}, formats |-> <<>>, rules |-> <<>>]

Holds(c) ==
  4 + Len(c.formats) + Len(c.rules) + (IF c.rotater THEN 1 ELSE 0) + (IF c.defaultFormat THEN 1 ELSE 0)

RuleMade(c, format) == [format |-> format, fsync |-> c.fsync, perms |-> c.perms]

ConfInit ==
  /\ cfState = "new" /\ cfFile \in ConfFiles /\ cfLine = 0 /\ cfPend = <<>>
  /\ cfSection = 0 /\ cf = ConfDefaults /\ cfLive = 0
  /\ cfStrictEnv \in BOOLEAN /\ cfParsed = <<>> /\ cfIgnored = NotYet

\* zlog_conf_new with a path: the defaults are set and the lists made, then
\* zlog_conf_build_with_file opens the file; when it cannot, all is freed again.
ConfNew ==
  /\ cfState = "new"
  /\ \/ cfState' = "read" /\ cfLive' = Holds(cf)
     \/ cfState' = "refused" /\ cfLive' = 0
  /\ UNCHANGED <<cfFile, cfLine, cfPend, cfSection, cf, cfStrictEnv, cfParsed, cfIgnored>>

\* zlog_conf_build_without_file: the default format, a rotater and one rule.
BuildWithoutFile ==
  /\ cfState = "new"
  /\ cf' = [cf EXCEPT !.defaultFormat = TRUE, !.rotater = TRUE, !.lock = <<"tmp">>,
                      !.rules = <<RuleMade(cf, <<>>)>>]
  /\ cfLive' = Holds(cf) + 3
  /\ cfState' = "ok"
  /\ UNCHANGED <<cfFile, cfLine, cfPend, cfSection, cfStrictEnv, cfParsed, cfIgnored>>

-----------------------------------------------------------------------------
\* zlog_conf_build_with_file: the line just read behind the part kept, and whether its
\* backslash is obeyed; past the room for more it stays where it is, and the line ends.
Joined == cfPend \o ConfTrim(cfFile[cfLine + 1])
Continued ==
  /\ ~ Skipped(cfFile[cfLine + 1])
  /\ Last(Joined) = "\\" /\ Len(Joined) - 1 <= JoinMax

Reading == cfState = "read" /\ cfLine < Len(cfFile)

ReadSkipped_Ends ==
  /\ Reading /\ Skipped(cfFile[cfLine + 1])
  /\ cfLine' = cfLine + 1 /\ cfPend' = <<>>
  /\ UNCHANGED <<cfState, cfFile, cfSection, cf, cfLive, cfStrictEnv, cfParsed, cfIgnored>>

ReadSkipped ==
  /\ Reading /\ Skipped(cfFile[cfLine + 1])
  /\ cfLine' = cfLine + 1
  /\ UNCHANGED <<cfState, cfFile, cfPend, cfSection, cf, cfLive, cfStrictEnv, cfParsed, cfIgnored>>

ReadContinued ==
  /\ Reading /\ Continued
  /\ cfLine' = cfLine + 1
  /\ cfPend' = ConfTrim(Front(Joined))
  /\ UNCHANGED <<cfState, cfFile, cfSection, cf, cfLive, cfStrictEnv, cfParsed, cfIgnored>>

\* The complete line that the next physical line ends; pline goes back to the start.
Complete == CutComment(Joined)
ReadLine ==
  /\ Reading /\ ~ Skipped(cfFile[cfLine + 1]) /\ ~ Continued
  /\ cfLine' = cfLine + 1 /\ cfPend' = <<>>
  /\ cfParsed' = Append(cfParsed, Complete)
  /\ UNCHANGED <<cfFile, cfStrictEnv>>

\* zlog_conf_parse_line returns 0 with a new object or none.
Taken(made) == cfState' = "read" /\ cfLive' = cfLive + made

\* It returns -1: the reading ends and zlog_conf_del frees what *a_conf points to then.
Refuse(c, made) == cfState' = "refused" /\ cf' = c /\ cfLive' = cfLive + made - Holds(c)

\* A wrong line is passed over when strict init is off, else it refuses the file.
BadLine ==
  /\ \/ cf.strict /\ Refuse(cf, 0) /\ UNCHANGED cfIgnored
     \/ /\ ~ cf.strict /\ Taken(0) /\ UNCHANGED cf
        /\ cfIgnored' = IF cfIgnored = NotYet THEN Len(cfParsed) ELSE cfIgnored
  /\ UNCHANGED cfSection

\* [section]: known, and later than the last one.
Sections == <<"global", "levels", "formats", "rules">>
SectionName == WordsIn(Tail(Complete), {" ", "]"})[1]
SectionsIn == {i \in DOMAIN Sections : SectionName = <<Sections[i]>>}

SectionNext(last, new) == last < new

\* Before the rules: a period of fsync that no rule lives to see is switched off.
RulesPeriod_Above(c) == IF c.reload # 0 /\ c.fsync > c.reload THEN 0 ELSE c.fsync
RulesPeriod(c) == IF c.reload # 0 /\ c.fsync >= c.reload THEN 0 ELSE c.fsync

\* The rotater (which may fail) and the default format are then built for the rules.
ParseSection ==
  /\ ReadLine /\ Head(Complete) = "["
  /\ UNCHANGED cfIgnored
  /\ \/ /\ \A i \in SectionsIn : ~ SectionNext(cfSection, i)
        /\ Refuse(cf, 0) /\ UNCHANGED cfSection
     \/ \E i \in SectionsIn \ {4} :
          /\ SectionNext(cfSection, i)
          /\ cfSection' = i /\ Taken(0) /\ UNCHANGED cf
     \/ /\ 4 \in SectionsIn /\ SectionNext(cfSection, 4)
        /\ cfSection' = 4
        /\ LET c == [cf EXCEPT !.fsync = RulesPeriod(cf)]
               r == [c EXCEPT !.rotater = TRUE] IN
           \/ Refuse(c, 0)
           \/ ~ FormatGood(cf.defaultLine) /\ Refuse(r, 1)
           \/ /\ FormatGood(cf.defaultLine)
              /\ cf' = [r EXCEPT !.defaultFormat = TRUE] /\ Taken(2)

\* strict init = false counts unless ZLOG_STRICT_INIT is set.
StrictGiven(v) == v # <<"false">> \/ cfStrictEnv

\* A global option, whose last value counts.
OptionSet(s) ==
  LET v == OptionValue(s)[1] IN
  CASE Named(s, <<"strict", "init">>) -> {[cf EXCEPT !.strict = StrictGiven(v)]}
    [] Named(s, <<"buffer", "min">>) -> {[cf EXCEPT !.min = SizeOf(v)]}
    [] Named(s, <<"buffer", "max">>) -> {[cf EXCEPT !.max = SizeOf(v)]}
    [] Named(s, <<"file", "perms">>) -> {[cf EXCEPT !.perms = v]}
    [] Named(s, <<"rotate", "lock", "file">>) ->
         {[cf EXCEPT !.lock = IF v = <<"self">> THEN <<"file">> ELSE v]}
    [] Named(s, <<"default", "format">>) ->
         {[cf EXCEPT !.defaultLine = SubSeq(s, 1 + SelectInSeq(s, LAMBDA a : a = " "), Len(s))]}
    [] Named(s, <<"reload", "conf", "period">>) -> {[cf EXCEPT !.reload = SizeOf(v)]}
    [] Named(s, <<"fsync", "period">>) -> {[cf EXCEPT !.fsync = SizeOf(v)]}
    [] OTHER -> {}

InSection(n) == ReadLine /\ cfSection = n /\ Head(Complete) # "["

\* A line of [global] without a name or a value refuses the file, strict or not.
ParseGlobal ==
  /\ InSection(1)
  /\ \/ /\ ~ OptionWhole(Complete)
        /\ Refuse(cf, 0) /\ UNCHANGED <<cfSection, cfIgnored>>
     \/ /\ OptionWhole(Complete) /\ OptionSet(Complete) # {}
        /\ cf' \in OptionSet(Complete) /\ Taken(0) /\ UNCHANGED <<cfSection, cfIgnored>>
     \/ OptionWhole(Complete) /\ OptionSet(Complete) = {} /\ BadLine

ParseLevel ==
  /\ InSection(2)
  /\ \/ /\ LevelGood(Complete)
        /\ cf' = [cf EXCEPT !.levels = @ \cup {SizeOf(OptionValue(Complete)[1])}]
        /\ Taken(0) /\ UNCHANGED <<cfSection, cfIgnored>>
     \/ ~ LevelGood(Complete) /\ BadLine

ParseFormat ==
  /\ InSection(3)
  /\ \/ /\ FormatGood(Complete)
        /\ cf' = [cf EXCEPT !.formats = Append(@, OptionName(Complete)[1])]
        /\ Taken(1) /\ UNCHANGED <<cfSection, cfIgnored>>
     \/ ~ FormatGood(Complete) /\ BadLine

ParseRule ==
  /\ InSection(4)
  /\ \/ /\ RuleGood(Complete, cf.formats)
        /\ cf' = [cf EXCEPT !.rules = Append(@, RuleMade(cf, RuleFormat(Complete)))]
        /\ Taken(1) /\ UNCHANGED <<cfSection, cfIgnored>>
     \/ ~ RuleGood(Complete, cf.formats) /\ BadLine

ParseOutside == InSection(0) /\ Refuse(cf, 0) /\ UNCHANGED <<cfSection, cfIgnored>>

\* The end of the file: a continued line that nothing follows is forgotten.
ReadEnd ==
  /\ cfState = "read" /\ cfLine = Len(cfFile)
  /\ cfState' = "ok"
  /\ UNCHANGED <<cfFile, cfLine, cfPend, cfSection, cf, cfLive, cfStrictEnv, cfParsed, cfIgnored>>

ConfNext ==
  \/ ConfNew \/ BuildWithoutFile \/ ReadSkipped \/ ReadContinued
  \/ ParseSection \/ ParseGlobal \/ ParseLevel \/ ParseFormat \/ ParseRule \/ ParseOutside
  \/ ReadEnd

ConfSpec == ConfInit /\ [][ConfNext]_confVars

-----------------------------------------------------------------------------
\* For LinesAsMeant: the lines of a file as its author continues them, tail comments still
\* there.  Blank lines and comments do not count; a line without a backslash ends one.
MeantLines ==
  LET proper == SelectSeq([i \in DOMAIN cfFile |-> ConfTrim(cfFile[i])], LAMBDA t : ~ Skipped(t))
      ends == {i \in DOMAIN proper : Last(proper[i]) # "\\"}
      first(e) == CHOOSE i \in 1..e : (i = 1 \/ i - 1 \in ends) /\ \A j \in i..(e - 1) : j \notin ends
      text(i) == IF i \in ends THEN proper[i] ELSE ConfTrim(Front(proper[i]))
      meant(e) == FlattenSeq([i \in 1..(e - first(e) + 1) |-> text(first(e) + i - 1)]) IN
  FoldLeft(LAMBDA ls, i : IF i \in ends THEN Append(ls, meant(i)) ELSE ls,
           <<>>, [i \in DOMAIN proper |-> i])

\* What is parsed is what the file says when its continued lines are put together by
\* hand, comments and blank lines between them left out: nothing of a line kept in the
\* buffer is lost, doubled or mixed with another line (zlog_conf_build_with_file).
LinesAsMeant ==
  cfState \in {"ok", "refused"} /\ cfLine > 0 =>
    LET meant == MeantLines
        lines == [i \in DOMAIN meant |-> CutComment(meant[i])] IN
    (\A i \in DOMAIN meant : Len(meant[i]) < JoinMax) =>
      IF cfState = "ok" THEN cfParsed = lines ELSE IsPrefix(cfParsed, lines)

\* A configuration accepted in spite of a wrong line had been told so before, by a line
\* that turned strict init off, and not against ZLOG_STRICT_INIT (zlog_conf_parse_line).
WrongLineRefused ==
  cfIgnored # NotYet =>
    /\ ~ cfStrictEnv
    /\ \E i \in 1..cfIgnored : Named(cfParsed[i], <<"strict", "init">>)

\* Whatever the order of the options, a rule that syncs its file does so before the next
\* reload replaces it, and it writes with the default format or one of the configuration.
RulesUsable ==
  cfState # "refused" =>
    \A i \in DOMAIN cf.rules :
      /\ cf.reload # 0 => cf.rules[i].fsync < cf.reload
      /\ cf.defaultFormat /\ cf.rotater
      /\ cf.rules[i].format = <<>> \/ cf.rules[i].format \in Range(cf.formats)

\* Every object made is one the configuration points to, so that zlog_conf_del leaves
\* nothing behind when a later line is refused.
NothingLeaks ==
  cfLive = IF cfState \in {"new", "refused"} THEN 0 ELSE Holds(cf)

\* A file in whatever order is either refused and freed whole, or gives rules that work;
\* a wrong line is passed over only after it was allowed to be (zlog_conf_parse_line).
ConfSound == WrongLineRefused /\ RulesUsable /\ NothingLeaks
=============================================================================
