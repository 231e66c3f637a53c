------------------------------ MODULE ZlogRule ------------------------------
(***************************************************************************)
(* The rules of a zlog configuration: the list of levels (level.c,         *)
(* level_list.c, on the growing array of zc_arraylist.c), and a line of    *)
(* the rules section turned into a rule (zlog_rule_new in rule.c), asked   *)
(* whether it matches a category and a level, and deleted.                 *)
(*                                                                         *)
(* A line is a record of what its scanning tells apart; a name is a        *)
(* sequence of characters.                                                 *)
(***************************************************************************)
EXTENDS Integers, Sequences, SequencesExt, FiniteSets, FiniteSetsExt

CONSTANTS UserLevels,     \* numbers given to levels in the configuration
          Lines,          \* rule lines considered
          Categories,     \* names of categories
          ArraySize,      \* ARRAY_LIST_DEFAULT_SIZE
          MaxLevels       \* bound: user levels of one configuration

ASSUME RuleAssumption ==
  /\ ArraySize \in Nat \ {0} /\ UserLevels \subseteq Int /\ MaxLevels \in Nat
  /\ Lines \subseteq [catOk : BOOLEAN, formatKnown : BOOLEAN, dynamic : BOOLEAN,
                      out : {"file", "sync", "pipe", "syslog", "stdout", "stderr", "record", "wrong"},
                      path : {"ok", "broken"}, archive : {"none", "numbered", "nonumber", "broken"},
                      size : Nat, unit : {"", "K", "KB", "M", "MB"},
                      category : Seq(STRING), cmp : {"*", ".", "=", "!"}, level : STRING]
  /\ \A line \in Lines : line.category # <<>>
  /\ Categories \subseteq Seq(STRING)

VARIABLES levels,         \* the level list: [arr |-> index -> name, size, len, past],
                          \* past when the array was written outside its allocation
          rule,           \* the rule, NoRule before and after its life
          fdsOf           \* descriptors and pipes the rule holds open

ruleVars == <<levels, rule, fdsOf>>

-----------------------------------------------------------------------------
\* zc_arraylist_set: the array grows to twice its size, or to the index.
Expanded(size, idx) == IF idx > size - 1 THEN Max({2 * size, idx}) ELSE size
ListSet(l, idx, v) ==
  [arr |-> [i \in DOMAIN l.arr \cup {idx} |-> IF i = idx THEN v ELSE l.arr[i]],
   size |-> Expanded(l.size, idx), len |-> Max({l.len, idx + 1}),
   past |-> l.past \/ idx >= Expanded(l.size, idx)]
ListNew == [arr |-> <<>>, size |-> ArraySize, len |-> 0, past |-> FALSE]
\* zc_arraylist_get: NULL for an empty slot.
ListGet(l, i) == IF i < l.len /\ i \in DOMAIN l.arr THEN l.arr[i] ELSE "null"

\* zlog_level_list_new: the levels every configuration has, in this order.
Defaults == << <<0, "*">>, <<20, "debug">>, <<40, "info">>, <<60, "notice">>, <<80, "warn">>,
               <<100, "error">>, <<120, "fatal">>, <<254, "unknown">>, <<255, "!">> >>
SetDefaults[i \in 0..Len(Defaults)] ==
  IF i = 0 THEN ListNew ELSE ListSet(SetDefaults[i - 1], Defaults[i][1], Defaults[i][2])
LevelListNew == SetDefaults[Len(Defaults)]

\* zlog_level_new refuses a number that is no byte.
LevelOk(n) == n \in 0..255
\* zlog_level_list_atoi and zlog_level_list_get.
LevelAtoi(name) ==
  LET at == {i \in DOMAIN levels.arr : levels.arr[i] = name}
  IN  IF at = {} THEN -1 ELSE Min(at)
LevelGet(n) == IF ListGet(levels, n) = "null" THEN ListGet(levels, 254) ELSE ListGet(levels, n)

-----------------------------------------------------------------------------
\* zlog_rule_new.  NoRule: the line is refused.
NoRule == [out |-> "none"]

\* C division and remainder round toward zero.
CDiv(a, b) == IF a >= 0 THEN a \div b ELSE -((-a) \div b)
CMod(a, b) == a - b * CDiv(a, b)
\* 1 << (7 - level % 8) and 0xFF << (8 - level % 8), the low byte of each.
Bit(level) == IF CMod(level, 8) < 0 THEN 0 ELSE 2^(7 - CMod(level, 8))
BelowMask(level) == IF CMod(level, 8) < 0 THEN 255 ELSE 2^(8 - CMod(level, 8)) - 1

\* level_bitmap: 32 bytes, the bit of each level that passes.
Bitmap_Above(cmp, level) ==
  LET byte == CDiv(level, 8)
  IN [b \in 0..31 |-> CASE cmp = "=" -> IF b = byte THEN Bit(level) ELSE 0
                        [] cmp = "!" -> IF b = byte THEN 255 - Bit(level) ELSE 255
                        [] cmp = "*" -> 255
                        [] cmp = "." -> IF b >= byte THEN 255 ELSE 0]
Bitmap(cmp, level) ==
  LET byte == CDiv(level, 8)
  IN [b \in 0..31 |-> CASE cmp = "=" -> IF b = byte THEN Bit(level) ELSE 0
                        [] cmp = "!" -> IF b = byte THEN 255 - Bit(level) ELSE 255
                        [] cmp = "*" -> 255
                        [] cmp = "." -> IF b = byte THEN BelowMask(level)
                                        ELSE IF b > byte THEN 255 ELSE 0]

\* zc_parse_byte_size, of a number and a suffix.
ByteSize(n, unit) ==
  CASE unit = "" -> n [] unit = "K" -> 1000 * n [] unit = "KB" -> 1024 * n
    [] unit = "M" -> 1000 * 1000 * n [] unit = "MB" -> 1024 * 1024 * n

\* The output function: by the first character, and for a file by whether its
\* path has conversions and whether the file has a limit.
OutputOf(line) ==
  CASE line.out \in {"file", "sync"} ->
         IF ByteSize(line.size, line.unit) <= 0
           THEN IF line.dynamic THEN "dynamic_file_single" ELSE "static_file_single"
           ELSE IF line.dynamic THEN "dynamic_file_rotate" ELSE "static_file_rotate"
    [] line.out = "record" -> IF line.dynamic THEN "dynamic_record" ELSE "static_record"
    [] line.out \in {"pipe", "syslog", "stdout", "stderr"} -> line.out

\* The line is refused before anything is opened: a character in the category,
\* an unknown format or output, a path without its closing quote, an archive
\* path without #r or #s.
Refused(line) ==
  \/ ~line.catOk \/ ~line.formatKnown \/ line.out = "wrong" \/ line.path = "broken"
  \/ line.out \in {"file", "sync"} /\ line.archive \in {"broken", "nonumber"}
Opens(line) == \/ line.out = "pipe"
               \/ line.out \in {"file", "sync"} /\ ~line.dynamic

\* What the rule holds once a static file or a pipe was opened.  A file that
\* is rotated is opened to see that it can be and for its inode, and closed.
Held(out) ==
  CASE out = "static_file_single" -> [static_fd |-> 3, pipe |-> FALSE, open |-> 1]
    [] out = "static_file_rotate" -> [static_fd |-> -1, pipe |-> FALSE, open |-> 0]
    [] out = "pipe" -> [static_fd |-> 0, pipe |-> TRUE, open |-> 1]
    [] OTHER -> [static_fd |-> 0, pipe |-> FALSE, open |-> 0]

RuleOf(line) ==
  [out |-> OutputOf(line), category |-> line.category, cmp |-> line.cmp,
   level |-> LevelAtoi(line.level), bitmap |-> Bitmap(line.cmp, LevelAtoi(line.level)),
   record |-> FALSE, static_fd |-> Held(OutputOf(line)).static_fd,
   pipe |-> Held(OutputOf(line)).pipe]

RuleInit ==
  /\ levels = LevelListNew
  /\ rule = NoRule /\ fdsOf = 0

\* A line of the levels section.
SetLevel(n) ==
  /\ rule.out = "none"
  /\ Cardinality(DOMAIN levels.arr) < Len(Defaults) + MaxLevels
  /\ levels' = IF LevelOk(n) THEN ListSet(levels, n, "user") ELSE levels
  /\ UNCHANGED <<rule, fdsOf>>

\* A line of the rules section; the open or the popen may fail.
New(line, opened) ==
  /\ rule.out = "none"
  /\ IF Refused(line) \/ (Opens(line) /\ ~opened)
       THEN UNCHANGED <<rule, fdsOf>>
       ELSE rule' = RuleOf(line) /\ fdsOf' = fdsOf + Held(OutputOf(line)).open
  /\ UNCHANGED levels

\* zlog_rule_set_record: the user's record function arrives.
RuleSetRecord ==
  /\ rule.out # "none"
  /\ rule' = [rule EXCEPT !.record = @ \/ rule.out \in {"static_record", "dynamic_record"}]
  /\ UNCHANGED <<levels, fdsOf>>

\* zlog_rule_del closes static_fd and pipe_fp where they are set.
Del ==
  /\ rule.out # "none"
  /\ fdsOf' = fdsOf - (IF rule.static_fd > 0 THEN 1 ELSE 0) - (IF rule.pipe THEN 1 ELSE 0)
  /\ rule' = NoRule
  /\ UNCHANGED levels

RuleNext == \/ \E n \in UserLevels : SetLevel(n)
            \/ \E line \in Lines, opened \in BOOLEAN : New(line, opened)
            \/ RuleSetRecord \/ Del

RuleSpec == RuleInit /\ [][RuleNext]_ruleVars

-----------------------------------------------------------------------------
\* zlog_rule_output: does a message of this level go out?
Outputs(r, level) ==
  CASE r.cmp = "*" -> TRUE [] r.cmp = "." -> level >= r.level
    [] r.cmp = "=" -> level = r.level [] r.cmp = "!" -> level # r.level

\* The bit that zlog_category_needless_level looks at.
BitSet(r, level) == (r.bitmap[level \div 8] \div 2^(7 - (level % 8))) % 2 = 1

\* zlog_rule_match_category.
StrNCmp(a, b, n) == \A i \in 1..n : (i <= Len(a) /\ i <= Len(b) /\ a[i] = b[i])
MatchCategory(r, cat) ==
  \/ r.category = <<"*">> \/ r.category = cat
  \/ LET len == Len(r.category)
     IN Last(r.category) = "_" /\ StrNCmp(r.category, cat, IF Len(cat) = len - 1 THEN len - 1 ELSE len)

-----------------------------------------------------------------------------
\* No level, of the defaults or of the configuration, is written past the end
\* of the list's array, which grows to twice its size or to the index
\* (zc_arraylist.c:65), and every number given to zlog has a level to print:
\* the one at 254, which stands in for a level that is not there, stays.
LevelsInArray == ~levels.past /\ LevelGet(254) # "null"

\* The bitmap that decides early whether a category needs a message agrees,
\* on each of the 256 levels, with the comparison made when it is output: no
\* message is dropped early that a rule would have written.
BitmapAgrees ==
  rule.out # "none" => \A level \in 0..255 : BitSet(rule, level) <=> Outputs(rule, level)

\* A rule matches what the comment at rule.c:1027 says: every category for
\* "*", the category itself, and for a name with a trailing "_" that name
\* without it and all that begin with it.
MatchesFamily ==
  rule.out # "none" => \A cat \in Categories :
    MatchCategory(rule, cat) <=>
      \/ rule.category = <<"*">>
      \/ cat = rule.category
      \/ Last(rule.category) = "_" /\ (cat = Front(rule.category) \/ IsPrefix(rule.category, cat))

\* A deleted or refused rule leaves no descriptor open.
NothingLeftOpen == rule.out = "none" => fdsOf = 0

\* A rule line means one thing wherever it is used: level list, bitmap, comparison and
\* category agree, and a rule that is gone or was refused holds nothing (zlog_rule_new).
RulesAgree == LevelsInArray /\ BitmapAgrees /\ MatchesFamily /\ NothingLeftOpen
=============================================================================
