----------------------------- MODULE MCZlogEnv -----------------------------
EXTENDS ZlogEnv
CONSTANTS main, t2, none, mac, app, key, rec

\* Two files that parse and one that does not.  The first has a rule per
\* category, the second only one for mac and a waste bin for the rest.
MCContents == {"one", "two", "bad"}
MCParses == {"one", "two"}
Rule(cats, levels, wastebin, record) ==
  [cats |-> cats, levels |-> levels, wastebin |-> wastebin, record |-> record]
MCRuleOf == [c \in MCContents |->
  CASE c = "one" -> <<Rule({app}, {1}, FALSE, rec), Rule({mac}, {1, 2}, FALSE, 0)>>
    [] c = "two" -> <<Rule({}, {2}, TRUE, rec), Rule({mac}, {1}, FALSE, 0)>>
    [] OTHER -> <<>>]
MCPeriodOf == [c \in MCContents |-> IF c = "one" THEN 1 ELSE 0]
MCBufOf == [c \in MCContents |-> IF c = "one" THEN 1 ELSE 2]
=============================================================================
