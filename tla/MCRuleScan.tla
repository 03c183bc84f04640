----------------------------- MODULE MCRuleScan -----------------------------
(* RuleScan for TLC: every engine of up to MaxRules rules, every spelling   *)
(* of a few names, known and unknown callers.                              *)
EXTENDS RuleScan

CONSTANTS
  MaxRules,  \* bound: rules per engine
  MaxDots    \* bound: trailing dots of a spelling

MCExecute(program, c) ==
  LET Bool(b) == IF b THEN "true" ELSE "false"
  IN  CASE program = "always"       -> "true"
        [] program = "is root"      -> Bool(c.hostname = Root)
        [] program = "listed"       -> Bool(blocked_by(c, "ads"))
        [] program = "unknown list" -> Bool(blocked_by(c, "no such list"))
        [] program = "uid == 7"     -> Bool(c.uid = 7)
        [] program = "hostname"     -> "nonbool"
        [] program = "1 / (uid + 1)"-> IF c.uid = -1 THEN "error" ELSE "nonbool"

MCPrograms == {"always", "is root", "listed", "unknown list", "uid == 7", "hostname",
               "1 / (uid + 1)"}

Rule(p, v) == [program |-> p, verdict |-> v]

SomeRules == {Rule("always", "Passthrough"), Rule("is root", "Deny"), Rule("listed", "Deny"),
              Rule("unknown list", "Deny"), Rule("uid == 7", "Allow"),
              Rule("hostname", "Allow"), Rule("1 / (uid + 1)", "Deny")}

Name(labels) == Spelling(labels, FALSE, 0)

Ads == [exact    |-> {Name(<<"track", "test">>)},
        suffixes |-> {Name(<<"ads", "test">>)}]

MCEngines ==
  [rules           : UNION {[1 .. n -> SomeRules] : n \in 0 .. MaxRules},
   blocklists      : {[l \in {"ads"} |-> Ads]},
   default_verdict : {"Passthrough", "Deny"}]

MCHostnames ==
  [labels : {<<"ads", "test">>, <<"b", "a", "ads", "test">>, <<"track", "test">>,
             <<"a", "track", "test">>, <<"test">>},
   upper  : BOOLEAN,
   dots   : 0 .. MaxDots]
  \cup [labels : {<<>>}, upper : {FALSE}, dots : 1 .. MaxDots]

MCCallers == {unknown, [uid |-> 7, gid |-> 7, pid |-> 100]}

MCQueries == [hostname : MCHostnames, caller : MCCallers]
=============================================================================
