------------------------------- MODULE Policy -------------------------------
(***************************************************************************)
(* The policy engine of src/policy.rs and the pure helpers the front-ends  *)
(* share with it: host names, callers, blocklists, the verdict of a query, *)
(* relays and the daemon's own records.  Everything here is an operator;   *)
(* the loop that computes a verdict is module RuleScan, the front-ends     *)
(* that act on one are modules of their own.                               *)
(***************************************************************************)
EXTENDS Integers, Sequences, FiniteSets

CONSTANTS
  None,          \* Rust's Option::None, and "not yet" for a history
  Execute(_, _)  \* external: cel's Program::execute(program, ctx)

(***************************************************************************)
(* Host names.  A spelling of a name is its labels, whether any letter of  *)
(* it is in upper case, and the number of dots after the last label.       *)
(***************************************************************************)

Hostnames == [labels : Seq(STRING), upper : BOOLEAN, dots : Nat]

Spelling(labels, upper, dots) == [labels |-> labels, upper |-> upper, dots |-> dots]

\* The DNS root, spelled ".".
Root == Spelling(<<>>, FALSE, 1)

\* Mutant: one trailing dot is removed, not all of them.
canonical_hostname_one_dot(name) ==
  IF name.labels = <<>>
  THEN Root
  ELSE Spelling(name.labels, FALSE, IF name.dots = 0 THEN 0 ELSE name.dots - 1)

\* Lower case, all trailing dots removed; nothing left means the root.
canonical_hostname(name) ==
  IF name.labels = <<>>
  THEN Root
  ELSE Spelling(name.labels, FALSE, 0)

(***************************************************************************)
(* Blocklists: a set of names that match exactly and a set of names that   *)
(* match themselves and everything below them.                             *)
(***************************************************************************)

\* The name without its first i - 1 labels.
From(name, i) ==
  Spelling(SubSeq(name.labels, i, Len(name.labels)), name.upper, name.dots)

\* Mutant: only the first label is ever stripped.
ParentDomains_first_only(name) ==
  {From(name, i) : i \in {j \in 2 .. Len(name.labels) : j < 3}}

\* What is left of a name after stripping one leading label, two, ...; the
\* last strips eat into the trailing dots.
ParentDomains(name) ==
     {From(name, i) : i \in 2 .. Len(name.labels)}
\cup {Spelling(<<>>, name.upper, d) : d \in 0 .. name.dots - 1}

contains(blocklist, hostname) ==
  LET lower == Spelling(hostname.labels, FALSE, hostname.dots)
  IN  \/ lower \in blocklist.exact
      \/ ({lower} \cup ParentDomains(lower)) \cap blocklist.suffixes # {}

(***************************************************************************)
(* Callers.  What is unknown is shown to a rule as -1.                     *)
(***************************************************************************)

unknown == [uid |-> None, gid |-> None, pid |-> None]

OrMinusOne(field) == IF field = None THEN -1 ELSE field
uid_value(caller) == OrMinusOne(caller.uid)
gid_value(caller) == OrMinusOne(caller.gid)
pid_value(caller) == OrMinusOne(caller.pid)

(***************************************************************************)
(* Evaluation.  An engine is a sequence of rules [program, verdict], a     *)
(* function from list names to blocklists and a default verdict.           *)
(***************************************************************************)

Verdicts == {"Denied", "PassThrough", "Allowed"}

\* The context every rule of one evaluation sees.
RuleContext(engine, hostname, caller) ==
  LET name == canonical_hostname(hostname)
  IN  [hostname   |-> name,
       uid        |-> uid_value(caller),
       gid        |-> gid_value(caller),
       pid        |-> pid_value(caller),
       bl_results |-> [l \in DOMAIN engine.blocklists |->
                         contains(engine.blocklists[l], name)]]

\* blocked_by("list") inside a rule: a list nobody configured blocks nothing.
blocked_by(ctx, list) == list \in DOMAIN ctx.bl_results /\ ctx.bl_results[list]

\* Mutant: an evaluation error counts as a match.
Fires_on_error(rule, ctx) == Execute(rule.program, ctx) \in {"true", "error"}

\* A rule decides only by evaluating to the boolean true; false, a value of
\* another type and an evaluation error all leave it to the next rule.
Fires(rule, ctx) == Execute(rule.program, ctx) = "true"

RuleOutcome(rule) ==
  CASE rule.verdict = "Allow"       -> "Allowed"
    [] rule.verdict = "Deny"        -> "Denied"
    [] rule.verdict = "Passthrough" -> "PassThrough"

\* Mutant: the configured word is returned as it is.
DefaultOutcome_raw(engine) == engine.default_verdict

DefaultOutcome(engine) ==
  IF engine.default_verdict = "Deny" THEN "Denied" ELSE "PassThrough"

\* The rules of the engine that fire on a query.
FiringRules(engine, hostname, caller) ==
  {i \in 1 .. Len(engine.rules) :
     Fires(engine.rules[i], RuleContext(engine, hostname, caller))}

\* The verdict of the first rule that fires, else the default.
evaluate_for(engine, hostname, caller) ==
  LET firing == FiringRules(engine, hostname, caller)
  IN  IF firing = {}
      THEN DefaultOutcome(engine)
      ELSE RuleOutcome(engine.rules[CHOOSE i \in firing : \A j \in firing : i <= j])

(***************************************************************************)
(* Relays: the uids whose queries come from another front-end.             *)
(***************************************************************************)

RelayContains(relays, caller) == caller.uid # None /\ caller.uid \in relays

(***************************************************************************)
(* The daemon's own records: one name, compared byte for byte.             *)
(***************************************************************************)

LocalName == Spelling(<<"example", "local">>, FALSE, 0)

upstream_resolve(hostname) == IF hostname = LocalName THEN <<"v4">> ELSE <<>>
=============================================================================
