------------------------------ MODULE RuleScan ------------------------------
(***************************************************************************)
(* PolicyEngine::evaluate_for as the program runs it: the name is made     *)
(* canonical and the blocklists are consulted once, then the rules are     *)
(* tried one by one, each in a context of its own, until one evaluates to  *)
(* true.  The engine is shared and never changes; a query that has its     *)
(* verdict makes way for the next one.                                     *)
(***************************************************************************)
EXTENDS Policy

CONSTANTS
  Programs, \* compiled CEL expressions
  Engines,  \* the engines from_config may have built
  Queries   \* the queries the front-ends may put: [hostname, caller]

VARIABLES
  engine,   \* the engine behind the Arc
  query,    \* the query being evaluated
  ctx,      \* the context built for it, blocklist results included
  next,     \* the rule the loop is at
  verdict   \* None until the loop returns

vars == <<engine, query, ctx, next, verdict>>

Rules == [program : Programs, verdict : {"Allow", "Deny", "Passthrough"}]

ASSUME EnginesAssumption ==
  \A e \in Engines :
    /\ e.rules \in Seq(Rules)
    /\ e.default_verdict \in {"Passthrough", "Deny"}

ASSUME QueriesAssumption == \A q \in Queries : q.hostname \in Hostnames

ASSUME NoneAssumption == None \notin Verdicts

Init ==
  /\ engine \in Engines
  /\ query \in Queries
  /\ ctx = RuleContext(engine, query.hostname, query.caller)
  /\ next = 1
  /\ verdict = None

\* Mutant: a rule that fails to evaluate is tried again.
TryRule_retries ==
  /\ verdict = None
  /\ next <= Len(engine.rules)
  /\ IF Fires(engine.rules[next], ctx)
     THEN verdict' = RuleOutcome(engine.rules[next]) /\ next' = next
     ELSE /\ next' = IF Execute(engine.rules[next].program, ctx) = "error" THEN next ELSE next + 1
          /\ verdict' = None
  /\ UNCHANGED <<engine, query, ctx>>

\* One iteration: return the rule's verdict if it fires, else continue.
TryRule ==
  /\ verdict = None
  /\ next <= Len(engine.rules)
  /\ IF Fires(engine.rules[next], ctx)
     THEN verdict' = RuleOutcome(engine.rules[next]) /\ next' = next
     ELSE next' = next + 1 /\ verdict' = None
  /\ UNCHANGED <<engine, query, ctx>>

\* Mutant: the default is applied one rule too early.
ApplyDefault_early ==
  /\ verdict = None
  /\ next >= Len(engine.rules)
  /\ verdict' = DefaultOutcome(engine)
  /\ UNCHANGED <<engine, query, ctx, next>>

\* After the last rule.
ApplyDefault ==
  /\ verdict = None
  /\ next > Len(engine.rules)
  /\ verdict' = DefaultOutcome(engine)
  /\ UNCHANGED <<engine, query, ctx, next>>

\* The same engine is asked again.
NextQuery ==
  /\ verdict # None
  /\ query' \in Queries
  /\ ctx' = RuleContext(engine, query'.hostname, query'.caller)
  /\ next' = 1
  /\ verdict' = None
  /\ UNCHANGED engine

Next == TryRule \/ ApplyDefault \/ NextQuery

\* The loop has no await in it: once entered it runs to its end.
Spec == Init /\ [][Next]_vars /\ WF_vars(TryRule \/ ApplyDefault)

-----------------------------------------------------------------------------

\* Types of the scan; the context a rule sees is the one of this query, and
\* the loop never runs past the rules (evaluate_for).
TypeOK ==
  /\ engine \in Engines
  /\ query \in Queries
  /\ ctx = RuleContext(engine, query.hostname, query.caller)
  /\ next \in 1 .. Len(engine.rules) + 1
  /\ verdict \in Verdicts \cup {None}

\* The verdict of the loop is that of the first rule of the configuration
\* that evaluates to true, or the default when none does: no rule is
\* skipped, tried twice or overtaken (evaluate_for).
FirstMatchWins ==
  verdict # None => verdict = evaluate_for(engine, query.hostname, query.caller)

\* However the client spells a name (letter case, trailing dots), it gets
\* the verdict of the canonical spelling: no spelling gets past a rule or a
\* blocklist that stops another (canonical_hostname, Blocklist::contains).
SpellingIsIrrelevant ==
  verdict # None =>
    \A q \in Queries :
      /\ q.caller = query.caller
      /\ q.hostname.labels = query.hostname.labels
      => verdict = evaluate_for(engine, q.hostname, q.caller)

\* The engine whose rules are those of e in their order, without some.
Without(e, gone) ==
  LET kept    == (1 .. Len(e.rules)) \ gone
      rank(i) == Cardinality({j \in kept : j <= i})
  IN  [rules           |-> [k \in 1 .. Cardinality(kept) |->
                              e.rules[CHOOSE i \in kept : rank(i) = k]],
       blocklists      |-> e.blocklists,
       default_verdict |-> e.default_verdict]

\* A rule whose evaluation fails or yields a non-boolean does not decide
\* anything: without such rules, all or any of them, the engine gives the same
\* verdict (evaluate_for).
FailingRulesAreTransparent ==
  LET failing == {i \in 1 .. Len(engine.rules) :
                    Execute(engine.rules[i].program, ctx) \in {"error", "nonbool"}}
  IN  verdict # None =>
        \A gone \in SUBSET failing :
          verdict = evaluate_for(Without(engine, gone), query.hostname, query.caller)

\* A name below one that a list blocks together with its subdomains is
\* blocked by that list as well, however deep (Blocklist::contains), and
\* the rules see it so while the scan runs.
SubdomainsStayBlocked ==
  \A l \in DOMAIN engine.blocklists :
    LET labels == query.hostname.labels
    IN  (\E i \in 1 .. Len(labels) :
           Spelling(SubSeq(labels, i, Len(labels)), FALSE, 0)
              \in engine.blocklists[l].suffixes)
        => blocked_by(ctx, l)

\* Every query gets a verdict.
EveryQueryIsJudged == verdict = None ~> verdict # None
=============================================================================
