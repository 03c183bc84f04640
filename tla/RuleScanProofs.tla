--------------------------- MODULE RuleScanProofs ---------------------------
(* For every engine and every query: the loop of evaluate_for returns the   *)
(* verdict of the first rule that fires.                                   *)
EXTENDS RuleScan, PolicyProofs, FiniteSetTheorems

\* The loop's invariant: every rule behind it has been tried and did not fire.
NoneFiredYet ==
  verdict = None => \A i \in 1 .. next - 1 : ~Fires(engine.rules[i], ctx)

IInv == TypeOK /\ NoneFiredYet /\ FirstMatchWins

\* Rules of an engine are a sequence of rules (from_config), so positions in
\* it are numbers and the verdict of a rule is one of three.
LEMMA EngineTypes ==
  ASSUME NEW e \in Engines
  PROVE  /\ Len(e.rules) \in Nat
         /\ \A i \in 1 .. Len(e.rules) :
              e.rules[i].verdict \in {"Allow", "Deny", "Passthrough"}
         /\ DefaultOutcome(e) \in Verdicts
<1>1. e.rules \in Seq(Rules)
  BY EnginesAssumption
<1>2. Len(e.rules) \in Nat /\ \A i \in 1 .. Len(e.rules) : e.rules[i] \in Rules
  BY <1>1
<1>3. \A i \in 1 .. Len(e.rules) :
        e.rules[i].verdict \in {"Allow", "Deny", "Passthrough"}
  BY <1>2 DEF Rules
<1>4. DefaultOutcome(e) \in Verdicts
  BY DEF DefaultOutcome, Verdicts
<1> QED
  BY <1>2, <1>3, <1>4

\* The invariant holds initially.
LEMMA InitIInv == Init => IInv
<1> SUFFICES ASSUME Init PROVE IInv
  OBVIOUS
<1>1. Len(engine.rules) \in Nat
  BY EngineTypes DEF Init
<1>2. TypeOK
  BY <1>1 DEF Init, TypeOK
<1>3. NoneFiredYet /\ FirstMatchWins
  BY DEF Init, NoneFiredYet, FirstMatchWins
<1> QED
  BY <1>2, <1>3 DEF IInv

\* Every step preserves the invariant.
LEMMA NextIInv == IInv /\ [Next]_vars => IInv'
<1> SUFFICES ASSUME IInv, [Next]_vars PROVE IInv'
  OBVIOUS
<1> USE DEF IInv
<1>0. /\ engine \in Engines
      /\ Len(engine.rules) \in Nat
      /\ next \in 1 .. Len(engine.rules) + 1
  BY EngineTypes DEF TypeOK
<1>1. CASE TryRule
  <2> USE <1>1
  <2>1. next \in 1 .. Len(engine.rules)
    BY <1>0 DEF TryRule
  <2>2. CASE Fires(engine.rules[next], ctx)
    <3>1. verdict' = RuleOutcome(engine.rules[next]) /\ verdict' \in Verdicts
      BY <1>0, <2>1, <2>2, EngineTypes, RuleOutcomeType DEF TryRule
    <3>2. TypeOK'
      BY <2>2, <3>1 DEF TryRule, TypeOK
    <3>3. verdict' = evaluate_for(engine, query.hostname, query.caller)
      BY <1>0, <2>1, <2>2, <3>1, FirstFiringDecides DEF TryRule, TypeOK, NoneFiredYet
    <3> QED
      BY <3>1, <3>2, <3>3, NoneAssumption DEF TryRule, NoneFiredYet, FirstMatchWins
  <2>3. CASE ~Fires(engine.rules[next], ctx)
    <3>1. verdict' = None /\ next' = next + 1
      BY <2>3 DEF TryRule
    <3>2. TypeOK'
      BY <1>0, <2>1, <3>1 DEF TryRule, TypeOK
    <3>3. NoneFiredYet'
      BY <1>0, <2>1, <2>3, <3>1 DEF TryRule, NoneFiredYet
    <3> QED
      BY <3>1, <3>2, <3>3 DEF FirstMatchWins
  <2> QED
    BY <2>2, <2>3
<1>2. CASE ApplyDefault
  <2> USE <1>2
  <2>1. verdict' = DefaultOutcome(engine) /\ verdict' \in Verdicts
    BY <1>0, EngineTypes DEF ApplyDefault
  <2>2. next - 1 = Len(engine.rules)
    BY <1>0 DEF ApplyDefault
  <2>3. verdict' = evaluate_for(engine, query.hostname, query.caller)
    BY <2>1, <2>2, NoFiringDefault DEF ApplyDefault, TypeOK, NoneFiredYet
  <2> QED
    BY <2>1, <2>3, NoneAssumption DEF ApplyDefault, TypeOK, NoneFiredYet, FirstMatchWins
<1>3. CASE NextQuery
  BY <1>0, <1>3 DEF NextQuery, TypeOK, NoneFiredYet, FirstMatchWins
<1>4. CASE UNCHANGED vars
  BY <1>4 DEF vars, TypeOK, NoneFiredYet, FirstMatchWins
<1> QED
  BY <1>1, <1>2, <1>3, <1>4 DEF Next

\* evaluate_for, for every configuration and every query: the loop's verdict
\* is that of the first rule that evaluates to true, or the default.
THEOREM FirstMatchCorrect == Spec => []FirstMatchWins
<1>1. IInv => FirstMatchWins
  BY DEF IInv
<1> QED
  BY <1>1, InitIInv, NextIInv, PTL DEF Spec

\* The loop never runs past the rules and yields nothing but verdicts.
THEOREM RuleScanTypes == Spec => []TypeOK
<1>1. IInv => TypeOK
  BY DEF IInv
<1> QED
  BY <1>1, InitIInv, NextIInv, PTL DEF Spec

-----------------------------------------------------------------------------
(* Names.                                                                  *)

\* Two spellings of the same labels have one canonical form.
LEMMA CanonicalOfLabels ==
  ASSUME NEW h \in Hostnames
  PROVE  canonical_hostname(h) =
           IF h.labels = <<>> THEN Root
           ELSE Spelling(h.labels, FALSE, 0)
BY DEF canonical_hostname

\* The verdict depends on the spelling of a name only through its labels.
LEMMA VerdictOfLabels ==
  ASSUME NEW e, NEW who, NEW g \in Hostnames, NEW h \in Hostnames,
         g.labels = h.labels
  PROVE  evaluate_for(e, g, who) = evaluate_for(e, h, who)
<1>1. canonical_hostname(g) = canonical_hostname(h)
  BY CanonicalOfLabels
<1>2. RuleContext(e, g, who) = RuleContext(e, h, who)
  BY <1>1 DEF RuleContext
<1>3. FiringRules(e, g, who) = FiringRules(e, h, who)
  BY <1>2 DEF FiringRules
<1> QED
  BY <1>3 DEF evaluate_for

\* No spelling of a name, in letter case or trailing dots, gets a verdict of
\* its own (canonical_hostname), whatever rules and lists are configured.
THEOREM SpellingTheorem == Spec => []SpellingIsIrrelevant
<1>1. IInv => SpellingIsIrrelevant
  <2> SUFFICES ASSUME IInv, verdict # None, NEW q \in Queries,
                      q.caller = query.caller,
                      q.hostname.labels = query.hostname.labels
               PROVE  verdict = evaluate_for(engine, q.hostname, q.caller)
    BY DEF SpellingIsIrrelevant
  <2>1. q.hostname \in Hostnames /\ query.hostname \in Hostnames
    BY QueriesAssumption DEF IInv, TypeOK
  <2>2. evaluate_for(engine, q.hostname, q.caller)
          = evaluate_for(engine, query.hostname, query.caller)
    BY <2>1, VerdictOfLabels
  <2> QED
    BY <2>2 DEF IInv, FirstMatchWins
<1> QED
  BY <1>1, InitIInv, NextIInv, PTL DEF Spec

\* Blocklist::contains finds every entry of suffixes at or above the name.
LEMMA ContainsBelow ==
  ASSUME NEW bl, NEW labels \in Seq(STRING), NEW i \in 1 .. Len(labels),
         Spelling(SubSeq(labels, i, Len(labels)), FALSE, 0) \in bl.suffixes
  PROVE  contains(bl, Spelling(labels, FALSE, 0))
<1> DEFINE h == Spelling(labels, FALSE, 0)
<1>1. h.labels = labels /\ h.upper = FALSE /\ h.dots = 0
  BY DEF Spelling
<1>2. From(h, i) \in bl.suffixes
  BY <1>1 DEF From
<1>3. CASE i = 1
  <2>1. SubSeq(labels, 1, Len(labels)) = labels
    OBVIOUS
  <2>2. Spelling(h.labels, FALSE, h.dots) \in bl.suffixes
    BY <1>1, <1>2, <1>3, <2>1 DEF From
  <2> QED
    BY <2>2 DEF contains
<1>4. CASE i # 1
  <2> DEFINE lower == Spelling(h.labels, FALSE, h.dots)
  <2>1. i \in 2 .. Len(lower.labels)
    BY <1>1, <1>4 DEF Spelling
  <2>2. From(lower, i) \in ParentDomains(lower)
    BY <2>1 DEF ParentDomains
  <2>3. From(lower, i) \in bl.suffixes
    BY <1>1, <1>2
  <2>4. ({lower} \cup ParentDomains(lower)) \cap bl.suffixes # {}
    BY <2>2, <2>3
  <2>5. contains(bl, h)
    BY <2>4 DEF contains
  <2> QED
    BY <2>5
<1> QED
  BY <1>3, <1>4

\* A list that blocks a name with its subdomains blocks every name below it,
\* at any depth and in any spelling (Blocklist::contains).
THEOREM SubdomainTheorem == Spec => []SubdomainsStayBlocked
<1>1. IInv => SubdomainsStayBlocked
  <2> SUFFICES ASSUME IInv,
                      NEW l \in DOMAIN engine.blocklists,
                      NEW i \in 1 .. Len(query.hostname.labels),
                      Spelling(SubSeq(query.hostname.labels, i, Len(query.hostname.labels)),
                               FALSE, 0) \in engine.blocklists[l].suffixes
               PROVE  blocked_by(ctx, l)
    BY DEF SubdomainsStayBlocked
  <2> DEFINE name == canonical_hostname(query.hostname)
  <2>1. query.hostname \in Hostnames
    BY QueriesAssumption DEF IInv, TypeOK
  <2>2. query.hostname.labels # <<>>
    OBVIOUS
  <2>3. name = Spelling(query.hostname.labels, FALSE, 0)
    BY <2>1, <2>2, CanonicalOfLabels
  <2>4. query.hostname.labels \in Seq(STRING)
    BY <2>1 DEF Hostnames
  <2>5. contains(engine.blocklists[l], name)
    BY <2>3, <2>4, ContainsBelow
  <2>6. ctx = RuleContext(engine, query.hostname, query.caller)
    BY DEF IInv, TypeOK
  <2> QED
    BY <2>5, <2>6 DEF RuleContext, blocked_by
<1> QED
  BY <1>1, InitIInv, NextIInv, PTL DEF Spec

-----------------------------------------------------------------------------
(* Rules that fail.                                                        *)

Kept(e, gone)    == (1 .. Len(e.rules)) \ gone
Rank(e, gone, i) == Cardinality({j \in Kept(e, gone) : j <= i})

LEMMA KeptRules ==
  ASSUME NEW e, Len(e.rules) \in Nat, NEW gone
  PROVE  Kept(e, gone) \subseteq 1 .. Len(e.rules) /\ IsFiniteSet(Kept(e, gone))
<1>1. Kept(e, gone) \subseteq 1 .. Len(e.rules)
  BY DEF Kept
<1>2. IsFiniteSet(1 .. Len(e.rules))
  BY FS_Interval
<1> QED
  BY <1>1, <1>2, FS_Subset

\* How the rank of a rule grows: by one with every rule that is kept.
LEMMA RankSteps ==
  ASSUME NEW e, Len(e.rules) \in Nat, NEW gone
  PROVE  /\ \A i \in Nat : Rank(e, gone, i) \in Nat
         /\ Rank(e, gone, 0) = 0
         /\ Rank(e, gone, Len(e.rules)) = Cardinality(Kept(e, gone))
         /\ \A i \in Nat : Rank(e, gone, i + 1) =
              IF i + 1 \in Kept(e, gone) THEN Rank(e, gone, i) + 1 ELSE Rank(e, gone, i)
<1> DEFINE kept   == Kept(e, gone)
           upto(i) == {j \in kept : j <= i}
<1>1. kept \subseteq 1 .. Len(e.rules) /\ IsFiniteSet(kept)
  BY KeptRules
<1>2. ASSUME NEW i \in Nat PROVE IsFiniteSet(upto(i)) /\ Rank(e, gone, i) \in Nat
  <2>1. IsFiniteSet(upto(i))
    BY <1>1, FS_Subset
  <2> QED
    BY <2>1, FS_CardinalityType DEF Rank
<1>3. upto(0) = {} /\ upto(Len(e.rules)) = kept
  BY <1>1
<1>4. Rank(e, gone, 0) = 0 /\ Rank(e, gone, Len(e.rules)) = Cardinality(Kept(e, gone))
  BY <1>3, FS_EmptySet DEF Rank
<1>5. ASSUME NEW i \in Nat
      PROVE  Rank(e, gone, i + 1) =
               IF i + 1 \in Kept(e, gone) THEN Rank(e, gone, i) + 1 ELSE Rank(e, gone, i)
  <2>1. CASE i + 1 \in kept
    <3>1. upto(i + 1) = upto(i) \cup {i + 1} /\ i + 1 \notin upto(i)
      BY <1>1, <2>1
    <3>2. Cardinality(upto(i) \cup {i + 1}) = Cardinality(upto(i)) + 1
      BY <1>2, <3>1, FS_AddElement
    <3> QED
      BY <2>1, <3>1, <3>2 DEF Rank
  <2>2. CASE i + 1 \notin kept
    <3>1. upto(i + 1) = upto(i)
      BY <1>1, <2>2
    <3> QED
      BY <2>2, <3>1 DEF Rank
  <2> QED
    BY <2>1, <2>2
<1> QED
  BY <1>2, <1>4, <1>5

\* Ranks keep the order.
LEMMA RankOrder ==
  ASSUME NEW e, Len(e.rules) \in Nat, NEW gone, NEW i \in Kept(e, gone), NEW n \in Kept(e, gone),
         i < n
  PROVE  Rank(e, gone, i) < Rank(e, gone, n)
<1> DEFINE low  == {j \in Kept(e, gone) : j <= i}
           high == {j \in Kept(e, gone) : j <= n}
<1>1. Kept(e, gone) \subseteq 1 .. Len(e.rules) /\ IsFiniteSet(Kept(e, gone))
  BY KeptRules
<1>2. IsFiniteSet(low) /\ IsFiniteSet(high)
  BY <1>1, FS_Subset
<1>3. low \cup {n} \subseteq high /\ n \notin low
  BY <1>1
<1> HIDE DEF low, high
<1>4. Cardinality(low \cup {n}) = Cardinality(low) + 1 /\ IsFiniteSet(low \cup {n})
  BY <1>2, <1>3, FS_AddElement
<1>5. Cardinality(low \cup {n}) <= Cardinality(high)
  BY <1>2, <1>3, FS_Subset
<1>6. Cardinality(low) \in Nat /\ Cardinality(high) \in Nat
  BY <1>2, FS_CardinalityType
<1>7. Cardinality(low) < Cardinality(high)
  BY <1>4, <1>5, <1>6
<1> QED
  BY <1>7 DEF Rank, low, high

\* Every rank is that of a rule.
LEMMA RankOnto ==
  ASSUME NEW e, Len(e.rules) \in Nat, NEW gone, NEW k \in 1 .. Cardinality(Kept(e, gone))
  PROVE  \E i \in Kept(e, gone) : Rank(e, gone, i) = k
<1> DEFINE T == {i \in Nat : Rank(e, gone, i) >= k}
<1>1. Len(e.rules) \in T /\ T \subseteq Nat
  BY RankSteps
<1>2. PICK i \in T : \A j \in T : i <= j
  <2> HIDE DEF T
  <2> QED
    BY <1>1, Least
<1>3. i \in Nat /\ Rank(e, gone, i) >= k /\ Rank(e, gone, i) \in Nat
  BY RankSteps
<1>4. i # 0
  BY <1>3, RankSteps
<1>5. i - 1 \in Nat /\ i - 1 \notin T /\ (i - 1) + 1 = i
  BY <1>2, <1>3, <1>4
<1>6. Rank(e, gone, i - 1) < k /\ Rank(e, gone, i - 1) \in Nat
  BY <1>5, RankSteps
<1>7. Rank(e, gone, i) =
        IF i \in Kept(e, gone) THEN Rank(e, gone, i - 1) + 1 ELSE Rank(e, gone, i - 1)
  <2> DEFINE j == i - 1
  <2>1. j \in Nat /\ j + 1 = i
    BY <1>5
  <2> HIDE DEF j
  <2>2. Rank(e, gone, j + 1) =
          IF j + 1 \in Kept(e, gone) THEN Rank(e, gone, j) + 1 ELSE Rank(e, gone, j)
    BY <2>1, RankSteps
  <2> QED
    BY <2>1, <2>2 DEF j
<1> QED
  BY <1>3, <1>6, <1>7

\* The rules of an engine without some of them, one by one.
LEMMA WithoutRules ==
  ASSUME NEW e, Len(e.rules) \in Nat, NEW gone
  PROVE  LET rest == Without(e, gone)
         IN  /\ Len(rest.rules) = Cardinality(Kept(e, gone)) /\ Len(rest.rules) \in Nat
             /\ \A k \in 1 .. Len(rest.rules) : \E i \in Kept(e, gone) :
                  Rank(e, gone, i) = k /\ rest.rules[k] = e.rules[i]
             /\ \A i \in Kept(e, gone) :
                  /\ Rank(e, gone, i) \in 1 .. Len(rest.rules)
                  /\ rest.rules[Rank(e, gone, i)] = e.rules[i]
<1> DEFINE kept == Kept(e, gone)
           rest == Without(e, gone)
           N    == Cardinality(kept)
<1>1. kept \subseteq 1 .. Len(e.rules) /\ IsFiniteSet(kept)
  BY KeptRules
<1>2. N \in Nat
  BY <1>1, FS_CardinalityType
<1>3. rest.rules = [k \in 1 .. N |-> e.rules[CHOOSE i \in kept : Rank(e, gone, i) = k]]
  BY DEF Without, Rank, Kept
<1>4. Len(rest.rules) = N
  <2> HIDE DEF N
  <2> QED
    BY <1>2, <1>3
<1>5. ASSUME NEW k \in 1 .. N
      PROVE  \E i \in kept : Rank(e, gone, i) = k /\ rest.rules[k] = e.rules[i]
  <2> DEFINE i == CHOOSE i \in kept : Rank(e, gone, i) = k
  <2>1. i \in kept /\ Rank(e, gone, i) = k
    BY RankOnto
  <2> QED
    BY <1>3, <2>1
<1>6. ASSUME NEW i \in kept
      PROVE  Rank(e, gone, i) \in 1 .. N /\ rest.rules[Rank(e, gone, i)] = e.rules[i]
  <2>1. \A j \in kept : Rank(e, gone, j) = Rank(e, gone, i) => j = i
    <3>1. ASSUME NEW j \in kept, Rank(e, gone, j) = Rank(e, gone, i), j # i PROVE FALSE
      <4>1. i \in Nat /\ j \in Nat
        BY <1>1
      <4>2. Rank(e, gone, i) \in Nat /\ Rank(e, gone, j) \in Nat
        BY <4>1, RankSteps
      <4>3. i < j \/ j < i
        BY <3>1, <4>1
      <4> QED
        BY <3>1, <4>2, <4>3, RankOrder
    <3> QED
      BY <3>1
  <2>2. Rank(e, gone, i) \in 1 .. N
    <3> DEFINE low == {j \in kept : j <= i}
    <3>1. low \subseteq kept /\ i \in low
      BY <1>1
    <3> HIDE DEF low
    <3>2. IsFiniteSet(low) /\ Cardinality(low) <= N /\ Cardinality(low) \in Nat
      BY <1>1, <3>1, FS_Subset, FS_CardinalityType
    <3>3. Cardinality(low) # 0
      BY <3>1, <3>2, FS_EmptySet
    <3>4. Cardinality(low) \in 1 .. N
      BY <1>2, <3>2, <3>3
    <3> QED
      BY <3>4 DEF Rank, low
  <2>3. (CHOOSE j \in kept : Rank(e, gone, j) = Rank(e, gone, i)) = i
    BY <2>1
  <2> QED
    BY <1>3, <2>2, <2>3
<1> QED
  BY <1>2, <1>4, <1>5, <1>6

\* Taking away rules that do not fire changes no verdict.
LEMMA VerdictWithout ==
  ASSUME NEW e, Len(e.rules) \in Nat, NEW h, NEW who, NEW gone,
         \A i \in gone : ~Fires(e.rules[i], RuleContext(e, h, who))
  PROVE  evaluate_for(Without(e, gone), h, who) = evaluate_for(e, h, who)
<1> DEFINE rest == Without(e, gone)
           c    == RuleContext(e, h, who)
<1>1. rest.blocklists = e.blocklists /\ rest.default_verdict = e.default_verdict
  BY DEF Without
<1>2. RuleContext(rest, h, who) = c
  BY <1>1 DEF RuleContext
<1>3. /\ Len(rest.rules) \in Nat
      /\ \A k \in 1 .. Len(rest.rules) : \E i \in Kept(e, gone) :
           Rank(e, gone, i) = k /\ rest.rules[k] = e.rules[i]
      /\ \A i \in Kept(e, gone) :
           Rank(e, gone, i) \in 1 .. Len(rest.rules) /\ rest.rules[Rank(e, gone, i)] = e.rules[i]
  BY WithoutRules
<1> HIDE DEF rest, c
<1>4. CASE \A i \in 1 .. Len(e.rules) : ~Fires(e.rules[i], RuleContext(e, h, who))
  <2>1. \A k \in 1 .. Len(rest.rules) : ~Fires(rest.rules[k], RuleContext(rest, h, who))
    BY <1>2, <1>3, <1>4 DEF Kept, c
  <2>2. evaluate_for(rest, h, who) = DefaultOutcome(rest)
    BY <2>1, NoFiringDefault
  <2>3. evaluate_for(e, h, who) = DefaultOutcome(e)
    BY <1>4, NoFiringDefault
  <2> QED
    BY <1>1, <2>2, <2>3 DEF DefaultOutcome, rest
<1>5. ASSUME NEW n \in 1 .. Len(e.rules), Fires(e.rules[n], RuleContext(e, h, who)),
             \A i \in 1 .. n - 1 : ~Fires(e.rules[i], RuleContext(e, h, who))
      PROVE  evaluate_for(rest, h, who) = evaluate_for(e, h, who)
  <2>1. n \in Kept(e, gone)
    BY <1>5 DEF Kept
  <2> DEFINE k == Rank(e, gone, n)
  <2>2. k \in 1 .. Len(rest.rules) /\ rest.rules[k] = e.rules[n]
    BY <1>3, <2>1
  <2> HIDE DEF k
  <2>3. Fires(rest.rules[k], RuleContext(rest, h, who))
    BY <1>2, <1>5, <2>2 DEF c
  <2>4. ASSUME NEW m \in 1 .. k - 1 PROVE ~Fires(rest.rules[m], RuleContext(rest, h, who))
    <3>1. m \in 1 .. Len(rest.rules) /\ m < k
      BY <1>3, <2>2
    <3>2. PICK i \in Kept(e, gone) : Rank(e, gone, i) = m /\ rest.rules[m] = e.rules[i]
      BY <1>3, <3>1
    <3>3. i \in 1 .. Len(e.rules)
      BY DEF Kept
    <3>4. ~(n < i) /\ n # i
      <4>1. n < i => k < m
        BY <2>1, <3>2, RankOrder DEF k
      <4>2. n = i => k = m
        BY <3>2 DEF k
      <4> QED
        BY <2>2, <3>1, <4>1, <4>2
    <3>5. i \in 1 .. n - 1
      BY <3>3, <3>4
    <3> QED
      BY <1>2, <1>5, <3>2, <3>5 DEF c
  <2>5. evaluate_for(rest, h, who) = RuleOutcome(rest.rules[k])
    BY <1>3, <2>2, <2>3, <2>4, FirstFiringDecides
  <2>6. evaluate_for(e, h, who) = RuleOutcome(e.rules[n])
    BY <1>5, FirstFiringDecides
  <2> QED
    BY <2>2, <2>5, <2>6
<1> QED
  BY <1>4, <1>5, FirstFiring DEF rest

\* Rules that fail to evaluate, or to a value that is no boolean, could as well
\* not be there, whatever the engine (evaluate_for).
THEOREM TransparentTheorem == Spec => []FailingRulesAreTransparent
<1>1. IInv => FailingRulesAreTransparent
  <2> DEFINE failing == {i \in 1 .. Len(engine.rules) :
                           Execute(engine.rules[i].program, ctx) \in {"error", "nonbool"}}
  <2> SUFFICES ASSUME IInv, verdict # None, NEW gone \in SUBSET failing
               PROVE  verdict = evaluate_for(Without(engine, gone), query.hostname, query.caller)
    BY DEF FailingRulesAreTransparent
  <2>1. Len(engine.rules) \in Nat /\ ctx = RuleContext(engine, query.hostname, query.caller)
    BY EngineTypes DEF IInv, TypeOK
  <2>2. \A i \in gone : ~Fires(engine.rules[i], ctx)
    BY DEF Fires
  <2>3. evaluate_for(Without(engine, gone), query.hostname, query.caller)
          = evaluate_for(engine, query.hostname, query.caller)
    BY <2>1, <2>2, VerdictWithout
  <2> QED
    BY <2>3 DEF IInv, FirstMatchWins
<1> QED
  BY <1>1, InitIInv, NextIInv, PTL DEF Spec
=============================================================================
