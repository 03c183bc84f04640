---------------------------- MODULE PolicyProofs ----------------------------
(***************************************************************************)
(* What evaluate_for returns, for every engine: the verdict of the first   *)
(* rule that fires, which there is if any does.                            *)
(***************************************************************************)
EXTENDS Policy, WellFoundedInduction, TLAPS

\* The order of numbers, as a set of pairs.
Less == {z \in Nat \X Nat : z[1] < z[2]}

\* Of some numbers one is the least.
LEMMA Least ==
  ASSUME NEW T, T \subseteq Nat, T # {}
  PROVE  \E x \in T : \A y \in T : x <= y
<1>1. IsWellFoundedOn(Less, Nat)
  BY NatLessThanWellFounded DEF OpToRel, Less
<1>2. PICK x \in T : \A y \in T : ~(<<y, x>> \in Less)
  BY <1>1, WFMin
<1>3. \A y \in T : ~(y < x)
  BY <1>2 DEF Less
<1> QED
  BY <1>3

\* A rule that fires when no earlier one does settles the query.
LEMMA FirstFiringDecides ==
  ASSUME NEW e, NEW h, NEW who, Len(e.rules) \in Nat,
         NEW n \in 1 .. Len(e.rules),
         Fires(e.rules[n], RuleContext(e, h, who)),
         \A i \in 1 .. n - 1 : ~Fires(e.rules[i], RuleContext(e, h, who))
  PROVE  evaluate_for(e, h, who) = RuleOutcome(e.rules[n])
<1> DEFINE firing == FiringRules(e, h, who)
           first  == CHOOSE i \in firing : \A j \in firing : i <= j
<1>1. firing \subseteq 1 .. Len(e.rules)
  BY DEF FiringRules
<1>2. n \in firing
  BY DEF FiringRules
<1>3. \A j \in firing : n <= j
  BY DEF FiringRules
<1>4. first \in firing /\ \A j \in firing : first <= j
  BY <1>2, <1>3
<1>5. first <= n /\ n <= first
  BY <1>2, <1>3, <1>4
<1>6. first = n
  BY <1>1, <1>4, <1>5
<1>7. firing # {}
  BY <1>2
<1> QED
  BY <1>6, <1>7 DEF evaluate_for

\* When no rule fires the default decides.
LEMMA NoFiringDefault ==
  ASSUME NEW e, NEW h, NEW who,
         \A i \in 1 .. Len(e.rules) : ~Fires(e.rules[i], RuleContext(e, h, who))
  PROVE  evaluate_for(e, h, who) = DefaultOutcome(e)
<1>1. FiringRules(e, h, who) = {}
  BY DEF FiringRules
<1> QED
  BY <1>1 DEF evaluate_for

\* Either no rule fires, or there is a first one.
LEMMA FirstFiring ==
  ASSUME NEW e, NEW h, NEW who, Len(e.rules) \in Nat
  PROVE  \/ \A i \in 1 .. Len(e.rules) : ~Fires(e.rules[i], RuleContext(e, h, who))
         \/ \E n \in 1 .. Len(e.rules) :
              /\ Fires(e.rules[n], RuleContext(e, h, who))
              /\ \A i \in 1 .. n - 1 : ~Fires(e.rules[i], RuleContext(e, h, who))
<1> DEFINE firing == {i \in 1 .. Len(e.rules) : Fires(e.rules[i], RuleContext(e, h, who))}
<1>1. CASE firing = {}
  BY <1>1
<1>2. CASE firing # {}
  <2>0. firing \subseteq Nat
    OBVIOUS
  <2>1. PICK n \in firing : \A i \in firing : n <= i
    <3> HIDE DEF firing
    <3> QED
      BY <1>2, <2>0, Least
  <2>2. \A i \in 1 .. n - 1 : i \notin firing /\ i \in 1 .. Len(e.rules)
    BY <2>1
  <2> QED
    BY <2>1, <2>2
<1> QED
  BY <1>1, <1>2

\* What a rule's verdict turns into is a verdict of the engine
\* (the inner match of evaluate_for).
LEMMA RuleOutcomeType ==
  ASSUME NEW r, r.verdict \in {"Allow", "Deny", "Passthrough"}
  PROVE  RuleOutcome(r) \in Verdicts
BY DEF RuleOutcome, Verdicts

\* evaluate_for returns a verdict, whatever the rules are and do.
LEMMA VerdictType ==
  ASSUME NEW e, NEW h, NEW who, Len(e.rules) \in Nat,
         \A i \in 1 .. Len(e.rules) : e.rules[i].verdict \in {"Allow", "Deny", "Passthrough"}
  PROVE  evaluate_for(e, h, who) \in Verdicts
<1>1. CASE \A i \in 1 .. Len(e.rules) : ~Fires(e.rules[i], RuleContext(e, h, who))
  <2>1. evaluate_for(e, h, who) = DefaultOutcome(e)
    BY <1>1, NoFiringDefault
  <2> QED
    BY <2>1 DEF DefaultOutcome, Verdicts
<1>2. ASSUME NEW n \in 1 .. Len(e.rules),
             Fires(e.rules[n], RuleContext(e, h, who)),
             \A i \in 1 .. n - 1 : ~Fires(e.rules[i], RuleContext(e, h, who))
      PROVE  evaluate_for(e, h, who) \in Verdicts
  <2>1. evaluate_for(e, h, who) = RuleOutcome(e.rules[n])
    BY <1>2, FirstFiringDecides
  <2> QED
    BY <2>1, RuleOutcomeType
<1> QED
  BY <1>1, <1>2, FirstFiring
=============================================================================
