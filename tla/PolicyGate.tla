----------------------------- MODULE PolicyGate -----------------------------
(***************************************************************************)
(* What a front-end of deezns promises, whatever protocol it speaks.       *)
(* Every lookup is a question that is judged once, by who asks for what;   *)
(* only a question the policy lets through goes upstream; the client gets  *)
(* one answer, taken from those its question admits; it is turned away     *)
(* without one only where its question may be.                             *)
(*                                                                         *)
(* The front-ends' modules implement this one; how they read questions,    *)
(* wait, time out and share slots is theirs.                               *)
(***************************************************************************)
CONSTANTS
  Lookups,           \* the lookups clients may make
  Questions,         \* what may be asked, the caller included
  None,              \* no question yet, no answer yet
  Refused,           \* the connection is closed without an answer
  MayForward(_),     \* the policy lets a question go upstream
  OwnAnswers(_),     \* answers the front-end may give by itself
  UpstreamAnswers(_),\* answers it may take over from upstream
  MayRefuse(_)       \* questions it may leave without an answer

VARIABLES
  question,          \* what each lookup asked, None before
  asked,             \* the lookups upstream has been asked about
  answer             \* what each client got, None before

gateVars == <<question, asked, answer>>

Init ==
  /\ question = [l \in Lookups |-> None]
  /\ asked = {}
  /\ answer = [l \in Lookups |-> None]

Ask(l, q) ==
  /\ question[l] = None
  /\ answer[l] = None
  /\ question' = [question EXCEPT ![l] = q]
  /\ UNCHANGED <<asked, answer>>

Forward(l) ==
  /\ question[l] # None
  /\ MayForward(question[l])
  /\ answer[l] = None
  /\ l \notin asked
  /\ asked' = asked \cup {l}
  /\ UNCHANGED <<question, answer>>

Answer(l, a) ==
  /\ question[l] # None
  /\ answer[l] = None
  /\ \/ a \in OwnAnswers(question[l])
     \/ l \in asked /\ a \in UpstreamAnswers(question[l])
  /\ answer' = [answer EXCEPT ![l] = a]
  /\ UNCHANGED <<question, asked>>

Refuse(l) ==
  /\ question[l] = None \/ MayRefuse(question[l])
  /\ answer[l] = None
  /\ answer' = [answer EXCEPT ![l] = Refused]
  /\ UNCHANGED <<question, asked>>

\* The client is done with this lookup, with or without its answer, and may
\* make another.
Renew(l) ==
  /\ question' = [question EXCEPT ![l] = None]
  /\ asked' = asked \ {l}
  /\ answer' = [answer EXCEPT ![l] = None]

\* One lookup takes one step.
Step(l) ==
  \/ \E q \in Questions : Ask(l, q)
  \/ Forward(l)
  \/ question[l] # None /\ \E a \in OwnAnswers(question[l]) \cup UpstreamAnswers(question[l]) :
                             Answer(l, a)
  \/ Refuse(l)
  \/ Renew(l)

Next == \E l \in Lookups : Step(l)

Spec == Init /\ [][Next]_gateVars
=============================================================================
