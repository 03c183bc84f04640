------------------------- MODULE LookupStackProofs -------------------------
(***************************************************************************)
(* For any set of programs, any policy and any number of lookups, through  *)
(* every crash and restart of the daemon: what the real resolver is asked  *)
(* was judged for the process that asks, nscd is never judged in its       *)
(* clients' place, and what is passed on as judged was judged.             *)
(*                                                                         *)
(* The properties speak of what has happened; the invariant carries the    *)
(* reason along with the runners: nscd only works for the nscd front-end   *)
(* after a judgement in the lookup's favour, and a reply that lets pass is *)
(* on its way only where there was one.                                    *)
(***************************************************************************)
EXTENDS LookupStack, PolicyProofs, FiniteSetTheorems

\* Some front-end judged l by the uid of its own process and let it pass.
Favoured(l) ==
  \E j \in judged[l] : j.verdict # "Denied" /\ j.caller.uid = Creds[proc[l]].uid

Guarded == cfg.dns /\ (cfg.nscd \/ ~cfg.nss)

\* As much of the types as the argument needs.
Shape ==
  /\ cfg \in Configs
  /\ proc \in [Lookups -> Processes]
  /\ stage \in [Lookups -> [Runners -> Stages]]
  /\ pending \in [Lookups -> [Runners -> {None, "deny", "answer", "pass"}]]
  /\ DOMAIN judged = Lookups
  /\ relayed \in SUBSET Lookups
  /\ reached \in SUBSET Lookups

\* nscd works for the nscd front-end only on what was let pass, and not at
\* all where the DNS front-end stands alone.
NscdFavoured(l) ==
  /\ stage[l]["nscd"] # "idle" /\ cfg.nscd => Favoured(l)
  /\ Guarded /\ ~cfg.nscd => stage[l]["nscd"] = "idle"

\* A reply that lets pass is on its way only after a judgement.
ReplyFavoured(l) ==
  /\ stage[l]["app"] = "nscd_reply" => cfg.nscd
  /\ stage[l]["app"] = "nscd_reply" /\ pending[l]["app"] # "deny" => Favoured(l)
  /\ \A r \in Runners :
       Guarded /\ stage[l][r] = "dns_reply" /\ pending[l][r] = "pass" => Favoured(l)

\* What has happened was in order.
PastFavoured(l) ==
  /\ Guarded /\ l \in reached => Favoured(l)
  /\ (cfg.nscd \/ ~(cfg.nss /\ cfg.dns)) /\ l \in relayed => Favoured(l)
  /\ cfg.nscd /\ cfg.nscd_user # None =>
       \A j \in judged[l] : j.caller.uid # Creds[Nscd].uid

LookupInv(l) == NscdFavoured(l) /\ ReplyFavoured(l) /\ PastFavoured(l)

IInv == Shape /\ \A l \in Lookups : LookupInv(l)

\* Nothing that LookupInv speaks of changes for l.
Same(l) ==
  /\ stage'[l] = stage[l] /\ pending'[l] = pending[l] /\ judged'[l] = judged[l]
  /\ proc'[l] = proc[l] /\ cfg' = cfg
  /\ (l \in relayed') <=> (l \in relayed)
  /\ (l \in reached') <=> (l \in reached)

\* A step of one lookup leaves the invariant of another alone.
LEMMA Frame ==
  ASSUME NEW l \in Lookups, LookupInv(l), Same(l)
  PROVE  LookupInv(l)'
<1>1. Favoured(l)' <=> Favoured(l)
  BY DEF Same, Favoured
<1>2. Guarded' <=> Guarded
  BY DEF Same, Guarded
<1> QED
  BY <1>1, <1>2 DEF Same, LookupInv, NscdFavoured, ReplyFavoured, PastFavoured

\* A listener that decides to let pass has judged in the lookup's favour.
LEMMA DecisionFavours ==
  ASSUME NEW nm, NEW who, Decision(nm, who) # "deny"
  PROVE  evaluate_for(Engine, nm, who) # "Denied"
BY DEF Decision

\* The decisions there are.
LEMMA DecisionType ==
  ASSUME NEW nm, NEW who
  PROVE  Decision(nm, who) \in {"deny", "answer", "pass"}
BY DEF Decision

\* Only nscd is ever a relay (ListenerRelays::for_config).
LEMMA RelayIsNscd ==
  ASSUME NEW c \in Configs, NEW listener \in {"policy_socket", "dns"}, NEW who,
         RelayContains(for_config(c, listener), who)
  PROVE  /\ who.uid = Creds[Nscd].uid
         /\ c.nscd \/ (listener = "dns" /\ c.nss)
         /\ c.nscd_user # None
BY ConfigsAssumption DEF RelayContains, for_config, relaying

\* With the nscd front-end and nscd_user, nscd is a relay on both listeners.
LEMMA NscdIsRelay ==
  ASSUME NEW c \in Configs, NEW listener \in {"policy_socket", "dns"}, NEW who,
         c.nscd, c.nscd_user # None, who.uid = Creds[Nscd].uid
  PROVE  RelayContains(for_config(c, listener), who)
<1>1. Creds[Nscd].uid # None
  BY ConfigsAssumption
<1>2. c.nscd_user = Creds[Nscd].uid
  BY ConfigsAssumption
<1>3. relaying(c)[listener]
  <2>1. CASE listener = "policy_socket"
    BY <2>1 DEF relaying
  <2>2. CASE listener = "dns"
    BY <2>2 DEF relaying
  <2> QED
    BY <2>1, <2>2
<1>4. for_config(c, listener) = {c.nscd_user}
  BY <1>3 DEF for_config
<1> QED
  BY <1>1, <1>2, <1>4 DEF RelayContains

\* Whom a listener sees: the runner's own user.
LEMMA CallersSeen ==
  ASSUME Shape, NEW l \in Lookups, NEW r \in Runners
  PROVE  /\ PeerCaller(l, r).uid = Creds[Runner(l, r)].uid
         /\ DnsCaller(l, r).uid = Creds[Runner(l, r)].uid
         /\ NscdCaller(l).uid = Creds[proc[l]].uid
         /\ r = "app" => /\ Runner(l, r) = proc[l]
                         /\ Creds[Runner(l, r)].uid # Creds[Nscd].uid
         /\ r = "nscd" => Runner(l, r) = Nscd
<1>1. proc[l] \in Processes /\ Runner(l, r) \in Processes \cup {Nscd}
  BY DEF Shape, Runner
<1>2. Creds[Runner(l, r)] \in [uid : Nat, gid : Nat, pid : Nat]
  BY <1>1, CredsAssumption
<1>3. DnsCaller(l, r).uid = Creds[Runner(l, r)].uid
  BY <1>2 DEF DnsCaller, PeerCaller
<1>4. r = "app" => Runner(l, r) = proc[l] /\ Creds[Runner(l, r)].uid # Creds[Nscd].uid
  BY <1>1, CredsAssumption DEF Runner
<1>5. r = "nscd" => Runner(l, r) = Nscd
  BY DEF Runner
<1>6. NscdCaller(l).uid = Creds[proc[l]].uid
  BY DEF NscdCaller, PeerCaller, Runner
<1> QED
  BY <1>3, <1>4, <1>5, <1>6 DEF PeerCaller

-----------------------------------------------------------------------------
(* Each action preserves the invariant.                                    *)

\* A new lookup has no past.
LEMMA StartInv ==
  ASSUME IInv, NEW l \in Lookups, Start(l)
  PROVE  IInv'
<1>1. Shape'
  <2>1. \A way \in {"glibc", "dns"} : [app |-> way, nscd |-> "idle"] \in [Runners -> Stages]
    BY DEF Runners, Stages
  <2> QED
    BY <2>1 DEF IInv, Shape, Start
<1>2. LookupInv(l)'
  <2>1. stage'[l]["nscd"] = "idle" /\ stage'[l]["app"] \in {"glibc", "dns"}
    BY DEF IInv, Shape, Start
  <2>2. judged'[l] = {} /\ l \notin relayed' /\ l \notin reached'
    BY DEF IInv, Shape, Start
  <2> QED
    BY <2>1, <2>2 DEF LookupInv, NscdFavoured, ReplyFavoured, PastFavoured, Runners
<1>3. ASSUME NEW k \in Lookups, k # l
      PROVE  LookupInv(k)'
  <2>1. Same(k)
    BY <1>3 DEF IInv, Shape, Start, Same
  <2> QED
    BY <2>1, <1>3, Frame DEF IInv
<1> QED
  BY <1>1, <1>2, <1>3 DEF IInv

\* A runner that moves on without a reply to let it pass, while nothing else
\* happens to the lookup.
LEMMA MoveInv ==
  ASSUME IInv, NEW l \in Lookups, NEW r \in Runners, NEW s \in Stages,
         s \notin {"idle", "nscd_reply", "dns_reply"},
         r = "nscd" => stage[l]["nscd"] # "idle",
         stage' = [stage EXCEPT ![l][r] = s],
         UNCHANGED <<cfg, proc, pending, judged, relayed>>,
         reached' = reached \/ (reached' = reached \cup {l} /\ (Guarded => Favoured(l)))
  PROVE  IInv'
<1>1. Shape'
  BY DEF IInv, Shape
<1>2. LookupInv(l)'
  <2>1. Favoured(l)' <=> Favoured(l)
    BY DEF Favoured
  <2>2. Guarded' <=> Guarded
    BY DEF Guarded
  <2>3. stage'[l]["nscd"] # "idle" <=> stage[l]["nscd"] # "idle"
    BY DEF IInv, Shape, Runners
  <2>4. stage'[l]["app"] = "nscd_reply" => stage[l]["app"] = "nscd_reply"
    BY DEF IInv, Shape, Runners
  <2>5. \A q \in Runners : stage'[l][q] = "dns_reply" => stage[l][q] = "dns_reply"
    BY DEF IInv, Shape, Runners
  <2>6. NscdFavoured(l)'
    BY <2>1, <2>2, <2>3 DEF IInv, LookupInv, NscdFavoured
  <2>7. ReplyFavoured(l)'
    BY <2>1, <2>2, <2>4, <2>5 DEF IInv, LookupInv, ReplyFavoured
  <2>8. PastFavoured(l)'
    BY <2>1, <2>2 DEF IInv, LookupInv, PastFavoured
  <2> QED
    BY <2>6, <2>7, <2>8 DEF LookupInv
<1>3. ASSUME NEW k \in Lookups, k # l
      PROVE  LookupInv(k)'
  <2>1. Same(k)
    BY <1>3 DEF IInv, Shape, Same
  <2> QED
    BY <2>1, <1>3, Frame DEF IInv
<1> QED
  BY <1>1, <1>2, <1>3 DEF IInv

\* A runner asks a listener that judges it.
LEMMA JudgeInv ==
  ASSUME IInv, NEW l \in Lookups, NEW r \in Runners, NEW by, NEW who,
         NEW s \in {"nscd_reply", "nss_reply", "dns_reply"},
         r = "nscd" => stage[l]["nscd"] # "idle" /\ s # "nscd_reply",
         s = "nscd_reply" => cfg.nscd,
         r = "app" => who.uid = Creds[proc[l]].uid,
         cfg.nscd /\ cfg.nscd_user # None => who.uid # Creds[Nscd].uid,
         JudgeAs(l, r, by, who),
         stage' = [stage EXCEPT ![l][r] = s],
         UNCHANGED <<cfg, proc, reached>>
  PROVE  IInv'
<1>1. Shape'
  BY DecisionType DEF IInv, Shape, JudgeAs, Stages
<1> DEFINE new == [by |-> by, caller |-> who, verdict |-> evaluate_for(Engine, name[l], who)]
<1>2. judged'[l] = judged[l] \cup {new}
  BY DEF IInv, Shape, JudgeAs
<1>3. pending'[l][r] # "deny" => new.verdict # "Denied"
  BY DecisionFavours DEF IInv, Shape, JudgeAs
<1>4. new.caller = who
  OBVIOUS
<1> HIDE DEF new
<1>5. LookupInv(l)'
  <2>1. Favoured(l) => Favoured(l)'
    BY <1>2 DEF Favoured
  <2>2. Guarded' <=> Guarded
    BY DEF Guarded
  <2>3. r = "app" /\ pending'[l][r] # "deny" => Favoured(l)'
    BY <1>2, <1>3, <1>4 DEF Favoured
  <2>4. stage'[l][r] = s /\ \A q \in Runners \ {r} :
          stage'[l][q] = stage[l][q] /\ pending'[l][q] = pending[l][q]
    BY DEF IInv, Shape, JudgeAs
  <2>5. NscdFavoured(l)'
    <3>1. stage'[l]["nscd"] # "idle" <=> stage[l]["nscd"] # "idle"
      BY <2>4 DEF Runners
    <3> QED
      BY <2>1, <2>2, <3>1 DEF IInv, LookupInv, NscdFavoured
  <2>6. ReplyFavoured(l)'
    <3>1. CASE r = "app"
      BY <3>1, <2>1, <2>2, <2>3, <2>4 DEF IInv, LookupInv, ReplyFavoured, Runners
    <3>2. CASE r = "nscd"
      <4>1. Guarded => Favoured(l)
        BY <3>2 DEF IInv, LookupInv, NscdFavoured
      <4> QED
        BY <3>2, <4>1, <2>1, <2>2, <2>4 DEF IInv, LookupInv, ReplyFavoured, Runners
    <3> QED
      BY <3>1, <3>2 DEF Runners
  <2>7. PastFavoured(l)'
    BY <1>2, <1>4, <2>1, <2>2 DEF IInv, LookupInv, PastFavoured, JudgeAs
  <2> QED
    BY <2>5, <2>6, <2>7 DEF LookupInv
<1>6. ASSUME NEW k \in Lookups, k # l
      PROVE  LookupInv(k)'
  <2>1. Same(k)
    BY <1>6 DEF IInv, Shape, Same, JudgeAs
  <2> QED
    BY <2>1, <1>6, Frame DEF IInv
<1> QED
  BY <1>1, <1>5, <1>6 DEF IInv

\* nscd asks a listener that takes it for a relay: what it asks about was
\* judged, unless the NSS module stands before the DNS front-end alone.
LEMMA RelayInv ==
  ASSUME IInv, NEW l \in Lookups, NEW s \in {"nss_reply", "dns_reply"},
         stage[l]["nscd"] # "idle",
         cfg.nscd \/ (cfg.nss /\ cfg.dns),
         Relay(l, "nscd"),
         stage' = [stage EXCEPT ![l]["nscd"] = s],
         UNCHANGED <<cfg, proc, reached>>
  PROVE  IInv'
<1>1. Shape'
  BY DEF IInv, Shape, Relay, Stages
<1>2. LookupInv(l)'
  <2>1. Favoured(l)' <=> Favoured(l)
    BY DEF Favoured, Relay
  <2>2. Guarded' <=> Guarded
    BY DEF Guarded
  <2>3. cfg.nscd => Favoured(l)
    BY DEF IInv, LookupInv, NscdFavoured
  <2>4. Guarded => cfg.nscd
    BY ConfigsAssumption DEF IInv, Shape, Guarded
  <2>5. /\ stage'[l]["nscd"] = s
        /\ stage'[l]["app"] = stage[l]["app"]
        /\ pending'[l]["app"] = pending[l]["app"]
    BY DEF IInv, Shape, Relay, Runners
  <2>6. NscdFavoured(l)'
    BY <2>1, <2>2, <2>3, <2>4, <2>5 DEF NscdFavoured
  <2>7. ReplyFavoured(l)'
    BY <2>1, <2>2, <2>3, <2>4, <2>5 DEF IInv, LookupInv, ReplyFavoured, Runners
  <2>8. PastFavoured(l)'
    BY <2>1, <2>2, <2>3 DEF IInv, LookupInv, PastFavoured, Relay
  <2> QED
    BY <2>6, <2>7, <2>8 DEF LookupInv
<1>3. ASSUME NEW k \in Lookups, k # l
      PROVE  LookupInv(k)'
  <2>1. Same(k)
    BY <1>3 DEF IInv, Shape, Same, Relay
  <2> QED
    BY <2>1, <1>3, Frame DEF IInv
<1> QED
  BY <1>1, <1>2, <1>3 DEF IInv

\* nscd gets to work on a lookup, for the front-end only after a judgement
\* that lets it pass.
LEMMA ToNscdInv ==
  ASSUME IInv, NEW l \in Lookups,
         cfg.nscd => Favoured(l),
         Guarded => cfg.nscd,
         stage' = [stage EXCEPT ![l] = [app |-> "wait", nscd |-> "nss"]],
         UNCHANGED <<cfg, proc, pending, judged, relayed, reached>>
  PROVE  IInv'
<1>1. Shape'
  <2>1. [app |-> "wait", nscd |-> "nss"] \in [Runners -> Stages]
    BY DEF Runners, Stages
  <2> QED
    BY <2>1 DEF IInv, Shape
<1>2. LookupInv(l)'
  <2>1. Favoured(l)' <=> Favoured(l)
    BY DEF Favoured
  <2>2. Guarded' <=> Guarded
    BY DEF Guarded
  <2>3. stage'[l]["app"] = "wait" /\ stage'[l]["nscd"] = "nss"
    BY DEF IInv, Shape
  <2>4. PastFavoured(l)'
    BY <2>1, <2>2 DEF IInv, LookupInv, PastFavoured
  <2> QED
    BY <2>1, <2>2, <2>3, <2>4 DEF LookupInv, NscdFavoured, ReplyFavoured, Runners
<1>3. ASSUME NEW k \in Lookups, k # l
      PROVE  LookupInv(k)'
  <2>1. Same(k)
    BY <1>3 DEF IInv, Shape, Same
  <2> QED
    BY <2>1, <1>3, Frame DEF IInv
<1> QED
  BY <1>1, <1>2, <1>3 DEF IInv

\* A crash cuts exchanges off; it starts none and delivers no reply.
LEMMA CrashInv ==
  ASSUME IInv, Crash
  PROVE  IInv'
<1>1. \A s \in Stages : /\ CutOff(s) \in Stages
                        /\ CutOff(s) \notin {"nscd_reply", "dns_reply"}
                        /\ CutOff(s) = "idle" <=> s = "idle"
  BY DEF CutOff, Stages, Results
<1>2. \A l \in Lookups : \A r \in Runners :
        stage[l][r] \in Stages /\ stage'[l][r] = CutOff(stage[l][r])
  BY DEF IInv, Shape, Crash
<1>3. Shape'
  BY <1>1, <1>2 DEF IInv, Shape, Crash
<1>4. ASSUME NEW l \in Lookups
      PROVE  LookupInv(l)'
  <2>1. Favoured(l)' <=> Favoured(l)
    BY DEF Favoured, Crash
  <2>2. Guarded' <=> Guarded
    BY DEF Guarded, Crash
  <2>3. stage'[l]["nscd"] = "idle" <=> stage[l]["nscd"] = "idle"
    BY <1>1, <1>2 DEF Runners
  <2>4. stage'[l]["app"] # "nscd_reply" /\ \A r \in Runners : stage'[l][r] # "dns_reply"
    BY <1>1, <1>2 DEF Runners
  <2>5. NscdFavoured(l)'
    BY <2>1, <2>2, <2>3 DEF IInv, LookupInv, NscdFavoured, Crash
  <2>6. ReplyFavoured(l)'
    BY <2>4 DEF ReplyFavoured
  <2>7. PastFavoured(l)'
    BY <2>1, <2>2 DEF IInv, LookupInv, PastFavoured, Crash
  <2> QED
    BY <2>5, <2>6, <2>7 DEF LookupInv
<1> QED
  BY <1>3, <1>4 DEF IInv

\* What changes nothing the invariant speaks of.
LEMMA StutterInv ==
  ASSUME IInv, UNCHANGED <<cfg, proc, stage, pending, judged, relayed, reached>>
  PROVE  IInv'
<1>1. Shape'
  BY DEF IInv, Shape
<1>2. ASSUME NEW l \in Lookups
      PROVE  LookupInv(l)'
  <2>1. Same(l)
    BY DEF Same
  <2> QED
    BY <2>1, Frame DEF IInv
<1> QED
  BY <1>1, <1>2 DEF IInv

-----------------------------------------------------------------------------
(* The steps of a process and of nscd.                                     *)

\* A step of the process that makes the lookup.
LEMMA AppStepInv ==
  ASSUME IInv, NEW l \in Lookups, AppStep(l)
  PROVE  IInv'
<1> USE DEF lookupVars
<1>0. /\ {"app", "nscd"} = Runners
      /\ {"nss", "found", "notfound", "failed"} \subseteq Stages
  BY DEF Runners, Stages, Results
<1>1. CASE BypassNscd(l)
  <2>1. /\ stage' = [stage EXCEPT ![l]["app"] = "nss"]
        /\ UNCHANGED <<cfg, proc, pending, judged, relayed, reached>>
    BY <1>1 DEF BypassNscd, Skip, Goto
  <2> QED
    BY <2>1, <1>0, MoveInv
<1>2. CASE AskNscdFrontend(l)
  <2>1. NscdCaller(l).uid = Creds[proc[l]].uid /\ Creds[proc[l]].uid # Creds[Nscd].uid
    BY CallersSeen, CredsAssumption DEF IInv, Shape, Runners
  <2> QED
    BY <1>2, <2>1, JudgeInv DEF AskNscdFrontend, Goto, Runners
<1>3. CASE NoNscd(l)
  <2>1. /\ stage' = [stage EXCEPT ![l]["app"] = "nss"]
        /\ UNCHANGED <<cfg, proc, pending, judged, relayed, reached>>
    BY <1>3 DEF NoNscd, Skip, Goto
  <2> QED
    BY <2>1, <1>0, MoveInv
<1>4. CASE AskNscd(l)
  BY <1>4, ToNscdInv, ConfigsAssumption DEF AskNscd, Guarded, IInv, Shape
<1>5. CASE NscdFrontendReplies(l)
  <2>0. UNCHANGED <<cfg, proc, pending, judged, relayed, reached>>
    BY <1>5 DEF NscdFrontendReplies
  <2>1. PICK s \in Outcomes(pending[l]["app"], {"wait"}) :
          IF s = "wait" THEN stage' = [stage EXCEPT ![l] = [app |-> "wait", nscd |-> "nss"]]
                        ELSE Goto(l, "app", s)
    BY <1>5 DEF NscdFrontendReplies
  <2>2. s \in {"found", "notfound", "wait"} /\ (s = "wait" => pending[l]["app"] # "deny")
    BY DEF Outcomes
  <2>3. CASE s # "wait"
    <3>1. stage' = [stage EXCEPT ![l]["app"] = s]
      BY <2>1, <2>3 DEF Goto
    <3> QED
      BY <2>0, <2>2, <2>3, <3>1, <1>0, MoveInv
  <2>4. CASE s = "wait"
    <3>1. Favoured(l) /\ cfg.nscd
      BY <1>5, <2>2, <2>4 DEF NscdFrontendReplies, IInv, LookupInv, ReplyFavoured
    <3> QED
      BY <2>0, <2>1, <2>4, <3>1, ToNscdInv
  <2> QED
    BY <2>3, <2>4
<1>6. CASE NscdAnswers(l)
  <2>1. /\ stage' = [stage EXCEPT ![l]["app"] = stage[l]["nscd"]]
        /\ stage[l]["nscd"] \in {"found", "notfound", "failed"}
        /\ UNCHANGED <<cfg, proc, pending, judged, relayed, reached>>
    BY <1>6 DEF NscdAnswers, Goto, Results
  <2> QED
    BY <2>1, <1>0, MoveInv
<1>7. CASE NscdTimeout(l)
  <2>1. /\ stage' = [stage EXCEPT ![l]["app"] = "failed"]
        /\ UNCHANGED <<cfg, proc, pending, judged, relayed, reached>>
    BY <1>7 DEF NscdTimeout, Goto
  <2> QED
    BY <2>1, <1>0, MoveInv
<1> QED
  BY <1>1, <1>2, <1>3, <1>4, <1>5, <1>6, <1>7 DEF AppStep

\* Asking a listener: nscd is let through as a relay, everyone is judged as
\* the user they are.
LEMMA AskInv ==
  ASSUME IInv, NEW l \in Lookups, NEW r \in Runners, stage[l][r] # "idle",
         NEW listener \in {"policy_socket", "dns"}, listener = "dns" => cfg.dns,
         NEW who, who.uid = Creds[Runner(l, r)].uid,
         NEW s \in {"nss_reply", "dns_reply"},
         IF RelayContains(for_config(cfg, listener), who)
           THEN Relay(l, r) ELSE JudgeAs(l, r, listener, who),
         stage' = [stage EXCEPT ![l][r] = s],
         UNCHANGED <<cfg, proc, reached>>
  PROVE  IInv'
<1>1. cfg \in Configs /\ (r = "app" \/ r = "nscd")
  BY DEF IInv, Shape, Runners
<1>2. /\ r = "app" => who.uid = Creds[proc[l]].uid /\ who.uid # Creds[Nscd].uid
      /\ r = "nscd" => who.uid = Creds[Nscd].uid
  BY CallersSeen DEF IInv
<1>3. CASE RelayContains(for_config(cfg, listener), who)
  <2>1. who.uid = Creds[Nscd].uid /\ (cfg.nscd \/ (listener = "dns" /\ cfg.nss))
    BY <1>1, <1>3, RelayIsNscd
  <2>2. r = "nscd"
    BY <1>1, <1>2, <2>1
  <2>3. cfg.nscd \/ (cfg.nss /\ cfg.dns)
    BY <2>1
  <2> QED
    BY <1>3, <2>2, <2>3, RelayInv
<1>4. CASE ~RelayContains(for_config(cfg, listener), who)
  <2>1. cfg.nscd /\ cfg.nscd_user # None => who.uid # Creds[Nscd].uid
    BY <1>1, <1>4, NscdIsRelay
  <2>2. s \in {"nscd_reply", "nss_reply", "dns_reply"} /\ s # "nscd_reply"
    OBVIOUS
  <2> QED
    BY <1>2, <1>4, <2>1, <2>2, JudgeInv
<1> QED
  BY <1>3, <1>4

\* A step along the NSS chain, of the process or of nscd.
LEMMA RunnerStepInv ==
  ASSUME IInv, NEW l \in Lookups, NEW r \in Runners, RunnerStep(l, r)
  PROVE  IInv'
<1> USE DEF lookupVars
<1>0. {"dns", "found", "notfound", "failed"} \subseteq Stages
  BY DEF Stages, Results
<1>1. CASE NssModuleAsks(l, r)
  <2>1. PeerCaller(l, r).uid = Creds[Runner(l, r)].uid
    BY CallersSeen DEF IInv
  <2>2. /\ stage[l][r] # "idle"
        /\ IF RelayContains(for_config(cfg, "policy_socket"), PeerCaller(l, r))
             THEN Relay(l, r) ELSE JudgeAs(l, r, "policy_socket", PeerCaller(l, r))
        /\ stage' = [stage EXCEPT ![l][r] = "nss_reply"]
        /\ UNCHANGED <<cfg, proc, reached>>
    BY <1>1 DEF NssModuleAsks, Goto
  <2> QED
    BY <2>1, <2>2, AskInv
<1>2. CASE NssModuleUnavail(l, r)
  <2>1. /\ stage[l][r] = "nss" /\ stage' = [stage EXCEPT ![l][r] = "dns"]
        /\ UNCHANGED <<cfg, proc, pending, judged, relayed, reached>>
    BY <1>2 DEF NssModuleUnavail, Skip, Goto
  <2> QED
    BY <2>1, <1>0, MoveInv
<1>3. CASE NssModuleReply(l, r)
  <2>1. /\ stage[l][r] = "nss_reply"
        /\ \E s \in {"notfound", "found", "dns"} : stage' = [stage EXCEPT ![l][r] = s]
        /\ UNCHANGED <<cfg, proc, pending, judged, relayed, reached>>
    BY <1>3 DEF NssModuleReply, Goto, Outcomes
  <2> QED
    BY <2>1, <1>0, MoveInv
<1>4. CASE AskDnsFrontend(l, r)
  <2>1. DnsCaller(l, r).uid = Creds[Runner(l, r)].uid
    BY CallersSeen DEF IInv
  <2>2. /\ stage[l][r] # "idle" /\ cfg.dns
        /\ IF RelayContains(for_config(cfg, "dns"), DnsCaller(l, r))
             THEN Relay(l, r) ELSE JudgeAs(l, r, "dns", DnsCaller(l, r))
        /\ stage' = [stage EXCEPT ![l][r] = "dns_reply"]
        /\ UNCHANGED <<cfg, proc, reached>>
    BY <1>4 DEF AskDnsFrontend, Goto
  <2> QED
    BY <2>1, <2>2, AskInv
<1>5. CASE DnsFrontendReplies(l, r)
  <2>1. /\ stage[l][r] = "dns_reply"
        /\ \E s \in {"notfound", "found", "failed"} : stage' = [stage EXCEPT ![l][r] = s]
        /\ UNCHANGED <<cfg, proc, pending, judged, relayed>>
    BY <1>5 DEF DnsFrontendReplies, Goto, Outcomes, Results
  <2>2. reached' = reached \/ (reached' = reached \cup {l} /\ (Guarded => Favoured(l)))
    BY <1>5 DEF DnsFrontendReplies, IInv, LookupInv, ReplyFavoured
  <2> QED
    BY <2>1, <2>2, <1>0, MoveInv
<1>6. CASE AskResolver(l, r)
  <2>1. /\ stage[l][r] = "dns"
        /\ \E s \in {"notfound", "found", "failed"} : stage' = [stage EXCEPT ![l][r] = s]
        /\ UNCHANGED <<cfg, proc, pending, judged, relayed>>
        /\ reached' = reached \cup {l}
    BY <1>6 DEF AskResolver, Skip, Goto, Results
  <2>2. ~Guarded
    BY <1>6 DEF AskResolver, Guarded
  <2> QED
    BY <2>1, <2>2, <1>0, MoveInv
<1>7. CASE DnsTimeout(l, r)
  <2>1. /\ stage[l][r] # "idle" /\ stage' = [stage EXCEPT ![l][r] = "failed"]
        /\ UNCHANGED <<cfg, proc, pending, judged, relayed, reached>>
    BY <1>7 DEF DnsTimeout, Skip, Goto
  <2> QED
    BY <2>1, <1>0, MoveInv
<1> QED
  BY <1>1, <1>2, <1>3, <1>4, <1>5, <1>6, <1>7 DEF RunnerStep

-----------------------------------------------------------------------------
(* The theorems.                                                           *)

\* No lookup has happened yet.
LEMMA InitInv ==
  ASSUME Init
  PROVE  IInv
<1>1. \A l \in Lookups : \A r \in Runners : stage[l][r] = "idle"
  BY DEF Init
<1>2. Shape
  BY DEF Init, Shape, Stages
<1>3. ASSUME NEW l \in Lookups
      PROVE  LookupInv(l)
  <2>1. judged[l] = {} /\ l \notin relayed /\ l \notin reached
    BY DEF Init
  <2> QED
    BY <1>1, <2>1 DEF LookupInv, NscdFavoured, ReplyFavoured, PastFavoured, Runners
<1> QED
  BY <1>2, <1>3 DEF IInv

\* Every step of the stack preserves the invariant.
LEMMA NextInv ==
  ASSUME IInv, [Next]_vars
  PROVE  IInv'
<1>1. CASE Crash
  BY <1>1, CrashInv
<1>2. CASE Restart
  BY <1>2, StutterInv DEF Restart
<1>3. CASE UNCHANGED vars
  BY <1>3, StutterInv DEF vars
<1>4. ASSUME NEW l \in Lookups, Start(l) \/ LookupStep(l)
      PROVE  IInv'
  BY <1>4, StartInv, AppStepInv, RunnerStepInv DEF LookupStep
<1> QED
  BY <1>1, <1>2, <1>3, <1>4 DEF Next

\* The invariant holds throughout.
THEOREM StackInvariant == Spec => []IInv
<1>1. Init => IInv
  BY InitInv
<1>2. IInv /\ [Next]_vars => IInv'
  BY NextInv
<1> QED
  BY <1>1, <1>2, PTL DEF Spec

\* For any programs, policy and number of lookups, with the nscd front-end
\* and nscd_user nobody is judged in nscd's place, however often the daemon
\* goes down and comes back.
THEOREM NeverJudgedTheorem == Spec => []NeverJudgedAsNscd
<1>1. IInv => NeverJudgedAsNscd
  BY DEF IInv, LookupInv, PastFavoured, NeverJudgedAsNscd
<1> QED
  BY <1>1, StackInvariant, PTL

\* For any programs, policy and number of lookups, behind the DNS front-end
\* the real resolver hears only of what was judged in favour of the process
\* that asks, through every crash and restart.
THEOREM GuardTheorem == Spec => []ResolverIsGuarded
<1>1. IInv => ResolverIsGuarded
  BY DEF IInv, Shape, LookupInv, PastFavoured, Guarded, Favoured, ResolverIsGuarded
<1> QED
  BY <1>1, StackInvariant, PTL

\* Where the NSS module and the DNS front-end are not stacked without the
\* nscd front-end, a listener passes on as judged only what was judged.
THEOREM RelayTheorem == Spec => []RelaysAreSafe
<1>1. IInv => RelaysAreSafe
  BY DEF IInv, Shape, LookupInv, PastFavoured, Favoured, RelaysAreSafe, RelayedWasJudged
<1> QED
  BY <1>1, StackInvariant, PTL

-----------------------------------------------------------------------------
(* Types.                                                                  *)

\* The types that Shape leaves out.
Rest ==
  /\ daemon \in {"up", "down"}
  /\ bypass \in [Processes -> 0 .. Retries]
  /\ name \in [Lookups -> Names]
  /\ judged \in [Lookups -> SUBSET Judgements]
  /\ disturbed \in SUBSET Lookups

\* Whom the listeners see are callers.
LEMMA CallerTypes ==
  ASSUME Shape, NEW l \in Lookups, NEW r \in Runners
  PROVE  PeerCaller(l, r) \in Callers /\ DnsCaller(l, r) \in Callers /\ NscdCaller(l) \in Callers
<1>1. Runner(l, r) \in Processes \cup {Nscd} /\ Runner(l, "app") \in Processes \cup {Nscd}
  BY DEF Shape, Runner
<1>2. /\ PeerCaller(l, r) \in [uid : Nat, gid : Nat, pid : Nat]
      /\ NscdCaller(l) \in [uid : Nat, gid : Nat, pid : Nat]
  BY <1>1, CredsAssumption DEF PeerCaller, NscdCaller
<1> QED
  BY <1>2 DEF DnsCaller, Callers

\* A judgement is a judgement.
LEMMA JudgeType ==
  ASSUME Rest, NEW l \in Lookups, NEW r, NEW by \in {"nscd", "policy_socket", "dns"},
         NEW who \in Callers, JudgeAs(l, r, by, who)
  PROVE  judged' \in [Lookups -> SUBSET Judgements]
<1> DEFINE v == evaluate_for(Engine, name[l], who)
<1>1. v \in Verdicts
  BY EngineAssumption, VerdictType
<1>2. judged' = [judged EXCEPT ![l] = @ \cup {[by |-> by, caller |-> who, verdict |-> v]}]
  BY DEF JudgeAs
<1> HIDE DEF v
<1>3. [by |-> by, caller |-> who, verdict |-> v] \in Judgements
  BY <1>1 DEF Judgements
<1> QED
  BY <1>2, <1>3 DEF Rest

LEMMA RestStep ==
  ASSUME Shape, Rest, [Next]_vars
  PROVE  Rest'
<1> USE DEF lookupVars
<1>1. CASE Crash
  <2>1. bypass' \in [Processes -> 0 .. Retries]
    BY <1>1, RetriesAssumption DEF Crash, Rest
  <2> QED
    BY <1>1, <2>1 DEF Crash, Rest
<1>2. CASE Restart
  BY <1>2 DEF Restart, Rest
<1>3. ASSUME NEW l \in Lookups, Start(l) PROVE Rest'
  BY <1>3 DEF Start, Rest
<1>4. ASSUME NEW l \in Lookups, AppStep(l) PROVE Rest'
  <2>1. CASE BypassNscd(l)
    <3>1. proc[l] \in Processes
      BY DEF Shape
    <3>2. bypass' \in [Processes -> 0 .. Retries]
      <4>1. bypass' = [bypass EXCEPT ![proc[l]] = @ - 1] /\ bypass[proc[l]] > 0
        BY <2>1 DEF BypassNscd
      <4> DEFINE v == bypass[proc[l]] - 1
      <4>2. v \in 0 .. Retries /\ bypass' = [bypass EXCEPT ![proc[l]] = v]
        BY <3>1, <4>1, RetriesAssumption DEF Rest
      <4> HIDE DEF v
      <4> QED
        BY <3>1, <4>2 DEF Rest
    <3> QED
      BY <2>1, <3>2 DEF BypassNscd, Skip, Rest
  <2>2. CASE AskNscdFrontend(l)
    <3>1. judged' \in [Lookups -> SUBSET Judgements]
      BY <2>2, CallerTypes, JudgeType DEF AskNscdFrontend, Runners
    <3> QED
      BY <2>2, <3>1 DEF AskNscdFrontend, Rest
  <2>3. CASE NoNscd(l)
    <3>1. bypass' \in [Processes -> 0 .. Retries]
      <4>1. bypass' = [bypass EXCEPT ![proc[l]] = Retries]
        BY <2>3 DEF NoNscd
      <4>2. Retries \in 0 .. Retries
        BY RetriesAssumption
      <4> QED
        BY <4>1, <4>2 DEF Rest
    <3> QED
      BY <2>3, <3>1 DEF NoNscd, Skip, Rest
  <2>4. CASE AskNscd(l) \/ NscdFrontendReplies(l) \/ NscdAnswers(l) \/ NscdTimeout(l)
    BY <2>4 DEF AskNscd, NscdFrontendReplies, NscdAnswers, NscdTimeout, Rest
  <2> QED
    BY <1>4, <2>1, <2>2, <2>3, <2>4 DEF AppStep
<1>5. ASSUME NEW l \in Lookups, NEW r \in Runners, RunnerStep(l, r) PROVE Rest'
  <2>1. CASE NssModuleAsks(l, r)
    <3>1. judged' \in [Lookups -> SUBSET Judgements]
      BY <2>1, CallerTypes, JudgeType DEF NssModuleAsks, Relay, Rest
    <3> QED
      BY <2>1, <3>1 DEF NssModuleAsks, Rest
  <2>2. CASE AskDnsFrontend(l, r)
    <3>1. judged' \in [Lookups -> SUBSET Judgements]
      BY <2>2, CallerTypes, JudgeType DEF AskDnsFrontend, Relay, Rest
    <3> QED
      BY <2>2, <3>1 DEF AskDnsFrontend, Rest
  <2>3. CASE NssModuleUnavail(l, r) \/ NssModuleReply(l, r) \/ DnsFrontendReplies(l, r)
             \/ AskResolver(l, r) \/ DnsTimeout(l, r)
    BY <2>3 DEF NssModuleUnavail, NssModuleReply, DnsFrontendReplies, AskResolver, DnsTimeout,
                Skip, Rest
  <2> QED
    BY <1>5, <2>1, <2>2, <2>3 DEF RunnerStep
<1>6. CASE UNCHANGED vars
  BY <1>6 DEF vars, Rest
<1> QED
  BY <1>1, <1>2, <1>3, <1>4, <1>5, <1>6 DEF Next, LookupStep

\* Types of the stack, for any programs, policy and number of lookups.
THEOREM TypeCorrect == Spec => []TypeOK
<1>1. Init => Rest
  <2>1. ASSUME Init PROVE Rest
    BY <2>1, RetriesAssumption DEF Init, Rest
  <2> QED
    BY <2>1
<1>2. IInv /\ Rest /\ [Next]_vars => Rest'
  BY RestStep DEF IInv
<1>3. IInv /\ Rest => TypeOK
  BY DEF IInv, Shape, Rest, TypeOK
<1> QED
  BY <1>1, <1>2, <1>3, StackInvariant, PTL DEF Spec

-----------------------------------------------------------------------------
(* Judged once.                                                            *)

AtMostOne(l) == \A i, j \in judged[l] : i = j

\* Some front-end let l pass.
Passed(l) == \E j \in judged[l] : j.verdict # "Denied"

\* The process asks one front-end: the first on its way.
OnceApp(l) ==
  LET a == stage[l]["app"]
  IN  /\ a # "nss_reply"
      /\ a \in {"idle", "glibc", "nss", "dns"} => judged[l] = {} /\ stage[l]["nscd"] = "idle"
      /\ a = "nss" => ~cfg.nscd /\ ~cfg.nss
      /\ a \in {"nscd_reply", "dns_reply"} =>
           stage[l]["nscd"] = "idle" /\ (pending[l]["app"] # "deny" => Passed(l))

\* nscd is judged only if the process was not, and then by the NSS module.
OnceNscd(l) ==
  LET n == stage[l]["nscd"]
  IN  n # "idle" =>
        /\ stage[l]["app"] \in {"wait"} \cup Results
        /\ cfg.nscd => Passed(l)
        /\ ~cfg.nscd =>
             /\ cfg.dns => cfg.nss
             /\ n = "nss" => judged[l] = {}
             /\ n = "nss_reply" /\ pending[l]["nscd"] # "deny" => Passed(l)
             /\ n \in {"dns", "dns_reply"} /\ cfg.nss => Passed(l)

Once(l) ==
  /\ AtMostOne(l)
  /\ cfg.dns /\ l \in reached => Passed(l)
  /\ OnceApp(l) /\ OnceNscd(l)

\* glibc avoids an nscd that it may ask only behind the nscd front-end, which
\* counts as a disturbance, or where nobody answers for hosts.
OnceInv ==
  /\ daemon = "down" => Lookups \subseteq disturbed
  /\ cfg.nscd \/ (cfg.dns /\ ~cfg.nss) \/ \A p \in Processes : bypass[p] = 0
  /\ cfg.nscd_user # None => \A l \in Lookups \ disturbed : Once(l)

\* A step of another lookup.
LEMMA OnceFrame ==
  ASSUME NEW l \in Lookups, Once(l), Same(l)
  PROVE  Once(l)'
<1>1. /\ stage'[l] = stage[l] /\ pending'[l] = pending[l] /\ judged'[l] = judged[l] /\ cfg' = cfg
      /\ (l \in reached') <=> (l \in reached)
  BY DEF Same
<1>2. (Passed(l)' <=> Passed(l)) /\ (AtMostOne(l)' <=> AtMostOne(l))
  BY <1>1 DEF Passed, AtMostOne
<1>3. OnceApp(l)' /\ OnceNscd(l)'
  BY <1>1, <1>2 DEF Once, OnceApp, OnceNscd
<1> QED
  BY <1>1, <1>2, <1>3 DEF Once

\* A step of the lookup l.
LEMMA OnceStep ==
  ASSUME OnceInv, NEW l \in Lookups, cfg' = cfg, daemon' = daemon,
         cfg.nscd \/ (cfg.dns /\ ~cfg.nss) \/ \A p \in Processes : bypass'[p] = 0,
         \A k \in Lookups \ {l} : Same(k) /\ (k \in disturbed' <=> k \in disturbed),
         daemon = "down" => l \in disturbed',
         cfg.nscd_user # None /\ l \notin disturbed' => Once(l)'
  PROVE  OnceInv'
<1>1. daemon' = "down" => Lookups \subseteq disturbed'
  BY DEF OnceInv
<1>2. ASSUME cfg.nscd_user # None, NEW k \in Lookups, k \notin disturbed' PROVE Once(k)'
  <2>1. CASE k = l
    BY <1>2, <2>1
  <2>2. CASE k # l
    BY <1>2, <2>2, OnceFrame DEF OnceInv
  <2> QED
    BY <2>1, <2>2
<1> QED
  BY <1>1, <1>2 DEF OnceInv

\* Where a runner goes, the other and the other lookups stay.
LEMMA GotoOnly ==
  ASSUME Shape, NEW l \in Lookups, NEW r \in Runners, NEW s, Goto(l, r, s)
  PROVE  /\ stage'[l][r] = s
         /\ \A q \in Runners \ {r} : stage'[l][q] = stage[l][q]
         /\ \A k \in Lookups \ {l} : stage'[k] = stage[k]
BY DEF Shape, Goto

\* A first judgement is the only one, and agrees with the reply.
LEMMA FirstJudgement ==
  ASSUME Shape, NEW l \in Lookups, NEW r \in Runners, NEW by, NEW who,
         judged[l] = {}, JudgeAs(l, r, by, who)
  PROVE  /\ AtMostOne(l)'
         /\ pending'[l][r] # "deny" => Passed(l)'
         /\ \A q \in Runners \ {r} : pending'[l][q] = pending[l][q]
         /\ \A k \in Lookups \ {l} : pending'[k] = pending[k] /\ judged'[k] = judged[k]
         /\ relayed' = relayed
<1> DEFINE new == [by |-> by, caller |-> who, verdict |-> evaluate_for(Engine, name[l], who)]
<1>1. judged'[l] = {new} /\ \A k \in Lookups \ {l} : judged'[k] = judged[k]
  BY DEF Shape, JudgeAs
<1>2. pending'[l][r] # "deny" => new.verdict # "Denied"
  BY DecisionFavours DEF Shape, JudgeAs
<1>3. /\ \A q \in Runners \ {r} : pending'[l][q] = pending[l][q]
      /\ \A k \in Lookups \ {l} : pending'[k] = pending[k]
  BY DEF Shape, JudgeAs
<1> HIDE DEF new
<1>4. AtMostOne(l)' /\ (pending'[l][r] # "deny" => Passed(l)')
  BY <1>1, <1>2 DEF AtMostOne, Passed
<1> QED
  BY <1>1, <1>3, <1>4 DEF JudgeAs

\* nscd behind a front-end that has judged, or behind the NSS module on its way
\* to the DNS front-end, is a relay.
LEMMA NscdRelaysHere ==
  ASSUME Shape, cfg.nscd_user # None, NEW l \in Lookups
  PROVE  /\ cfg.nscd => RelayContains(for_config(cfg, "policy_socket"), PeerCaller(l, "nscd"))
         /\ cfg.nscd \/ cfg.nss => RelayContains(for_config(cfg, "dns"), DnsCaller(l, "nscd"))
         /\ ~cfg.nscd => ~RelayContains(for_config(cfg, "policy_socket"), PeerCaller(l, "nscd"))
         /\ ~RelayContains(for_config(cfg, "dns"), DnsCaller(l, "app"))
<1>1. cfg \in Configs /\ "app" \in Runners /\ "nscd" \in Runners
  BY DEF Shape, Runners
<1>2. /\ PeerCaller(l, "nscd").uid = Creds[Nscd].uid /\ DnsCaller(l, "nscd").uid = Creds[Nscd].uid
      /\ DnsCaller(l, "app").uid # Creds[Nscd].uid
  BY <1>1, CallersSeen
<1>3. cfg.nscd_user = Creds[Nscd].uid
  BY <1>1, ConfigsAssumption
<1>4. cfg.nscd => for_config(cfg, "policy_socket") = {cfg.nscd_user}
  BY DEF for_config, relaying
<1>5. cfg.nscd \/ cfg.nss => for_config(cfg, "dns") = {cfg.nscd_user}
  BY DEF for_config, relaying
<1>6. ~cfg.nscd => for_config(cfg, "policy_socket") = {}
  BY DEF for_config, relaying
<1>7. for_config(cfg, "dns") \subseteq {cfg.nscd_user}
  BY DEF for_config
<1> QED
  BY <1>2, <1>3, <1>4, <1>5, <1>6, <1>7 DEF RelayContains

\* A new lookup has no judgement yet.
LEMMA OnceStart ==
  ASSUME Shape, OnceInv, NEW l \in Lookups, Start(l)
  PROVE  OnceInv'
<1>1. /\ cfg' = cfg /\ daemon' = daemon /\ bypass' = bypass
      /\ disturbed' = IF daemon = "down" THEN disturbed \cup {l} ELSE disturbed \ {l}
  BY DEF Start
<1>2. \A k \in Lookups \ {l} : Same(k) /\ (k \in disturbed' <=> k \in disturbed)
  BY <1>1 DEF Start, Shape, Same
<1>3. /\ stage'[l]["app"] \in {"glibc", "dns"} /\ stage'[l]["nscd"] = "idle"
      /\ judged'[l] = {} /\ l \notin reached'
  BY DEF Start, Shape
<1>4. Once(l)'
  BY <1>3 DEF Once, OnceApp, OnceNscd, AtMostOne
<1> QED
  BY <1>1, <1>2, <1>4, OnceStep DEF OnceInv

\* The steps of the process.
LEMMA OnceAppStep ==
  ASSUME IInv, OnceInv, NEW l \in Lookups, AppStep(l)
  PROVE  OnceInv'
<1> USE DEF lookupVars
<1>0. Shape /\ "app" \in Runners /\ "nscd" \in Runners /\ Runners \ {"app"} = {"nscd"}
  BY DEF IInv, Runners
<1>1. /\ daemon = "down" => l \in disturbed
      /\ cfg.nscd_user # None /\ l \notin disturbed => Once(l)
      /\ cfg.nscd \/ (cfg.dns /\ ~cfg.nss) \/ \A p \in Processes : bypass[p] = 0
      /\ proc[l] \in Processes
      /\ cfg.nscd \in BOOLEAN /\ cfg.nss \in BOOLEAN /\ cfg.dns \in BOOLEAN
  BY <1>0, ConfigsAssumption DEF OnceInv, Shape
<1>2. CASE BypassNscd(l) \/ NoNscd(l)
  <2>1. /\ stage[l]["app"] = "glibc" /\ Goto(l, "app", "nss")
        /\ UNCHANGED <<cfg, daemon, proc, pending, judged, relayed, reached>>
        /\ disturbed' = disturbed \/ disturbed' = disturbed \cup {l}
    BY <1>2 DEF BypassNscd, NoNscd, Skip
  <2>2. /\ stage'[l]["app"] = "nss" /\ stage'[l]["nscd"] = stage[l]["nscd"]
        /\ \A k \in Lookups \ {l} : stage'[k] = stage[k]
    BY <1>0, <2>1, GotoOnly
  <2>3. \A k \in Lookups \ {l} : Same(k) /\ (k \in disturbed' <=> k \in disturbed)
    BY <2>1, <2>2 DEF Same
  <2>4. cfg.nscd \/ (cfg.dns /\ ~cfg.nss)
    <3>1. CASE BypassNscd(l)
      BY <1>1, <3>1 DEF BypassNscd
    <3>2. CASE NoNscd(l)
      BY <3>2 DEF NoNscd
    <3> QED
      BY <1>2, <3>1, <3>2
  <2>5. l \notin disturbed' => ~cfg.nscd
    <3>1. CASE BypassNscd(l)
      BY <3>1 DEF BypassNscd
    <3>2. CASE NoNscd(l)
      BY <1>1, <3>2 DEF NoNscd
    <3> QED
      BY <1>2, <3>1, <3>2
  <2>6. ASSUME cfg.nscd_user # None, l \notin disturbed' PROVE Once(l)'
    <3>1. Once(l) /\ ~cfg.nscd /\ ~cfg.nss
      BY <1>1, <2>1, <2>4, <2>5, <2>6
    <3>2. judged[l] = {} /\ stage[l]["nscd"] = "idle" /\ ~Passed(l)
      BY <2>1, <3>1 DEF Once, OnceApp, Passed
    <3> QED
      BY <2>1, <2>2, <3>1, <3>2 DEF Once, OnceApp, OnceNscd, AtMostOne, Passed
  <2> QED
    BY <1>1, <2>1, <2>3, <2>4, <2>6, OnceStep
<1>3. CASE AskNscdFrontend(l)
  <2>1. /\ stage[l]["app"] = "glibc" /\ Goto(l, "app", "nscd_reply")
        /\ JudgeAs(l, "app", "nscd", NscdCaller(l))
        /\ UNCHANGED <<cfg, daemon, bypass, proc, reached, disturbed>>
    BY <1>3 DEF AskNscdFrontend
  <2>2. /\ stage'[l]["app"] = "nscd_reply" /\ stage'[l]["nscd"] = stage[l]["nscd"]
        /\ \A k \in Lookups \ {l} : stage'[k] = stage[k]
    BY <1>0, <2>1, GotoOnly
  <2>3. \A k \in Lookups \ {l} : pending'[k] = pending[k] /\ judged'[k] = judged[k]
    BY <1>0, <2>1 DEF Shape, JudgeAs
  <2>4. \A k \in Lookups \ {l} : Same(k) /\ (k \in disturbed' <=> k \in disturbed)
    BY <2>1, <2>2, <2>3 DEF Same, JudgeAs
  <2>5. ASSUME cfg.nscd_user # None, l \notin disturbed' PROVE Once(l)'
    <3>1. judged[l] = {} /\ stage[l]["nscd"] = "idle" /\ (cfg.dns => l \notin reached)
      BY <1>1, <2>1, <2>5 DEF Once, OnceApp, Passed
    <3>2. AtMostOne(l)' /\ (pending'[l]["app"] # "deny" => Passed(l)')
      BY <1>0, <2>1, <3>1, FirstJudgement
    <3> QED
      BY <2>1, <2>2, <3>1, <3>2 DEF Once, OnceApp, OnceNscd
  <2> QED
    BY <1>1, <2>1, <2>4, <2>5, OnceStep
<1>4. CASE AskNscd(l) \/ NscdFrontendReplies(l) \/ NscdAnswers(l) \/ NscdTimeout(l)
  <2>1. /\ UNCHANGED <<pending, judged, relayed, reached, disturbed, lookupVars>>
        /\ \/ /\ stage' = [stage EXCEPT ![l] = [app |-> "wait", nscd |-> "nss"]]
              /\ AskNscd(l) \/ (stage[l]["app"] = "nscd_reply" /\ pending[l]["app"] # "deny")
           \/ \E s \in Results : Goto(l, "app", s)
    BY <1>4 DEF AskNscd, NscdFrontendReplies, NscdAnswers, NscdTimeout, Outcomes, Results
  <2>2. /\ (Passed(l)' <=> Passed(l)) /\ (AtMostOne(l)' <=> AtMostOne(l))
        /\ UNCHANGED <<cfg, daemon, bypass, proc, pending, judged, relayed, reached, disturbed>>
    BY <2>1 DEF Passed, AtMostOne
  <2>3. CASE /\ stage' = [stage EXCEPT ![l] = [app |-> "wait", nscd |-> "nss"]]
             /\ AskNscd(l) \/ (stage[l]["app"] = "nscd_reply" /\ pending[l]["app"] # "deny")
    <3>1. /\ stage'[l]["app"] = "wait" /\ stage'[l]["nscd"] = "nss"
          /\ \A k \in Lookups \ {l} : stage'[k] = stage[k]
      BY <1>0, <2>3 DEF Shape
    <3>2. \A k \in Lookups \ {l} : Same(k) /\ (k \in disturbed' <=> k \in disturbed)
      BY <2>2, <3>1 DEF Same
    <3>3. ASSUME cfg.nscd_user # None, l \notin disturbed' PROVE Once(l)'
      <4>1. Once(l)
        BY <1>1, <2>2, <3>3
      <4>2. CASE AskNscd(l)
        <5>1. ~cfg.nscd /\ (cfg.dns => cfg.nss) /\ judged[l] = {}
          BY <1>1, <4>1, <4>2 DEF AskNscd, Once, OnceApp
        <5> QED
          BY <2>2, <3>1, <4>1, <5>1 DEF Once, OnceApp, OnceNscd
      <4>3. CASE stage[l]["app"] = "nscd_reply" /\ pending[l]["app"] # "deny"
        <5>1. cfg.nscd /\ Passed(l)
          BY <4>1, <4>3 DEF IInv, LookupInv, ReplyFavoured, Once, OnceApp
        <5> QED
          BY <2>2, <3>1, <4>1, <5>1 DEF Once, OnceApp, OnceNscd
      <4> QED
        BY <2>3, <4>2, <4>3
    <3> QED
      BY <1>1, <2>2, <3>2, <3>3, OnceStep
  <2>4. CASE \E s \in Results : Goto(l, "app", s)
    <3>1. PICK s \in Results : Goto(l, "app", s)
      BY <2>4
    <3>2. /\ stage'[l]["app"] = s /\ stage'[l]["nscd"] = stage[l]["nscd"]
          /\ \A k \in Lookups \ {l} : stage'[k] = stage[k]
      BY <1>0, <3>1, GotoOnly
    <3>3. \A k \in Lookups \ {l} : Same(k) /\ (k \in disturbed' <=> k \in disturbed)
      BY <2>2, <3>2 DEF Same
    <3>4. ASSUME cfg.nscd_user # None, l \notin disturbed' PROVE Once(l)'
      <4>1. Once(l)
        BY <1>1, <2>2, <3>4
      <4>2. OnceApp(l)'
        BY <3>2 DEF OnceApp, Results
      <4>3. OnceNscd(l)'
        BY <2>2, <3>2, <4>1 DEF Once, OnceNscd
      <4> QED
        BY <2>2, <4>1, <4>2, <4>3 DEF Once
    <3> QED
      BY <1>1, <2>2, <3>3, <3>4, OnceStep
  <2> QED
    BY <2>1, <2>3, <2>4
<1> QED
  BY <1>2, <1>3, <1>4 DEF AppStep

\* A relay's reply lets pass and nobody judges.
LEMMA RelayKeeps ==
  ASSUME Shape, NEW l \in Lookups, NEW r \in Runners, Relay(l, r)
  PROVE  /\ judged' = judged
         /\ \A q \in Runners \ {r} : pending'[l][q] = pending[l][q]
         /\ \A k \in Lookups \ {l} : pending'[k] = pending[k]
BY DEF Shape, Relay

\* A step of a runner moves that runner and that lookup alone.
LEMMA RunnerOnly ==
  ASSUME Shape, NEW l \in Lookups, NEW r \in Runners, RunnerStep(l, r)
  PROVE  /\ UNCHANGED <<cfg, daemon, bypass, proc, disturbed>>
         /\ \A k \in Lookups \ {l} : Same(k)
         /\ \A q \in Runners \ {r} :
              stage'[l][q] = stage[l][q] /\ pending'[l][q] = pending[l][q]
<1> USE DEF lookupVars
<1>1. /\ UNCHANGED <<cfg, daemon, bypass, proc, disturbed>>
      /\ \E s : Goto(l, r, s)
      /\ reached' = reached \/ reached' = reached \cup {l}
  BY DEF RunnerStep, NssModuleAsks, NssModuleUnavail, NssModuleReply, AskDnsFrontend,
         DnsFrontendReplies, AskResolver, DnsTimeout, Skip
<1>2. /\ \A k \in Lookups \ {l} : pending'[k] = pending[k] /\ judged'[k] = judged[k]
      /\ \A q \in Runners \ {r} : pending'[l][q] = pending[l][q]
      /\ relayed' = relayed \/ relayed' = relayed \cup {l}
  <2>1. CASE \E by, who : JudgeAs(l, r, by, who)
    BY <2>1 DEF Shape, JudgeAs
  <2>2. CASE Relay(l, r)
    BY <2>2, RelayKeeps DEF Relay
  <2>3. CASE UNCHANGED <<pending, judged, relayed>>
    BY <2>3
  <2> QED
    BY <2>1, <2>2, <2>3 DEF RunnerStep, NssModuleAsks, NssModuleUnavail, NssModuleReply,
       AskDnsFrontend, DnsFrontendReplies, AskResolver, DnsTimeout, Skip
<1>3. PICK s : Goto(l, r, s)
  BY <1>1
<1>4. /\ \A q \in Runners \ {r} : stage'[l][q] = stage[l][q]
      /\ \A k \in Lookups \ {l} : stage'[k] = stage[k]
  BY <1>3, GotoOnly
<1> QED
  BY <1>1, <1>2, <1>4 DEF Same

\* While nothing fails, the process reaches the DNS front-end only if nobody
\* before it judged, and its query is judged there.
LEMMA OnceAppRuns ==
  ASSUME IInv, Rest, NEW l \in Lookups, daemon = "up", cfg.nscd_user # None,
         Once(l), RunnerStep(l, "app")
  PROVE  Once(l)'
<1>0. Shape /\ "app" \in Runners /\ "nscd" \in Runners /\ Runners \ {"app"} = {"nscd"}
  BY DEF IInv, Runners
<1>1. /\ cfg' = cfg /\ stage'[l]["nscd"] = stage[l]["nscd"] /\ l \in Lookups
      /\ cfg.nscd \in BOOLEAN /\ cfg.nss \in BOOLEAN /\ cfg.dns \in BOOLEAN
  BY <1>0, RunnerOnly, ConfigsAssumption DEF Shape
<1>2. CASE NssModuleAsks(l, "app") \/ NssModuleReply(l, "app") \/ DnsTimeout(l, "app")
  BY <1>2 DEF NssModuleAsks, NssModuleReply, DnsTimeout, MayQuery, Once, OnceApp
<1>3. CASE NssModuleUnavail(l, "app")
  <2>1. stage[l]["app"] = "nss" /\ Goto(l, "app", "dns") /\ judged' = judged /\ reached' = reached
    BY <1>3 DEF NssModuleUnavail, Skip
  <2>2. stage'[l]["app"] = "dns"
    BY <1>0, <2>1, GotoOnly
  <2>3. judged[l] = {} /\ stage[l]["nscd"] = "idle" /\ (cfg.dns => l \notin reached)
    BY <2>1 DEF Once, OnceApp, Passed
  <2> QED
    BY <1>1, <2>1, <2>2, <2>3 DEF Once, OnceApp, OnceNscd, AtMostOne
<1>4. CASE AskDnsFrontend(l, "app")
  <2>1. /\ stage[l]["app"] = "dns" /\ Goto(l, "app", "dns_reply") /\ reached' = reached
        /\ JudgeAs(l, "app", "dns", DnsCaller(l, "app"))
    BY <1>0, <1>4, NscdRelaysHere DEF AskDnsFrontend
  <2>2. stage'[l]["app"] = "dns_reply"
    BY <1>0, <2>1, GotoOnly
  <2>3. judged[l] = {} /\ stage[l]["nscd"] = "idle" /\ (cfg.dns => l \notin reached)
    BY <2>1 DEF Once, OnceApp, Passed
  <2>4. AtMostOne(l)' /\ (pending'[l]["app"] # "deny" => Passed(l)')
    BY <1>0, <2>1, <2>3, FirstJudgement
  <2> QED
    BY <1>1, <2>1, <2>2, <2>3, <2>4 DEF Once, OnceApp, OnceNscd
<1>5. CASE DnsFrontendReplies(l, "app")
  <2>1. /\ stage[l]["app"] = "dns_reply" /\ judged' = judged
        /\ pending[l]["app"] # "pass" => reached' = reached
        /\ \E s \in Results : Goto(l, "app", s)
    BY <1>5 DEF DnsFrontendReplies, Outcomes, Results
  <2>2. stage'[l]["app"] \in Results
    BY <1>0, <2>1, GotoOnly
  <2>3. stage[l]["nscd"] = "idle" /\ (cfg.dns /\ l \in reached' => Passed(l))
    BY <2>1 DEF Once, OnceApp
  <2> QED
    BY <1>1, <2>1, <2>2, <2>3 DEF Once, OnceApp, OnceNscd, AtMostOne, Passed, Results
<1>6. CASE AskResolver(l, "app")
  <2>1. /\ stage[l]["app"] = "dns" /\ judged' = judged /\ ~cfg.dns
        /\ \E s \in Results : Goto(l, "app", s)
    BY <1>6 DEF AskResolver, Skip
  <2>2. stage'[l]["app"] \in Results
    BY <1>0, <2>1, GotoOnly
  <2>3. stage[l]["nscd"] = "idle"
    BY <2>1 DEF Once, OnceApp
  <2> QED
    BY <1>1, <2>1, <2>2, <2>3 DEF Once, OnceApp, OnceNscd, AtMostOne, Results
<1> QED
  BY <1>2, <1>3, <1>4, <1>5, <1>6 DEF RunnerStep

\* While nothing fails, nscd is a relay wherever its client was judged, and
\* without the nscd front-end the NSS module is the first to judge it.
LEMMA OnceNscdRuns ==
  ASSUME IInv, Rest, NEW l \in Lookups, daemon = "up", cfg.nscd_user # None,
         Once(l), RunnerStep(l, "nscd")
  PROVE  Once(l)'
<1>0. Shape /\ "app" \in Runners /\ "nscd" \in Runners /\ Runners \ {"nscd"} = {"app"}
  BY DEF IInv, Runners
<1>1. /\ cfg' = cfg /\ stage'[l]["app"] = stage[l]["app"]
      /\ pending'[l]["app"] = pending[l]["app"]
      /\ cfg.nscd \in BOOLEAN /\ cfg.nss \in BOOLEAN /\ cfg.dns \in BOOLEAN
  BY <1>0, RunnerOnly, ConfigsAssumption DEF Shape
<1>2. stage[l]["nscd"] # "idle"
  BY DEF RunnerStep, NssModuleAsks, NssModuleUnavail, NssModuleReply, AskDnsFrontend,
         DnsFrontendReplies, AskResolver, DnsTimeout
<1>3. /\ stage[l]["app"] \in {"wait"} \cup Results
      /\ cfg.nscd => Passed(l)
      /\ ~cfg.nscd => (cfg.dns => cfg.nss)
  BY <1>2 DEF Once, OnceNscd
<1>4. OnceApp(l)'
  BY <1>1, <1>3 DEF OnceApp, Results
<1>5. CASE NssModuleAsks(l, "nscd")
  <2>1. stage[l]["nscd"] = "nss" /\ Goto(l, "nscd", "nss_reply") /\ reached' = reached
    BY <1>5 DEF NssModuleAsks
  <2>2. stage'[l]["nscd"] = "nss_reply"
    BY <1>0, <2>1, GotoOnly
  <2>3. CASE cfg.nscd
    <3>1. judged' = judged
      BY <1>0, <1>5, <2>3, NscdRelaysHere DEF NssModuleAsks, Relay
    <3> QED
      BY <1>1, <1>3, <1>4, <2>1, <2>2, <2>3, <3>1 DEF Once, OnceNscd, AtMostOne, Passed
  <2>4. CASE ~cfg.nscd
    <3>1. JudgeAs(l, "nscd", "policy_socket", PeerCaller(l, "nscd"))
      BY <1>0, <1>5, <2>4, NscdRelaysHere DEF NssModuleAsks
    <3>2. judged[l] = {} /\ (cfg.dns => l \notin reached)
      BY <1>2, <2>1, <2>4 DEF Once, OnceNscd, Passed
    <3>3. AtMostOne(l)' /\ (pending'[l]["nscd"] # "deny" => Passed(l)')
      BY <1>0, <3>1, <3>2, FirstJudgement
    <3> QED
      BY <1>1, <1>3, <1>4, <2>1, <2>2, <2>4, <3>2, <3>3 DEF Once, OnceNscd
  <2> QED
    BY <1>1, <2>3, <2>4
<1>6. CASE NssModuleUnavail(l, "nscd")
  <2>1. /\ stage[l]["nscd"] = "nss" /\ Goto(l, "nscd", "dns") /\ reached' = reached
        /\ judged' = judged
    BY <1>6 DEF NssModuleUnavail, Skip
  <2>2. stage'[l]["nscd"] = "dns"
    BY <1>0, <2>1, GotoOnly
  <2>3. ~cfg.nss
    BY <1>0, <1>6, GroupAssumption DEF NssModuleUnavail, MayQuery, Runner
  <2> QED
    BY <1>1, <1>3, <1>4, <2>1, <2>2, <2>3 DEF Once, OnceNscd, AtMostOne, Passed
<1>7. CASE NssModuleReply(l, "nscd")
  <2>1. /\ stage[l]["nscd"] = "nss_reply" /\ judged' = judged /\ reached' = reached
        /\ \/ \E s \in Results : Goto(l, "nscd", s)
           \/ Goto(l, "nscd", "dns") /\ pending[l]["nscd"] # "deny"
    BY <1>7 DEF NssModuleReply, Outcomes, Results
  <2>2. \/ stage'[l]["nscd"] \in Results
        \/ stage'[l]["nscd"] = "dns" /\ pending[l]["nscd"] # "deny"
    BY <1>0, <2>1, GotoOnly
  <2> QED
    BY <1>1, <1>3, <1>4, <2>1, <2>2 DEF Once, OnceNscd, AtMostOne, Passed, Results
<1>8. CASE AskDnsFrontend(l, "nscd")
  <2>1. /\ stage[l]["nscd"] = "dns" /\ Goto(l, "nscd", "dns_reply") /\ reached' = reached
        /\ cfg.dns
    BY <1>8 DEF AskDnsFrontend
  <2>2. stage'[l]["nscd"] = "dns_reply"
    BY <1>0, <2>1, GotoOnly
  <2>3. judged' = judged
    BY <1>0, <1>1, <1>3, <1>8, <2>1, NscdRelaysHere DEF AskDnsFrontend, Relay
  <2> QED
    BY <1>1, <1>3, <1>4, <2>1, <2>2, <2>3 DEF Once, OnceNscd, AtMostOne, Passed
<1>9. CASE DnsFrontendReplies(l, "nscd") \/ AskResolver(l, "nscd")
  <2>1. /\ stage[l]["nscd"] \in {"dns", "dns_reply"} /\ judged' = judged
        /\ \E s \in Results : Goto(l, "nscd", s)
    BY <1>9 DEF DnsFrontendReplies, AskResolver, Skip, Outcomes, Results
  <2>2. stage'[l]["nscd"] \in Results
    BY <1>0, <2>1, GotoOnly
  <2>3. cfg.dns => Passed(l)
    BY <1>1, <1>2, <1>3, <2>1 DEF Once, OnceNscd
  <2> QED
    BY <1>1, <1>3, <1>4, <2>1, <2>2, <2>3 DEF Once, OnceNscd, AtMostOne, Passed, Results
<1>10. CASE DnsTimeout(l, "nscd")
  BY <1>10 DEF DnsTimeout
<1> QED
  BY <1>5, <1>6, <1>7, <1>8, <1>9, <1>10 DEF RunnerStep

\* The steps of the NSS chain.
LEMMA OnceRunnerStep ==
  ASSUME IInv, Rest, OnceInv, NEW l \in Lookups, NEW r \in Runners, RunnerStep(l, r)
  PROVE  OnceInv'
<1>1. /\ UNCHANGED <<cfg, daemon, bypass, disturbed>>
      /\ \A k \in Lookups \ {l} : Same(k)
  BY RunnerOnly DEF IInv
<1>2. ASSUME cfg.nscd_user # None, l \notin disturbed' PROVE Once(l)'
  <2>1. Once(l) /\ daemon = "up"
    BY <1>1, <1>2 DEF OnceInv, Rest
  <2> QED
    BY <1>2, <2>1, OnceAppRuns, OnceNscdRuns DEF Runners
<1> QED
  BY <1>1, <1>2, OnceStep DEF OnceInv

\* A crash disturbs every lookup.
LEMMA OnceCrash ==
  ASSUME IInv, OnceInv, Crash
  PROVE  OnceInv'
<1>1. cfg' = cfg /\ disturbed' = Lookups
  BY DEF Crash
<1>2. cfg.nscd \/ (cfg.dns /\ ~cfg.nss) \/ \A p \in Processes : bypass'[p] = 0
  <2>1. ~cfg.nscd => \A k \in Lookups : stage[k]["app"] # "nscd_reply"
    BY DEF IInv, LookupInv, ReplyFavoured
  <2>2. ~cfg.nscd => \A p \in Processes : bypass'[p] = bypass[p]
    BY <2>1 DEF Crash
  <2> QED
    BY <2>2 DEF OnceInv
<1> QED
  BY <1>1, <1>2 DEF OnceInv

\* Every step keeps the lookups that nothing disturbs judged at most once.
LEMMA NextOnce ==
  ASSUME IInv, Rest, OnceInv, [Next]_vars
  PROVE  OnceInv'
<1>1. CASE Crash
  BY <1>1, OnceCrash
<1>2. CASE Restart \/ UNCHANGED vars
  <2>1. /\ UNCHANGED <<cfg, bypass, disturbed>> /\ \A k \in Lookups : Same(k)
        /\ daemon' = "up" \/ daemon' = daemon
    BY <1>2 DEF Restart, vars, Same
  <2>2. cfg.nscd_user # None => \A k \in Lookups \ disturbed : Once(k)'
    BY <2>1, OnceFrame DEF OnceInv
  <2> QED
    BY <2>1, <2>2 DEF OnceInv
<1>3. ASSUME NEW l \in Lookups, Start(l) \/ LookupStep(l) PROVE OnceInv'
  BY <1>3, OnceStart, OnceAppStep, OnceRunnerStep DEF LookupStep, IInv
<1> QED
  BY <1>1, <1>2, <1>3 DEF Next

\* For any programs, policy and number of lookups, in every configuration with
\* nscd_user: a lookup during which nothing fails is judged at most once, by
\* the first front-end on its way, and never passes the DNS front-end unjudged.
THEOREM JudgedOnceTheorem == Spec => []JudgedOnce
<1>1. Init => Rest /\ OnceInv
  <2>1. ASSUME Init PROVE Rest /\ OnceInv
    <3>1. Rest /\ daemon = "up" /\ \A p \in Processes : bypass[p] = 0
      BY <2>1, RetriesAssumption DEF Init, Rest
    <3>2. ASSUME NEW l \in Lookups PROVE Once(l)
      <4>1. /\ stage[l]["app"] = "idle" /\ stage[l]["nscd"] = "idle"
            /\ judged[l] = {} /\ l \notin reached
        BY <2>1 DEF Init, Runners
      <4> QED
        BY <4>1 DEF Once, OnceApp, OnceNscd, AtMostOne
    <3> QED
      BY <3>1, <3>2 DEF OnceInv
  <2> QED
    BY <2>1
<1>2. IInv /\ Rest /\ OnceInv /\ [Next]_vars => Rest' /\ OnceInv'
  BY RestStep, NextOnce DEF IInv
<1>3. OnceInv => JudgedOnce
  <2>1. ASSUME OnceInv, cfg.nscd_user # None, NEW l \in Lookups \ disturbed
        PROVE  /\ Cardinality(judged[l]) <= 1
               /\ cfg.dns /\ l \in reached => \E j \in judged[l] : j.verdict # "Denied"
    <3>1. Once(l)
      BY <2>1 DEF OnceInv
    <3>2. CASE judged[l] = {}
      BY <3>1, <3>2, FS_EmptySet DEF Once, Passed
    <3>3. CASE judged[l] # {}
      <4>1. PICK j : judged[l] = {j}
        BY <3>1, <3>3 DEF Once, AtMostOne
      <4>2. Cardinality(judged[l]) = 1
        BY <4>1, FS_Singleton
      <4> QED
        BY <3>1, <4>2 DEF Once, Passed
    <3> QED
      BY <3>2, <3>3
  <2> QED
    BY <2>1 DEF JudgedOnce
<1> QED
  BY <1>1, <1>2, <1>3, StackInvariant, PTL DEF Spec
=============================================================================
