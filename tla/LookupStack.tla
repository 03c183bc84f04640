----------------------------- MODULE LookupStack -----------------------------
(***************************************************************************)
(* How the front-ends stack (src/relay.rs):                                *)
(*                                                                         *)
(*   glibc -> [nscd front-end] -> nscd -> [NSS module] -> dns              *)
(*         -> [DNS front-end] -> the real resolver                         *)
(*                                                                         *)
(* A lookup is run by the process that makes it and, when nscd is asked,   *)
(* by nscd too; both walk the same NSS chain, each as its own user.  Every *)
(* exchange with the daemon is a question and a reply, and the daemon may  *)
(* go down between the two and come back.  The insides of the front-ends   *)
(* are modules of their own; here they decide in one step.                 *)
(***************************************************************************)
EXTENDS Policy

CONSTANTS
  Lookups,      \* lookups in progress at a time
  Processes,    \* the programs that make them
  Creds,        \* their credentials, and those of nscd
  Nscd,         \* nscd
  Names,        \* the host names they look up
  Engine,       \* the compiled policy
  Configs,      \* [nscd, nss, dns, identify_processes : BOOLEAN, nscd_user]
  SocketGroup,  \* who may open the policy socket (mode 0660)
  Retries       \* bound: lookups glibc makes without nscd once it failed

VARIABLES
  cfg,       \* the configuration
  daemon,    \* "up" or "down"
  bypass,    \* lookups a process still makes without asking nscd
  proc,      \* which process a lookup belongs to
  name,      \* the name it is for
  stage,     \* where each runner of a lookup is
  pending,   \* what the daemon decided, until its reply is delivered
  judged,    \* the judgements of a lookup so far: [by, caller, verdict]
  relayed,   \* the lookups a listener let pass as judged already
  reached,   \* the lookups the real resolver was asked about
  disturbed  \* the lookups during which something was down or bypassed

vars == <<cfg, daemon, bypass, proc, name, stage, pending, judged, relayed,
          reached, disturbed>>

lookupVars == <<cfg, daemon, bypass, proc, name>>

Runners == {"app", "nscd"}
Results == {"found", "notfound", "failed"}

Callers == [uid : Nat, gid : Nat \cup {None}, pid : Nat \cup {None}]

ASSUME CredsAssumption ==
  /\ Nscd \notin Processes
  /\ Creds \in [Processes \cup {Nscd} -> [uid : Nat, gid : Nat, pid : Nat]]
  /\ \A p \in Processes : Creds[p].uid # Creds[Nscd].uid

ASSUME ConfigsAssumption ==
  \A c \in Configs :
    /\ c.nscd \in BOOLEAN /\ c.nss \in BOOLEAN /\ c.dns \in BOOLEAN
    /\ c.identify_processes \in BOOLEAN
    /\ c.nscd_user \in {None, Creds[Nscd].uid}

\* deezns.nix puts nscd into the group of the socket along with the module.
ASSUME GroupAssumption == Creds[Nscd].uid \in SocketGroup

ASSUME RetriesAssumption == Retries \in Nat

\* from_config: every rule has one of three verdicts.
ASSUME EngineAssumption ==
  /\ Len(Engine.rules) \in Nat
  /\ \A i \in 1 .. Len(Engine.rules) :
       Engine.rules[i].verdict \in {"Allow", "Deny", "Passthrough"}

-----------------------------------------------------------------------------
(* Relays.                                                                 *)

\* Mutant: the DNS front-end trusts nscd only behind the nscd front-end.
relaying_nscd_only(c) == [policy_socket |-> c.nscd, dns |-> c.nscd]

\* Mutant: the policy socket passes nscd through behind its own module.
relaying_nss_too(c) == [policy_socket |-> c.nscd \/ c.nss, dns |-> c.nscd \/ c.nss]

\* Mutant: the policy socket knows no relays.
relaying_dns_only(c) == [policy_socket |-> FALSE, dns |-> c.nscd \/ c.nss]

\* Whether nscd is a relay on the policy socket and on the DNS front-end.
relaying(c) == [policy_socket |-> c.nscd, dns |-> c.nscd \/ c.nss]

for_config(c, listener) ==
  IF relaying(c)[listener] /\ c.nscd_user # None THEN {c.nscd_user} ELSE {}

-----------------------------------------------------------------------------
(* What the three listeners do with a question, and who they see.          *)

\* All three judge, answer from the daemon's own records or let pass.
Decision(nm, caller) ==
  LET verdict == evaluate_for(Engine, nm, caller)
  IN  IF verdict = "Denied" THEN "deny"
      ELSE IF verdict = "Allowed" /\ upstream_resolve(nm) # <<>> THEN "answer"
      ELSE "pass"

Runner(l, r) == IF r = "app" THEN proc[l] ELSE Nscd

\* SO_PEERCRED of the runner.
PeerCaller(l, r) == Creds[Runner(l, r)]

\* The nscd front-end sees the process itself.
NscdCaller(l) == PeerCaller(l, "app")

\* Mutant: without identify_processes nobody is identified.
DnsCaller_unknown(l, r) ==
  IF cfg.identify_processes THEN PeerCaller(l, r)
                            ELSE [uid |-> None, gid |-> None, pid |-> None]

\* What identify makes of the runner's socket, which stays open until the
\* answer.
DnsCaller(l, r) ==
  IF cfg.identify_processes THEN PeerCaller(l, r)
                            ELSE [PeerCaller(l, r) EXCEPT !.gid = None, !.pid = None]

\* The lookup l is judged by a front-end, which replies accordingly.
JudgeAs(l, r, by, caller) ==
  /\ judged' = [judged EXCEPT ![l] = @ \cup
       {[by |-> by, caller |-> caller, verdict |-> evaluate_for(Engine, name[l], caller)]}]
  /\ pending' = [pending EXCEPT ![l][r] = Decision(name[l], caller)]
  /\ UNCHANGED relayed

\* A relay's question is passed through unjudged.
Relay(l, r) ==
  /\ pending' = [pending EXCEPT ![l][r] = "pass"]
  /\ relayed' = relayed \cup {l}
  /\ UNCHANGED judged

\* What a listener's reply comes to: an answer from the daemon's records may
\* have no address of the family asked for (filter_addrs, NO_DATA, NODATA).
Outcomes(decision, passed) ==
  CASE decision = "deny"   -> {"notfound"}
    [] decision = "answer" -> {"found", "notfound"}
    [] OTHER               -> passed

Goto(l, r, s) == stage' = [stage EXCEPT ![l][r] = s]

\* Nothing comes of asking the daemon: on to the next source.
Skip(l, r, s) ==
  /\ Goto(l, r, s)
  /\ UNCHANGED <<pending, judged, relayed>>

-----------------------------------------------------------------------------

Init ==
  /\ cfg \in Configs
  /\ daemon = "up"
  /\ bypass = [p \in Processes |-> 0]
  /\ proc \in [Lookups -> Processes]
  /\ name \in [Lookups -> Names]
  /\ stage = [l \in Lookups |-> [r \in Runners |-> "idle"]]
  /\ pending = [l \in Lookups |-> [r \in Runners |-> None]]
  /\ judged = [l \in Lookups |-> {}]
  /\ relayed = {}
  /\ reached = {}
  /\ disturbed = {}

\* A process looks a name up: through glibc, or with a DNS client of its own.
Start(l) ==
  /\ stage[l]["app"] \in {"idle"} \cup Results
  /\ stage[l]["nscd"] \in {"idle"} \cup Results
  /\ \E p \in Processes : proc' = [proc EXCEPT ![l] = p]
  /\ \E nm \in Names : name' = [name EXCEPT ![l] = nm]
  /\ \E way \in {"glibc", "dns"} :
       stage' = [stage EXCEPT ![l] = [app |-> way, nscd |-> "idle"]]
  /\ pending' = [pending EXCEPT ![l] = [r \in Runners |-> None]]
  /\ judged' = [judged EXCEPT ![l] = {}]
  /\ relayed' = relayed \ {l}
  /\ reached' = reached \ {l}
  /\ disturbed' = IF daemon = "down" THEN disturbed \cup {l} ELSE disturbed \ {l}
  /\ UNCHANGED <<cfg, daemon, bypass>>

\* glibc remembers that nscd failed and does not ask it.
BypassNscd(l) ==
  /\ stage[l]["app"] = "glibc"
  /\ bypass[proc[l]] > 0
  /\ bypass' = [bypass EXCEPT ![proc[l]] = @ - 1]
  /\ disturbed' = IF cfg.nscd THEN disturbed \cup {l} ELSE disturbed
  /\ Skip(l, "app", "nss")
  /\ UNCHANGED <<cfg, daemon, proc, name, reached>>

\* glibc connects to nscd's socket: the nscd front-end, which judges.
AskNscdFrontend(l) ==
  /\ stage[l]["app"] = "glibc"
  /\ bypass[proc[l]] = 0
  /\ cfg.nscd /\ daemon = "up"
  /\ JudgeAs(l, "app", "nscd", NscdCaller(l))
  /\ Goto(l, "app", "nscd_reply")
  /\ UNCHANGED <<reached, disturbed, lookupVars>>

\* Nobody listens there, or nsncd answers that it does not serve hosts
\* (NSNCD_IGNORE_HOSTS, set for the DNS front-end alone).
NoNscd(l) ==
  /\ stage[l]["app"] = "glibc"
  /\ bypass[proc[l]] = 0
  /\ IF cfg.nscd THEN daemon = "down" ELSE cfg.dns /\ ~cfg.nss
  /\ bypass' = [bypass EXCEPT ![proc[l]] = Retries]
  /\ Skip(l, "app", "nss")
  /\ UNCHANGED <<cfg, daemon, proc, name, reached, disturbed>>

\* Without the nscd front-end glibc asks nscd itself.
AskNscd(l) ==
  /\ stage[l]["app"] = "glibc"
  /\ bypass[proc[l]] = 0
  /\ ~cfg.nscd /\ ~(cfg.dns /\ ~cfg.nss)
  /\ stage' = [stage EXCEPT ![l] = [app |-> "wait", nscd |-> "nss"]]
  /\ UNCHANGED <<pending, judged, relayed, reached, disturbed, lookupVars>>

\* The front-end's own reply, or its request to the real nscd.
NscdFrontendReplies(l) ==
  /\ stage[l]["app"] = "nscd_reply"
  /\ daemon = "up"
  /\ \E s \in Outcomes(pending[l]["app"], {"wait"}) :
       IF s = "wait" THEN stage' = [stage EXCEPT ![l] = [app |-> "wait", nscd |-> "nss"]]
                     ELSE Goto(l, "app", s)
  /\ UNCHANGED <<pending, judged, relayed, reached, disturbed, lookupVars>>

\* nscd is done; its reply gets to the process, through the front-end if
\* that is there.
NscdAnswers(l) ==
  /\ stage[l]["app"] = "wait"
  /\ stage[l]["nscd"] \in Results
  /\ cfg.nscd => daemon = "up"
  /\ Goto(l, "app", stage[l]["nscd"])
  /\ UNCHANGED <<pending, judged, relayed, reached, disturbed, lookupVars>>

\* The front-end's deadline: TRY_AGAIN, while nscd works on.
NscdTimeout(l) ==
  /\ stage[l]["app"] = "wait"
  /\ cfg.nscd /\ daemon = "up"
  /\ Goto(l, "app", "failed")
  /\ UNCHANGED <<pending, judged, relayed, reached, disturbed, lookupVars>>

(***************************************************************************)
(* The NSS chain, in the process or in nscd: the deezns module, then dns.  *)
(***************************************************************************)

\* query_daemon can ask.
MayQuery(l, r) == cfg.nss /\ daemon = "up" /\ Creds[Runner(l, r)].uid \in SocketGroup

\* handle_connection: a relay passes, anyone else is judged.
NssModuleAsks(l, r) ==
  /\ stage[l][r] = "nss"
  /\ MayQuery(l, r)
  /\ IF RelayContains(for_config(cfg, "policy_socket"), PeerCaller(l, r))
     THEN Relay(l, r)
     ELSE JudgeAs(l, r, "policy_socket", PeerCaller(l, r))
  /\ Goto(l, r, "nss_reply")
  /\ UNCHANGED <<reached, disturbed, lookupVars>>

\* The module is not there or cannot reach the daemon: UNAVAIL.
NssModuleUnavail(l, r) ==
  /\ stage[l][r] = "nss"
  /\ ~MayQuery(l, r)
  /\ Skip(l, r, "dns")
  /\ UNCHANGED <<reached, disturbed, lookupVars>>

\* Mutant: PassThrough has glibc ask the module again.
NssModuleReply_again(l, r) ==
  /\ stage[l][r] = "nss_reply"
  /\ \E s \in Outcomes(pending[l][r], {"nss"}) : Goto(l, r, s)
  /\ UNCHANGED <<pending, judged, relayed, reached, disturbed, lookupVars>>

\* Denied is NotFound, which ends the chain; PassThrough is Unavail.
NssModuleReply(l, r) ==
  /\ stage[l][r] = "nss_reply"
  /\ \E s \in Outcomes(pending[l][r], {"dns"}) : Goto(l, r, s)
  /\ UNCHANGED <<pending, judged, relayed, reached, disturbed, lookupVars>>

\* The dns source, or a DNS client, asks the nameserver of resolv.conf: the
\* DNS front-end.  A relay's query is forwarded, anyone else's judged.
AskDnsFrontend(l, r) ==
  /\ stage[l][r] = "dns"
  /\ cfg.dns /\ daemon = "up"
  /\ IF RelayContains(for_config(cfg, "dns"), DnsCaller(l, r))
     THEN Relay(l, r)
     ELSE JudgeAs(l, r, "dns", DnsCaller(l, r))
  /\ Goto(l, r, "dns_reply")
  /\ UNCHANGED <<reached, disturbed, lookupVars>>

\* Mutant: the query goes upstream while it is being judged.
DnsFrontendReplies_eager(l, r) ==
  /\ stage[l][r] = "dns_reply"
  /\ daemon = "up"
  /\ \E s \in Outcomes(pending[l][r], Results) : Goto(l, r, s)
  /\ reached' = reached \cup {l}
  /\ UNCHANGED <<pending, judged, relayed, disturbed, lookupVars>>

\* The front-end's own reply, what the real resolver says, or SERVFAIL.
DnsFrontendReplies(l, r) ==
  /\ stage[l][r] = "dns_reply"
  /\ daemon = "up"
  /\ \E s \in Outcomes(pending[l][r], Results) : Goto(l, r, s)
  /\ reached' = IF pending[l][r] = "pass" THEN reached \cup {l} ELSE reached
  /\ UNCHANGED <<pending, judged, relayed, disturbed, lookupVars>>

\* Without the DNS front-end resolv.conf names the real resolver.
AskResolver(l, r) ==
  /\ stage[l][r] = "dns"
  /\ ~cfg.dns
  /\ reached' = reached \cup {l}
  /\ \E s \in Results : Skip(l, r, s)
  /\ UNCHANGED <<disturbed, lookupVars>>

\* The client's resolver gives up on a nameserver that does not answer.
DnsTimeout(l, r) ==
  /\ stage[l][r] \in {"dns", "dns_reply"}
  /\ cfg.dns
  /\ daemon = "down"
  /\ Skip(l, r, "failed")
  /\ UNCHANGED <<reached, disturbed, lookupVars>>

(***************************************************************************)
(* The daemon goes down and systemd starts it again (Restart=on-failure).  *)
(***************************************************************************)

\* Where a runner finds itself when its exchange with the daemon is cut off:
\* glibc does without nscd, the module is unavailable, a resolver asks again.
CutOff(s) ==
  CASE s = "nscd_reply" -> "nss"
    [] s = "wait" /\ cfg.nscd -> "nss"
    [] s = "nss_reply" -> "dns"
    [] s = "dns_reply" -> "dns"
    [] OTHER -> s

Crash ==
  /\ daemon = "up"
  /\ daemon' = "down"
  /\ stage' = [l \in Lookups |-> [r \in Runners |-> CutOff(stage[l][r])]]
  /\ bypass' = [p \in Processes |->
       IF \E l \in Lookups : /\ proc[l] = p
                             /\ \/ stage[l]["app"] = "nscd_reply"
                                \/ stage[l]["app"] = "wait" /\ cfg.nscd
       THEN Retries ELSE bypass[p]]
  /\ disturbed' = Lookups
  /\ UNCHANGED <<cfg, proc, name, pending, judged, relayed, reached>>

Restart ==
  /\ daemon = "down"
  /\ daemon' = "up"
  /\ UNCHANGED <<cfg, bypass, proc, name, stage, pending, judged, relayed, reached,
                 disturbed>>

RunnerStep(l, r) ==
  \/ NssModuleAsks(l, r) \/ NssModuleUnavail(l, r) \/ NssModuleReply(l, r)
  \/ AskDnsFrontend(l, r) \/ DnsFrontendReplies(l, r) \/ AskResolver(l, r)
  \/ DnsTimeout(l, r)

AppStep(l) ==
  \/ BypassNscd(l) \/ AskNscdFrontend(l) \/ NoNscd(l) \/ AskNscd(l)
  \/ NscdFrontendReplies(l) \/ NscdAnswers(l) \/ NscdTimeout(l)

LookupStep(l) == AppStep(l) \/ \E r \in Runners : RunnerStep(l, r)

Next ==
  \/ Crash \/ Restart
  \/ \E l \in Lookups : Start(l) \/ LookupStep(l)

\* Processes, nscd and the daemon run; systemd restarts the daemon.  Nothing
\* makes a process start a lookup, or the daemon go down.
Fairness == WF_vars(Restart) /\ \A l \in Lookups : WF_vars(LookupStep(l))

Spec == Init /\ [][Next]_vars /\ Fairness

-----------------------------------------------------------------------------
(* Properties.                                                             *)

Stages == {"idle", "glibc", "nscd_reply", "wait", "nss", "nss_reply", "dns",
           "dns_reply"} \cup Results

Judgements ==
  [by : {"nscd", "policy_socket", "dns"}, caller : Callers, verdict : Verdicts]

\* Types of the stack's state.
TypeOK ==
  /\ cfg \in Configs
  /\ daemon \in {"up", "down"}
  /\ bypass \in [Processes -> 0 .. Retries]
  /\ proc \in [Lookups -> Processes]
  /\ name \in [Lookups -> Names]
  /\ stage \in [Lookups -> [Runners -> Stages]]
  /\ pending \in [Lookups -> [Runners -> {None, "deny", "answer", "pass"}]]
  /\ judged \in [Lookups -> SUBSET Judgements]
  /\ relayed \in SUBSET Lookups
  /\ reached \in SUBSET Lookups
  /\ disturbed \in SUBSET Lookups

\* "Combined, a lookup is judged once, by the first front-end it reaches"
\* (deezns.nix, line 29): while nothing fails and nscd_user is set, the
\* front-ends on the way of a lookup never judge it twice, and what gets
\* past the DNS front-end was judged.
JudgedOnce ==
  cfg.nscd_user # None =>
    \A l \in Lookups \ disturbed :
      /\ Cardinality(judged[l]) <= 1
      /\ cfg.dns /\ l \in reached => \E j \in judged[l] : j.verdict # "Denied"

\* With the nscd front-end enabled and nscd_user set, nobody ever judges a
\* lookup by nscd's credentials, daemon restarts included: the per-user rules
\* are never undone further down the stack (relay.rs, lines 13-18).
NeverJudgedAsNscd ==
  cfg.nscd /\ cfg.nscd_user # None =>
    \A l \in Lookups : \A j \in judged[l] : j.caller.uid # Creds[Nscd].uid

\* A lookup that a listener lets pass as "judged by another front-end"
\* (dns.rs, line 409; daemon.rs, line 58) was judged by another front-end,
\* and not denied.
RelayedWasJudged ==
  \A l \in relayed : \E j \in judged[l] : j.verdict # "Denied"

\* So it is, through every crash and restart, in every configuration but the
\* one that stacks the NSS module before the DNS front-end without the nscd
\* front-end (relaying).
RelaysAreSafe ==
  cfg.nscd \/ ~(cfg.nss /\ cfg.dns) => RelayedWasJudged

\* Behind the DNS front-end, alone or with the nscd front-end before it, the
\* real resolver is never asked for a name without a judgement of the very
\* process that asks, and one that lets it pass: not while the daemon goes
\* down and up, and not while glibc avoids nscd because of it.
ResolverIsGuarded ==
  cfg.dns /\ (cfg.nscd \/ ~cfg.nss) =>
    \A l \in reached : \E j \in judged[l] :
      j.verdict # "Denied" /\ j.caller.uid = Creds[proc[l]].uid

\* Once the daemon stays up, every lookup comes to an end, whatever was cut
\* off before: no process and no nscd is left waiting for a lost reply.
EveryLookupEnds ==
  <>[](daemon = "up") =>
    \A l \in Lookups :
      stage[l]["app"] \notin {"idle"} \cup Results ~> stage[l]["app"] \in Results
=============================================================================
