------------------------------- MODULE Daemon -------------------------------
(***************************************************************************)
(* The daemon process (src/daemon.rs): its start-up up to the bound        *)
(* sockets, the listeners' tasks as far as accepting goes, the end of the  *)
(* process and its restart by systemd.  What the listeners do with what    *)
(* they accept is in the front-ends' modules.                              *)
(***************************************************************************)
EXTENDS PolicyLoad

CONSTANTS
  Configs,         \* the configuration files the daemon may be started with
  Passwd,          \* the user database: name -> [uid, len]
  FdLimit,         \* connections the process has descriptors for
  MaxConnections,  \* permits of the nscd and of the DNS front-end
  MaxWaiting,      \* the length of a listen queue
  MaxFaults        \* bound: failures of the system, in all starts together

VARIABLES
  buf,      \* uid_of: the size of the buffer
  nscdUid,  \* the uid of nscd_user, None if not resolved
  files,    \* the unix sockets' files on disk, left from any start
  bound,    \* the listeners whose sockets are bound
  tasks,    \* the listeners whose task runs
  waiting,  \* clients in each listen queue
  open,     \* connections accepted and not yet closed
  faults    \* failures so far

startVars == <<buf, nscdUid, files, bound>>
serveVars == <<tasks, waiting, open>>
vars      == <<cfg, phase, loadVars, startVars, serveVars, faults>>

Listeners == {"policy", "nscd", "dns"}

ASSUME BoundsAssumption ==
  /\ FdLimit \in Nat /\ MaxConnections \in Nat \ {0}
  /\ MaxWaiting \in Nat /\ MaxFaults \in Nat

\* A configuration as serde reads it: lists and rules, each with its fields.
ASSUME ConfigsAssumption ==
  \A c \in Configs :
    /\ c.blocklists \in Seq([name : STRING, path : DOMAIN Files])
    /\ c.rules \in Seq([program : STRING, verdict : {"Allow", "Deny", "Passthrough"}])

-----------------------------------------------------------------------------
(* The configuration.  A section is None if it is absent.                  *)

Enabled(section) == section # None /\ section.enable

nscd(c) == Enabled(c.nscd_frontend)
dns(c)  == Enabled(c.dns_frontend)
nss(c)  == Enabled(c.nss_frontend)

\* for_config looks the user up only if some listener relays for it.
NeedsUser(c) == c.nscd_user # None /\ (nscd(c) \/ nss(c))

ListenersOf(c) ==
  {"policy"} \cup (IF nscd(c) THEN {"nscd"} ELSE {}) \cup (IF dns(c) THEN {"dns"} ELSE {})

-----------------------------------------------------------------------------

Init ==
  /\ cfg \in Configs /\ phase = "config"
  /\ list = 1 /\ line = 1 /\ entries = NoEntries
  /\ blocklists = [n \in {} |-> NoEntries] /\ rules = <<>>
  /\ buf = 1024 /\ nscdUid = None
  /\ bound = {} /\ tasks = {}
  /\ waiting = [l \in Listeners |-> 0] /\ open = [l \in Listeners |-> 0]
  /\ files = {}
  /\ faults = 0

\* The process ends, and all it held with it; the files of its sockets stay.
Exit ==
  /\ phase' = "down"
  /\ list' = 1 /\ line' = 1 /\ entries' = NoEntries
  /\ blocklists' = [n \in {} |-> NoEntries] /\ rules' = <<>>
  /\ buf' = 1024 /\ nscdUid' = None
  /\ bound' = {} /\ tasks' = {}
  /\ waiting' = [l \in Listeners |-> 0] /\ open' = [l \in Listeners |-> 0]
  /\ cfg' = cfg

(***************************************************************************)
(* main, up to the tasks.                                                  *)
(***************************************************************************)

\* Mutant: the sockets come first, then the user.
After_sockets_first(p) ==
  CASE p = "config" -> "lists"  [] p = "rules"  -> "policy" [] p = "policy" -> "nscd"
    [] p = "nscd"   -> "relays" [] p = "relays" -> "dns"    [] p = "dns"    -> "serving"

\* The order of main's steps; PolicyLoad goes from "lists" to "rules".
After(p) ==
  CASE p = "config" -> "lists"  [] p = "rules"  -> "relays" [] p = "relays" -> "policy"
    [] p = "policy" -> "nscd"   [] p = "nscd"   -> "dns"    [] p = "dns"    -> "serving"

\* from_path: the file is read and parsed.
ReadConfig ==
  /\ phase = "config" /\ cfg.parses
  /\ phase' = After(phase)
  /\ UNCHANGED <<cfg, loadVars, startVars, serveVars, faults>>

Load ==
  /\ LoadStep
  /\ UNCHANGED <<startVars, serveVars, faults>>

EngineReady ==
  /\ phase = "rules" /\ Len(rules) = Len(cfg.rules)
  /\ phase' = After(phase)
  /\ UNCHANGED <<cfg, loadVars, startVars, serveVars, faults>>

\* getpwnam_r asks whoever listens on nscd's socket.  Were that this very
\* daemon, which is not serving yet, the call would never return.
LookupReturns == "nscd" \notin bound

\* ERANGE: again, with twice the room.
GrowBuffer ==
  /\ phase = "relays" /\ NeedsUser(cfg) /\ LookupReturns
  /\ cfg.nscd_user \in DOMAIN Passwd /\ Passwd[cfg.nscd_user].len > buf
  /\ buf' = 2 * buf
  /\ UNCHANGED <<cfg, phase, loadVars, nscdUid, files, bound, serveVars, faults>>

ResolveRelays ==
  /\ phase = "relays"
  /\ IF NeedsUser(cfg)
     THEN /\ LookupReturns
          /\ cfg.nscd_user \in DOMAIN Passwd /\ Passwd[cfg.nscd_user].len <= buf
          /\ nscdUid' = Passwd[cfg.nscd_user].uid
     ELSE nscdUid' = nscdUid
  /\ phase' = After(phase)
  /\ UNCHANGED <<cfg, loadVars, buf, files, bound, serveVars, faults>>

\* Mutant: a file that is in the way stays there.
Cleared_not(l) == files

\* remove_file, if there is one.
Cleared(l) == files \ {l}

\* Mutant: a listener is served as soon as it is bound.
BindUnix_serves(l) ==
  /\ phase = l /\ l \in ListenersOf(cfg) /\ l \notin Cleared(l)
  /\ files' = files \cup {l}
  /\ bound' = bound \cup {l}
  /\ tasks' = tasks \cup {l}
  /\ phase' = After(phase)
  /\ UNCHANGED <<cfg, loadVars, buf, nscdUid, waiting, open, faults>>

\* bind_policy_socket, and nscd::Frontend::bind if that is enabled: remove
\* what an earlier start left, bind, set the mode.
BindUnix(l) ==
  /\ phase = l /\ l \in ListenersOf(cfg) /\ l \notin Cleared(l)
  /\ files' = files \cup {l}
  /\ bound' = bound \cup {l}
  /\ phase' = After(phase)
  /\ UNCHANGED <<cfg, loadVars, buf, nscdUid, serveVars, faults>>

\* dns::Frontend::new needs an upstream server; then both its sockets.  With
\* everything bound the tasks are spawned.
BindDns ==
  /\ phase = "dns" /\ (dns(cfg) => cfg.dns_frontend.upstream)
  /\ bound' = bound \cup (IF dns(cfg) THEN {"dns"} ELSE {})
  /\ tasks' = bound'
  /\ phase' = After(phase)
  /\ UNCHANGED <<cfg, loadVars, buf, nscdUid, files, waiting, open, faults>>

\* A front-end that is not enabled.
SkipNscd ==
  /\ phase = "nscd" /\ ~nscd(cfg)
  /\ phase' = After(phase)
  /\ UNCHANGED <<cfg, loadVars, startVars, serveVars, faults>>

\* A step of main returns an error that is in the configuration (or finds a
\* file in the way of a socket).
StartFails ==
  /\ \/ phase = "config" /\ ~cfg.parses
     \/ LoadError
     \/ phase = "relays" /\ NeedsUser(cfg) /\ LookupReturns /\ cfg.nscd_user \notin DOMAIN Passwd
     \/ phase \in {"policy", "nscd"} /\ phase \in ListenersOf(cfg) /\ phase \in Cleared(phase)
     \/ phase = "dns" /\ dns(cfg) /\ ~cfg.dns_frontend.upstream
  /\ Exit
  /\ UNCHANGED <<files, faults>>

\* A step of main fails through no fault of the configuration: the user
\* database, a directory, an address in use.  Of a socket's file there is
\* then the old one, none or a new one.
StartFault ==
  /\ phase \in {"relays", "policy", "nscd", "dns"} /\ faults < MaxFaults
  /\ Exit
  /\ files' \in IF phase \in {"policy", "nscd"}
                THEN {files, files \ {phase}, files \cup {phase}} ELSE {files}
  /\ faults' = faults + 1

(***************************************************************************)
(* Serving.                                                                *)
(***************************************************************************)

\* A client of a bound socket joins its listen queue, or finds it full.
Connect(l) ==
  /\ l \in bound
  /\ waiting' = [waiting EXCEPT ![l] = IF @ < MaxWaiting THEN @ + 1 ELSE @]
  /\ UNCHANGED <<cfg, phase, loadVars, startVars, tasks, open, faults>>

OutOfDescriptors == open["policy"] + open["nscd"] + open["dns"] >= FdLimit

\* Mutant: the front-ends have no limit either.
MayAccept_unlimited(l) == l \in tasks /\ waiting[l] > 0

\* The policy socket's loop accepts without a limit of its own.
MayAccept(l) ==
  l \in tasks /\ waiting[l] > 0 /\ (l # "policy" => open[l] < MaxConnections)

Accept(l) ==
  /\ MayAccept(l) /\ ~OutOfDescriptors
  /\ waiting' = [waiting EXCEPT ![l] = @ - 1]
  /\ open' = [open EXCEPT ![l] = @ + 1]
  /\ UNCHANGED <<cfg, phase, loadVars, startVars, tasks, faults>>

\* accept() fails: the front-ends pause and try again, serve_policy_socket
\* returns the error.
AcceptFails(l) ==
  /\ MayAccept(l) /\ OutOfDescriptors
  /\ tasks' = IF l = "policy" THEN tasks \ {l} ELSE tasks
  /\ UNCHANGED <<cfg, phase, loadVars, startVars, waiting, open, faults>>

\* A connection's handler returns.
Close(l) ==
  /\ open[l] > 0
  /\ open' = [open EXCEPT ![l] = @ - 1]
  /\ UNCHANGED <<cfg, phase, loadVars, startVars, tasks, waiting, faults>>

\* recv_from fails, which ends serve_udp and with it serve (try_join).
RecvFails ==
  /\ "dns" \in tasks /\ faults < MaxFaults
  /\ tasks' = tasks \ {"dns"}
  /\ faults' = faults + 1
  /\ UNCHANGED <<cfg, phase, loadVars, startVars, waiting, open>>

\* Mutant: main waits for all of its tasks.
JoinNext_all ==
  /\ phase = "serving" /\ tasks = {}
  /\ Exit
  /\ UNCHANGED <<files, faults>>

\* join_next: the first task to stop ends main, and main the others.
JoinNext ==
  /\ phase = "serving" /\ tasks # bound
  /\ Exit
  /\ UNCHANGED <<files, faults>>

\* The process is killed.
Killed ==
  /\ phase # "down" /\ faults < MaxFaults
  /\ Exit
  /\ faults' = faults + 1
  /\ UNCHANGED files

\* systemd, Restart=on-failure; with RuntimeDirectory= the files may be gone.
Restart ==
  /\ phase = "down"
  /\ phase' = "config"
  /\ files' \in SUBSET files
  /\ UNCHANGED <<cfg, loadVars, buf, nscdUid, bound, serveVars, faults>>

StartStep ==
  \/ ReadConfig \/ Load \/ EngineReady \/ GrowBuffer \/ ResolveRelays
  \/ \E l \in {"policy", "nscd"} : BindUnix(l)
  \/ BindDns \/ SkipNscd \/ StartFails

Next ==
  \/ StartStep \/ StartFault
  \/ \E l \in Listeners : Connect(l) \/ Accept(l) \/ AcceptFails(l) \/ Close(l)
  \/ RecvFails \/ JoinNext \/ Killed \/ Restart

\* main and the runtime go on while they can, and systemd restarts what
\* failed.  Nothing is assumed of clients.
Fairness == WF_vars(StartStep) /\ WF_vars(JoinNext) /\ WF_vars(Restart)

Spec == Init /\ [][Next]_vars /\ Fairness

-----------------------------------------------------------------------------
(* Properties.                                                             *)

\* Nothing is wrong with a configuration: every path leads to a file, every
\* rule compiles, the user exists, the DNS front-end has an upstream server.
Good(c) ==
  /\ c.parses
  /\ \A i \in 1 .. Len(c.blocklists) : Files[c.blocklists[i].path].kind = "file"
  /\ \A i \in 1 .. Len(c.rules) : Compiles(c.rules[i].program)
  /\ NeedsUser(c) => c.nscd_user \in DOMAIN Passwd
  /\ dns(c) => c.dns_frontend.upstream

\* Types of the process's state; the front-ends stay within their permits and
\* all connections within the descriptors.
TypeOK ==
  /\ cfg \in Configs
  /\ phase \in {"config", "lists", "lines", "rules", "relays", "policy", "nscd", "dns",
                "serving", "down"}
  /\ list \in Nat /\ line \in Nat /\ buf \in Nat /\ Len(rules) <= Len(cfg.rules)
  /\ files \subseteq {"policy", "nscd"} /\ bound \subseteq Listeners /\ tasks \subseteq bound
  /\ waiting \in [Listeners -> 0 .. MaxWaiting]
  /\ open \in [Listeners -> 0 .. FdLimit]
  /\ open["nscd"] <= MaxConnections /\ open["dns"] <= MaxConnections
  /\ faults \in 0 .. MaxFaults

\* "Bind everything before serving anything, so a bad configuration fails the
\* whole daemon instead of half of it" (main): whoever is served is served by
\* a daemon whose whole configuration is good, with every enabled listener
\* bound, the user of nscd known, every rule compiled and every list loaded.
NoHalfStart ==
  tasks # {} =>
    /\ Good(cfg) /\ bound = ListenersOf(cfg)
    /\ NeedsUser(cfg) => nscdUid = Passwd[cfg.nscd_user].uid
    /\ rules = cfg.rules
    /\ DOMAIN blocklists = {cfg.blocklists[i].name : i \in 1 .. Len(cfg.blocklists)}

\* A line of a blocklist names a host, by the formats the module's comment
\* lists: the domain alone or after an address names itself, a domain after
\* || itself and everything below it.
Lists(l, host) ==
  \E w \in 1 .. Len(l.words) :
    LET d == l.words[w].name
        n == Len(host.labels) - Len(d.labels)
    IN  /\ l.words[w].clean /\ l.words[w].len <= 253 /\ Len(d.labels) >= 2 /\ d.dots = 0
        /\ \/ /\ l.start = "" /\ host.labels = d.labels
              /\ \/ Len(l.words) = 1
                 \/ w = 2 /\ l.words[1].ip
           \/ /\ l.start = "||" /\ Len(l.words) = 1
              /\ n >= 0 /\ SubSeq(host.labels, n + 1, Len(host.labels)) = d.labels

\* The names the lists are asked about, without a trailing dot: all but the root,
\* which a line "." names.
Hosts ==
  LET words(p) == UNION {{l.words[w].name.labels : w \in 1 .. Len(l.words)} :
                           l \in {Files[p].lines[i] : i \in 1 .. Len(Files[p].lines)}}
      names == UNION {words(p) : p \in DOMAIN Files}
  IN  {Spelling(n, FALSE, 0) : n \in names \cup {<<"sub">> \o m : m \in names}}

\* Once the daemon serves, a list blocks a host exactly if a line of its file
\* names it; of several lists with one name the last is the one that counts,
\* and a domain spelled with a trailing dot names nothing (parse, contains,
\* from_config).
ListsMeanWhatTheySay ==
  tasks # {} =>
    \A i \in 1 .. Len(cfg.blocklists) : \A host \in Hosts :
      LET b == cfg.blocklists[i]
          last == \A j \in i + 1 .. Len(cfg.blocklists) : cfg.blocklists[j].name # b.name
      IN  last => (contains(blocklists[b.name], host)
                     <=> \E k \in 1 .. Len(Files[b.path].lines) : Lists(Files[b.path].lines[k], host))

Starting == phase \notin {"serving", "down"}

\* Every start gets somewhere: to a daemon that serves or one that has said
\* what is wrong.  The lookup of nscd's user never waits for the daemon
\* itself.  The exception is a blocklist path that leads to a directory.
StartEnds == Starting ~> (~Starting \/ (phase = "lines" /\ ListFile.kind = "directory"))

\* The same without the exception: "a bad configuration fails the whole
\* daemon" (main).
StartAlwaysEnds == Starting ~> ~Starting

\* With a good configuration the daemon comes back from whatever stopped it,
\* over whatever socket files are left.
ComesBack == (phase = "down" /\ Good(cfg)) ~> phase = "serving"

\* "the first one to stop takes the daemon down" (main): no listener is
\* missing for long from a daemon that serves the others.
NoHalfDaemon == (phase = "serving" /\ tasks # ListenersOf(cfg)) ~> phase = "down"

\* "accept() failures (file descriptor exhaustion, say) are logged and
\* retried rather than taking the front-end down" (the comment of dns.rs):
\* with a good configuration and no failure of the system but a lack of
\* descriptors, the daemon and its front-ends stay up.
StaysUp == phase = "down" => ~Good(cfg) \/ faults > 0
=============================================================================
