# A verification of deezns

deezns decides, per user and per name, which host names a machine may
resolve. One daemon holds the policy; three front-ends put questions to it:
an nscd-protocol proxy, a DNS server on loopback, and an NSS module that
talks to a policy socket. This directory holds TLA+ models of these parts,
TLC configurations that check them on small instances, and TLAPS proofs of
the results that matter most, for every value of the constants.

`PROJECT.json` lists the components, the runs, the mutants that show each
property can fail, the source lines behind every definition, the findings,
the hazards and the theorems.

## 1. Inventory

| part | source | state it keeps | operations |
|------|--------|----------------|------------|
| policy engine | `policy.rs` | rules, blocklists and default, fixed at start | `evaluate_for`: canonical name, blocklist results, rules in order |
| blocklist | `blocklist.rs` | two sets of names | `contains`; `load`/`parse` at start |
| nscd front-end | `nscd.rs` | a semaphore; per connection the caller, the request, the reply | `serve`, `handle`, `reply_for`, `forward_host`, `forward` |
| nscd protocol | `nscd.rs` | none | `Request::parse`, `found`, `not_found`, `valid_host_reply` |
| DNS front-end | `dns.rs` | two semaphores; per query the caller and the reply | `serve_udp`, `serve_tcp`, `respond`, `forward_udp`, `forward_tcp` |
| identification | `identify.rs` | one cached probe | `identify`: socket tables, best row, process, gid |
| relays | `relay.rs` | per listener a set of uids, fixed at start | `for_config`, `resolve`, `uid_of`, `contains` |
| policy socket | `daemon.rs` | per connection the caller | `serve_policy_socket`, `handle_connection` |
| NSS module | `lib.rs` | none; runs in the client or in nscd | `get_host_by_name`, `query_daemon` |
| daemon | `daemon.rs` | the listener tasks | `main`: load, resolve users, bind, serve, stop at the first failure |
| local records | `upstream.rs` | one fixed name | `upstream_resolve` |
| NixOS module | `nix/modules/nixos/deezns.nix` | – | which front-ends are combined, restart, groups |

How they meet: the engine is shared behind an `Arc` and never changes, so
handlers share only the semaphores. The front-ends meet *outside* the daemon,
in the order of `relay.rs`:

    glibc -> [nscd front-end] -> nscd -> [NSS module] -> dns -> [DNS front-end]

One lookup can reach the daemon three times, as two different users. A
listener behind another front-end lets nscd's lookups pass as judged already.

What is hard here, and what makes each part correct:

* **policy**: verdicts must not depend on spelling, on failing rules, or on
  how deep below a listed domain a name is; the loop must return what "first
  match wins" says.
* **nscd front-end**: handlers, clients that stall or vanish, failing
  accepts and an nscd that is slow, silent or broken interleave. Permits must
  be conserved, denied names must not reach nscd, and a client with a host
  request must never get what makes glibc do its next lookups unfiltered. (The
  code does not quite keep to the last: see section 5 on requests without a
  name and on aliases.)
* **identification**: several looks at a system that changes in between.
  Nobody may be taken for the sender who could not have been it.
* **stacking**: every combination of front-ends, with the daemon going down
  at any point. A lookup must be judged by its own process and not by nscd's
  credentials; what reaches the resolver must have been let pass.
* **DNS front-end**: two listeners that must not starve each other, TCP
  clients that stall, an upstream server whose late answers arrive on ports
  used again, messages at the limits of the parser. A query must get one
  reply, about its own question, and a denied one must not leave the machine.
* **start-up**: a dozen steps that can each fail, some after sockets are
  bound, over files that an earlier process left. Nobody may be served by half
  a daemon, and the daemon must come back from whatever stopped it.
* **list loading**: lines of several formats, junk among them; what a list
  blocks must be what its lines name.

The list of hazards, each at its line with the properties that cover it, is
in `PROJECT.json`.

## 2. Modules

| module | models | shape |
|--------|--------|-------|
| `Policy` | names, callers, blocklists, `evaluate_for`, relays, local records | operators |
| `RuleScan` | the loop of `evaluate_for` | state machine |
| `NscdReply` | requests and replies by length and header words; glibc's view of a reply | operators |
| `PolicyGate` | what any front-end promises | abstract specification |
| `NscdFrontend` | `serve` and `handle` with clients and the real nscd | state machine, implements `PolicyGate` |
| `DnsMessage` | `Query::parse` by offsets, the daemon's own replies | operators |
| `DnsFrontend` | the UDP and TCP loops, their tasks, the exchange with the upstream server | state machine, implements `PolicyGate` |
| `PolicyLoad` | `from_config` and `Blocklist::parse`, line by line | steps used by `Daemon` |
| `Daemon` | `main`: start-up, listener tasks, descriptors, end and restart | state machine |
| `LookupStack` | the three front-ends stacked, restarts | composition |
| `Identify` | `identify` against a moving system | state machine |
| `PolicyProofs` | lemmas on `evaluate_for`, and the least-number principle | lemmas |
| `*Proofs` | theorems about the module named before it | |
| `MC*` | constants for TLC | |

### Policy and RuleScan

A spelling is its labels, whether it has upper-case letters, and its trailing
dots; `canonical_hostname` drops the latter two. `contains` walks up the
labels and then into the trailing dots, as `find('.')` does. A CEL program is
opaque: `Execute(program, ctx)` yields "true", "false", "nonbool" or "error",
and only the first lets a rule decide. `evaluate_for` is the declarative
verdict; `RuleScan` runs the loop, and its first property is that the two
agree. The front-end models use the declarative one.

### NscdReply and NscdFrontend

A reply is its length, its header words and the length of its aliases:
everything `valid_host_reply` reads, and what glibc reads beyond that.
`TakenAsNoNscd` states which replies make glibc turn away from nscd.

Each await of `handle` is a value of `pc`: `peercred`, `read`, `judge`,
`connect`, `await`, `write`, `closing`, `closed`. The accept loop is
`acquire`, `accept`, `retry`; `backlog` is the kernel's listen queue, whose
length limit is left out. `sent` is how much of its request a client has
sent; a deadline may fire only while the read it guards is unfinished, since
tokio's `timeout` polls the inner future first. `WriteBlocks` is a client that
has stopped reading a reply larger than the socket buffer.

`PolicyGate` says: each lookup is one question, judged by who asks; only what
the policy lets through goes upstream; one answer, from those its question
admits. The refinement mapping takes `question` from `request` and `caller`
and keeps `asked` and `answer`; `ImplementsGate` is the abstract
specification under it.

### DnsMessage and DnsFrontend

A message is its length, its id, the header fields `parse` looks at, the
offsets at which its labels end, the name they spell and its type. `Parses`
is `Query::parse`; a reply is its id, code, question, number of answers and
length, which is what `response` computes.

Each client is a UDP socket or a TCP connection with at most one unread
message. Its task is at `identify`, `forward`, `await` or `write`, a TCP task
also at `read`; the two loops are at `acquire`, `take` or, for TCP, `retry`.
`Judge` is everything `respond` does between the return of `identify`, which
may name any of `Identities[c]`, and the next await. Datagrams sent upstream
stay in `flight` for good: the server may answer each late, repeatedly or
never, and the answer arrives at whichever task has bound that port by then.
On a stream to the upstream server only its own answer arrives. A TCP
deadline may fire whenever there is no whole message to read.

The mapping to `PolicyGate` takes a question once `identify` has returned, a
lookup as asked once a port or stream is chosen, and the answer once the reply
is written; a FORMERR is the gate's refusal. A relay's query may be forwarded
whatever the policy says of it.

### PolicyLoad and Daemon

`phase` is the step of `main` that comes next: `config`, `lists`, `lines`,
`rules`, `relays`, `policy`, `nscd`, `dns`, then `serving`, or `down`. `After`
is their order. `StartFails` is an error that lies in the configuration,
`StartFault` one that lies in the system, of which there are at most
`MaxFaults`. The lookup of nscd's user returns only while the daemon's own nscd
socket is not bound. `files` are the socket files on disk, which outlive the
process; `Restart` may find fewer of them, since systemd may have removed the
runtime directory. Serving is modelled as far as it can end the process:
connections wait, are accepted and closed, all listeners draw on one supply of
`FdLimit` descriptors, the policy socket without a limit of its own, and the
first task to stop ends `main`.

A blocklist is a sequence of lines; a line is what it starts with and its
words; a word is the name it spells, whether its characters may occur in a
domain, whether it looks like an address, and its length. `WithLine` is one
round of `parse`. A path may also lead to a directory, which opens but cannot
be read. Whether a rule compiles is a constant.

### LookupStack

A lookup has two runners: the process (`app`) and, when asked, `nscd`. Both
walk the same NSS chain as their own user. Stages are the sources of a lookup
(`glibc`, `nss`, `dns`) and the waits for a reply (`nscd_reply`, `wait`,
`nss_reply`, `dns_reply`), so the daemon can go down in the middle of any
exchange; `CutOff` is where each wait ends up then. glibc's avoidance of nscd
after a failure is `bypass`, per process, shortened from a hundred lookups to
`Retries`. `judged` records by whom, as whom and with which verdict;
`disturbed` marks lookups during which something was down. `NoNscd` is nsncd
with `NSNCD_IGNORE_HOSTS`, which the NixOS module sets for the DNS front-end
alone. `Relay` and `JudgeAs` are the two branches of `handle_connection` and
`respond`. nsswitch.conf is taken to have `deezns [!UNAVAIL=return]` before
`dns`, so that a denial ends the chain.

### Identify

The system's own steps (sockets opened, closed, handed on; processes exiting
and starting; rows of closed TCP connections lingering with uid 0 and inode 0)
interleave with the daemon's looks: the IPv4 table, the IPv6 table, rows one
by one, processes one by one, the status file. Rows and processes are taken
in any order. `seen` remembers who held which socket since the query was
sent. Inodes and pids in use since then are not reused; the code has no
defence against that, and the kernel hands both out in rotation.

## 3. Runs

| run | bounds | checks | states |
|-----|--------|--------|-------:|
| `rule_scan` | all engines of up to 2 of 7 rules, 6 names in every spelling with up to 2 dots, known and unknown caller | `FirstMatchWins`, `SpellingIsIrrelevant`, `FailingRulesAreTransparent`, `SubdomainsStayBlocked`, `EveryQueryIsJudged` | 22,688 |
| `nscd_requests` | 2 clients, 1 permit, 7 requests, 10 replies, one of them larger than the socket buffer | `NeverToldNoNscd`, `SlotsConserved`, `HandlersEnd`, `EveryoneIsAccepted` | 193,302 |
| `nscd_callers` | 2 clients of different rights, 2 permits, 3 requests, 3 replies | `DeniedNeverForwarded`, `DenialIsFinal`, `OneAnswer`, `ImplementsGate` | 186,705 |
| `nscd_aliases` | 1 client | `CompleteReplies`: violated | |
| `stack_configs` | 32 configurations, 1 lookup, 2 programs, 3 names | `JudgedOnce`, `NeverJudgedAsNscd`, `RelaysAreSafe`, `ResolverIsGuarded`, `EveryLookupEnds` | 39,500 |
| `stack_hole` | NSS module before the DNS front-end | `RelayedWasJudged`: violated | |
| `identify` | 3 UDP sockets of 2 users and both families, 1 TCP connection, 2 processes | `NoStranger`, `SenderIdentified`, `SenderProcess` | 1,828,043 |
| `identify_uid` | one plain client | `UidKnown`: violated | |
| `dns_frontend` | 2 UDP clients (one unidentified, one a relay), 1 TCP connection, 1 permit per transport, 1 upstream port, 6 messages, 2 of those forwarded with one id | `SlotsConserved`, `AnswersOwnQuestion`, `OwnRepliesAreWhole`, `ImplementsGate`, `ConnectionsMoveOn`, `UdpIsServed` | 56,304 |
| `daemon` | 8 configurations, a list with 15 kinds of line, 4 descriptors, 2 permits, queues of 2, 2 faults | `NoHalfStart`, `ListsMeanWhatTheySay`, `StartEnds`, `ComesBack`, `NoHalfDaemon` | 6,918 |
| `daemon_directory` | a directory as a blocklist | `StartAlwaysEnds`: violated | |
| `daemon_descriptors` | 2 descriptors, no faults | `StaysUp`: violated | |

One run of each state machine also checks its `TypeOK`. Lookups, connections,
queries and starts begin over when they end, so runs are not limited to one
round.

Why the bounds are enough to be interesting. Two rules show order, failure
and default; the theorem covers any number. Two callers are what mixing up
credentials takes; two clients on one permit make one wait in the queue while
the other is served, stalls or has its accept retried. Lookups share only
glibc's avoidance of nscd; the theorems about the stack cover any number of
them. Four sockets give a better, a worse and an equal fit, in both families
and transports; the daemon itself is one of the two processes. With one permit
per transport a TCP client that stalls holds all of them; the messages include
the longest name `parse` accepts and one beyond. On one upstream port every
query meets the late answers of those before it, with its own id and with
another; queries under way at once, which have ports of their own, are left to
the theorem. Four descriptors are fewer
than the connections two front-ends and the policy socket may hold, and two
faults allow a restart that fails again, or one over the files of another.

### Fairness

* `RuleScan`: the loop has no await; it runs to its end (WF).
* `NscdFrontend`: WF on the steps of the accept loop and of each handler,
  which tokio polls when they are ready, the deadlines among them. SF on
  `Accept`: accept() may fail any number of times, but not for ever, since
  handlers return their descriptors. None on clients or on the real nscd.
* `LookupStack`: WF on `Restart` (systemd, `Restart=on-failure`) and on the
  steps of a lookup in progress. None on `Start` and `Crash`; the property
  assumes that the daemon eventually stays up.
* `DnsFrontend`: WF on each task's steps, deadlines included, except a write
  to a client that does not read; SF on the UDP loop's `Acquire` (tokio's
  semaphore is fair to its waiters) and on `RecvFrom` (a socket's datagrams are
  handed over in order). None on the TCP loop, clients or the upstream server.
* `Daemon`: WF on the steps of `main`, on `JoinNext` and on `Restart`; none on
  clients or faults. systemd's limit on restarts in quick succession is left
  out, so `ComesBack` is about a unit that has not hit it.
* `Identify` is checked for safety only.

## 4. Proofs

Every safety property that a passing run checks is also a theorem: for any
policy, any `Execute`, any number of clients (finite), lookups, sockets and
processes, any configurations and files, and any finite or infinite sets of
messages and replies. The theorems rest on the ASSUMEs of the modules, which
TLC evaluates in the runs. They type the constants and say:

* `None`, `Closed` and `Refused` are no replies, callers, ports or words;
* nscd's uid is not that of a program and is in the socket's group, as
  `deezns.nix` sets it up, and each rule has one of the three verdicts
  (`LookupStack`);
* a socket's remote port is 0 exactly if its remote address is unset, a TCP
  connection has a local address, and inodes are unique (`Identify`);
* files are sequences of lines (`PolicyLoad`), configurations name sequences
  of lists and rules (`Daemon`).

No theorem has a hypothesis beyond these. Where the code has exceptions to what
a property says, they are in the formula: `NeverToldNoNscd` leaves out that a
host request without a name is closed and that aliases may be missing,
`AnswersOwnQuestion` that over UDP a query with the same id from the same port
may be taken for this one, `NoStranger` that root stands for a sender that has
closed its TCP connection. Section 5 says what each exception comes from.

The arguments:

* `PolicyProofs`: lemmas the others share. The first rule that fires decides;
  if any fires there is a first one (`Least`, from the library's theorem that
  `<` on the naturals is well-founded); else the default.
* `RuleScanProofs`: types; `FirstMatchCorrect`, whose invariant is that no
  rule before `next` fires; `SpellingTheorem` and `SubdomainTheorem` from
  lemmas on `canonical_hostname` and `ParentDomains`. `TransparentTheorem`
  is about a policy without some of its failing rules: the rank of a rule
  among those that are kept is monotone and onto, so the first rule that fires
  is the same in both.
* `NscdReplyProofs`: the daemon's own replies, positive and negative, have
  exactly the bytes they announce and are answers to glibc; so is whatever
  passes `valid_host_reply`, aliases aside.
* `NscdFrontendProofs`: one inductive invariant `IInv` for all safety
  properties. Permits need the count of running handlers to change by one per
  step (lemmas on `Cardinality`), so that accept() must hand over a connection
  that has no handler yet (`QueueInv`); the answers need that `caller[c]` is `Peer[c]` and
  `request[c]` is `msg[c]` from the judgement on, and what may be in `reply`
  at `write` for each kind of request. `GateTheorem` maps each action to a step
  of `PolicyGate` or to a stutter, on top of the invariant.
* `DnsFrontendProofs`: the invariant follows a task from the message it reads
  to the reply it writes: what it reads its client sent, only what parses is
  judged, only what may be forwarded is, and its reply is a refusal, the
  daemon's own or one heard from upstream with its id, which is about its own
  message or one that left from its port. `OwnRepliesAreWhole`
  needs that a question that parses ends within 272 octets and within the
  message; permits are counted per transport. `GateTheorem` is the refinement;
  `DeniedTheorem` proves of `PolicyGate` that a denied lookup stays unasked and
  gets only the front-end's own denial, and carries that over to the front-end.
* `DaemonProofs`: the invariant says of each phase what is loaded, resolved
  and bound by then, so that `serving` has it all. `ListsTheorem` carries along
  that what has been read of a list blocks exactly what its lines so far name
  (`Reads`), one line at a time; it holds for every name, of which
  `ListsMeanWhatTheySay` asks about those the run can enumerate.
* `LookupStackProofs`: the invariant says of each runner what the lookup's
  judgements must be at its stage: once past the nscd front-end, nscd runs
  only for a lookup with a judgement of its own process that lets it pass;
  a pending "pass" stands for such a judgement, or for a relay of such a
  lookup. It survives `Crash` because `CutOff` moves a runner only to stages
  where it will be judged again or has been. `JudgedOnceTheorem` needs a second
  invariant, `OnceInv`, about the lookups that nothing disturbs: the process
  asks only the first front-end on its way; nscd, wherever it comes behind a
  judgement, is a relay; without the nscd front-end the NSS module is the first
  to judge it; and glibc avoids an nscd that serves hosts only after a failure.
* `IdentifyProofs`: the invariant follows the sender's row: if its socket is
  still held, the row is among those read and not yet looked at, or is among
  the best, or was beaten by a row that ties its owner more closely to the
  addresses; every row in hand belonged to a socket held since the query was
  sent, or to a closed TCP connection. The types are inductive by themselves.

The provers have no rule that a string literal is a string; where names are
quantified over (`DaemonProofs`), labels are `STRING \cup {"sub"}` for that
reason alone.

Only model-checked: the liveness properties (`EveryQueryIsJudged`,
`HandlersEnd`, `EveryoneIsAccepted`, `EveryLookupEnds`, `ConnectionsMoveOn`,
`UdpIsServed`, `StartEnds`, `ComesBack`, `NoHalfDaemon`), since the prover
treats neither fairness nor ENABLED.

## 5. Findings

* **A reply cut short inside its aliases is relayed** (`nscd_aliases`).
  `nscd.rs` 371-381 checks a lower bound only, as its comment says; README
  192-194 and `nscd.rs` 22-24 promise a complete reply.
* **A relayed lookup nobody judged** (`stack_hole`). With the NSS module and
  the DNS front-end but no nscd front-end, nscd is trusted on the DNS
  front-end. If the daemon is down when the module asks and up again when
  `dns` does, the module fails open (`lib.rs` 125-127) and the DNS front-end
  forwards unjudged. All other combinations are proved free of this.
* **`uid` may be -1 for a local query** (`identify_uid`): a client that
  closes its socket before the tables are read is not found; README 235-236
  and `dns.rs` 7 exclude it.
* **A directory as a blocklist hangs the start** (`daemon_directory`).
  `Blocklist::parse` skips a read error with `continue` (`blocklist.rs` 64); a
  directory can be opened and every read of it fails, so the loop never ends
  and nothing is ever bound, where `daemon.rs` 184-185 says that a bad
  configuration fails the daemon.
* **Running out of descriptors on the policy socket ends the daemon**
  (`daemon_descriptors`). The front-ends log a failed accept() and retry
  (`dns.rs` 21-23); `serve_policy_socket` returns the error (`daemon.rs` 145)
  and `join_next` takes the front-ends down with it.

Smaller things met on the way, of which no document says otherwise: a name of
255 octets of labels is accepted, 256 with its closing zero; a list entry with
a trailing dot is loaded and never matches, for names are looked up without
it; a bare domain followed by a comment on its line is skipped; of two lists
with one name the last counts; a TCP client may hold its permit for as long as
it goes on sending queries.

Four limits of the code are stated as exceptions in the properties, which say
that nothing worse can happen; no run reports them:

* **A host request without a name is closed** (`NeverToldNoNscd`). Where the
  key is empty or not UTF-8, `reply_for` closes the connection (`nscd.rs`
  532-535); lines 17-20 say that glibc takes this for "no nscd here" and does
  its next hundred lookups by itself, and lines 24-26 reserve it for requests
  that are not for hosts.
* **A client that closes its TCP connection early is taken for root**
  (`NoStranger`). The kernel goes on listing the connection, with uid 0 and
  inode 0; `socket_tables` (`identify.rs` 83-91) looks neither at a row's state
  nor at its inode and takes the uid for its owner's, which is what
  `identify.rs` 4-6 says the tables hold. A connection that is still open is
  never taken for root's.
* **The answer to another question may be relayed** (`AnswersOwnQuestion`).
  `forward_udp` compares the two bytes of the id and nothing else (`dns.rs`
  501), where the comment above says "Only the answer to our question, not a
  stray datagram". A query that gets the local port of an earlier one with its
  id takes the late answer to that one; this is all it can mistake.
* **A client that stops reading a large reply keeps its permit**
  (`HandlersEnd`): the write has no deadline.

## 6. Not modelled

Logging and wording; TOML, JSON and CEL themselves; the listen queue's limit
in `NscdFrontend`; TTLs and flag bits of DNS replies; several requests on one
connection to the policy socket, and requests it cannot parse and leaves
unanswered, neither of which the NSS module makes; reverse lookups (the NSS
module has none; the nscd front-end forwards them as it does every non-host
request); systemd's start limit; nsncd and its patch; build files, VM tests and
scripts.

## 7. Plan

Done: the modules above, which cover every part of the daemon that keeps
state, and a theorem for every safety property. Left:

1. The safety half of the liveness properties: that a handler or task that
   holds a permit is always at a step with a deadline, or at one that needs
   nobody else.
2. For the nscd front-end, what `DeniedTheorem` derives from `PolicyGate` for
   the DNS front-end, so that both rest on one argument.
