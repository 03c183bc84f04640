----------------------------- MODULE PolicyLoad -----------------------------
(***************************************************************************)
(* How a start of the daemon builds its policy engine: PolicyEngine::      *)
(* from_config (src/policy.rs) and Blocklist::parse (src/blocklist.rs),    *)
(* line by line.  The steps belong to module Daemon's start-up; `phase` is *)
(* where that start-up is.                                                 *)
(*                                                                         *)
(* A path leads to a file with its lines, a directory or nothing.  A line  *)
(* is what it starts with and its words; a word is the name it spells,     *)
(* whether all its characters may occur in a domain, whether it looks like *)
(* an address, and its length.                                             *)
(***************************************************************************)
EXTENDS Policy

CONSTANTS
  Files,       \* each path: [kind, lines], kind "file", "directory" or "missing"
  Compiles(_)  \* external: whether cel's Program::compile accepts

VARIABLES
  cfg,         \* the configuration file as parsed
  phase,       \* what the daemon is doing
  list,        \* the number of the list being loaded
  line,        \* the next line of it
  entries,     \* Blocklist::parse: what has been read of it
  blocklists,  \* the lists loaded so far, by name
  rules        \* the rules compiled so far

loadVars == <<list, line, entries, blocklists, rules>>

NoEntries == [exact |-> {}, suffixes |-> {}]

Words == [name : Hostnames, clean : BOOLEAN, ip : BOOLEAN, len : Nat]

Lines == [start : STRING, words : Seq(Words)]

ASSUME FilesAssumption ==
  /\ \A p \in DOMAIN Files : Files[p].lines \in Seq(Lines)
  /\ None \notin Words

-----------------------------------------------------------------------------
(* One line.                                                               *)

\* Mutant: the spelling of the file is kept.
Lowered_not(name) == name

Lowered(name) == [name EXCEPT !.upper = FALSE]

is_valid_domain(word) ==
  /\ word.clean /\ word.len <= 253
  /\ Len(word.name.labels) >= 2 \/ word.name.dots >= 1

\* Hosts-file style: an address and a domain; further words are ignored.
IsHostsLine(l) == Len(l.words) >= 2 /\ l.words[1].ip

\* The domain a line is about, if its form has one.
DomainOf(l) ==
  CASE l.start = "||"                        -> IF Len(l.words) = 1 THEN l.words[1] ELSE None
    [] l.start = "" /\ IsHostsLine(l)        -> l.words[2]
    [] l.start = "" /\ Len(l.words) = 1      -> l.words[1]
    [] OTHER                                 -> None

\* parse_line, and parse's inserts: comments, exceptions ("@@"), lines that
\* cannot be read as text and lines without a valid domain add nothing.
\* "localhost" has no dot, so it is never valid.
WithLine(found, l) ==
  IF DomainOf(l) = None \/ ~is_valid_domain(DomainOf(l)) THEN found
  ELSE LET d == Lowered(DomainOf(l).name)
       IN  IF l.start = "||" THEN [found EXCEPT !.suffixes = @ \cup {d}]
                             ELSE [found EXCEPT !.exact = @ \cup {d}]

-----------------------------------------------------------------------------
(* from_config.                                                            *)

ListFile == Files[cfg.blocklists[list].path]

\* A list's file is opened.
OpenList ==
  /\ phase = "lists" /\ list <= Len(cfg.blocklists) /\ ListFile.kind # "missing"
  /\ phase' = "lines"
  /\ line' = 1 /\ entries' = NoEntries
  /\ UNCHANGED <<cfg, list, blocklists, rules>>

\* A line, or one read error, which is skipped.
ReadLine ==
  /\ phase = "lines" /\ ListFile.kind = "file" /\ line <= Len(ListFile.lines)
  /\ entries' = WithLine(entries, ListFile.lines[line])
  /\ line' = line + 1
  /\ UNCHANGED <<cfg, phase, list, blocklists, rules>>

\* A directory can be opened, and every read of it fails: `continue`.
ReadFails ==
  /\ phase = "lines" /\ ListFile.kind = "directory"
  /\ UNCHANGED <<cfg, phase, loadVars>>

\* The list is kept under its name, in place of an earlier one of that name.
EndOfFile ==
  /\ phase = "lines" /\ ListFile.kind = "file" /\ line > Len(ListFile.lines)
  /\ LET name == cfg.blocklists[list].name
     IN  blocklists' = [n \in DOMAIN blocklists \cup {name} |->
                          IF n = name THEN entries ELSE blocklists[n]]
  /\ list' = list + 1
  /\ phase' = "lists"
  /\ UNCHANGED <<cfg, line, entries, rules>>

\* Every list is loaded; the rules are compiled in order.
ListsDone ==
  /\ phase = "lists" /\ list > Len(cfg.blocklists)
  /\ phase' = "rules"
  /\ UNCHANGED <<cfg, loadVars>>

CompileRule ==
  /\ phase = "rules" /\ Len(rules) < Len(cfg.rules)
  /\ LET rule == cfg.rules[Len(rules) + 1]
     IN  Compiles(rule.program) /\ rules' = Append(rules, rule)
  /\ UNCHANGED <<cfg, phase, list, line, entries, blocklists>>

LoadStep == OpenList \/ ReadLine \/ ReadFails \/ EndOfFile \/ ListsDone \/ CompileRule

\* from_config returns an error: a file that cannot be opened, a rule that
\* does not compile.
LoadError ==
  \/ phase = "lists" /\ list <= Len(cfg.blocklists) /\ ListFile.kind = "missing"
  \/ /\ phase = "rules" /\ Len(rules) < Len(cfg.rules)
     /\ ~Compiles(cfg.rules[Len(rules) + 1].program)
=============================================================================
