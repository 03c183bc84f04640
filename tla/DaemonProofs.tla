---------------------------- MODULE DaemonProofs ----------------------------
(***************************************************************************)
(* The daemon's start-up, for any configuration, any blocklist files, any  *)
(* user database and any limits, through failures and restarts: nothing is *)
(* served before everything is loaded and bound, and a list that is served *)
(* blocks what its file says.                                              *)
(***************************************************************************)
EXTENDS Daemon, TLAPS

\* Every name, in lower case without trailing dots.  "sub", of which Hosts
\* makes use, is a string; the provers have no rule that says so.
Labels == STRING \cup {"sub"}

Names == {Spelling(n, FALSE, 0) : n \in Seq(Labels)}

\* What has been read of a list so far blocks the names that the first n lines
\* of its file name.
Reads(bl, path, n) ==
  \A host \in Names :
    contains(bl, host) <=> \E k \in 1 .. n : Lists(Files[path].lines[k], host)

ListName(i) == cfg.blocklists[i].name
ListPath(i) == cfg.blocklists[i].path
ListLines(i) == Files[ListPath(i)].lines

-----------------------------------------------------------------------------
(* One line of a blocklist.                                                *)

\* Blocklist::contains on a name in lower case without trailing dots: the name
\* itself, or a suffix that is the name from one of its labels on.
LEMMA ContainsName ==
  ASSUME NEW bl, NEW n \in Seq(Labels)
  PROVE  contains(bl, Spelling(n, FALSE, 0)) <=>
           \/ Spelling(n, FALSE, 0) \in bl.exact
           \/ Spelling(n, FALSE, 0) \in bl.suffixes
           \/ \E i \in 2 .. Len(n) : Spelling(SubSeq(n, i, Len(n)), FALSE, 0) \in bl.suffixes
<1> DEFINE host == Spelling(n, FALSE, 0)
<1>1. host.labels = n /\ host.upper = FALSE /\ host.dots = 0
  BY DEF Spelling
<1>2. ParentDomains(host) = {Spelling(SubSeq(n, i, Len(n)), FALSE, 0) : i \in 2 .. Len(n)}
  <2> HIDE DEF host
  <2>1. {Spelling(<<>>, host.upper, d) : d \in 0 .. host.dots - 1} = {}
    BY <1>1
  <2>2. {From(host, i) : i \in 2 .. Len(host.labels)}
          = {Spelling(SubSeq(n, i, Len(n)), FALSE, 0) : i \in 2 .. Len(n)}
    BY <1>1, Zenon DEF From
  <2> QED
    BY <2>1, <2>2 DEF ParentDomains
<1>3. contains(bl, host) <=>
        host \in bl.exact \/ ({host} \cup ParentDomains(host)) \cap bl.suffixes # {}
  BY <1>1 DEF contains
<1> HIDE DEF host
<1>4. ({host} \cup ParentDomains(host)) \cap bl.suffixes # {} <=>
        \/ host \in bl.suffixes
        \/ \E i \in 2 .. Len(n) : Spelling(SubSeq(n, i, Len(n)), FALSE, 0) \in bl.suffixes
  BY <1>2
<1> QED
  BY <1>3, <1>4 DEF host

LEMMA SeqMonotone ==
  ASSUME NEW S, NEW T, S \subseteq T
  PROVE  Seq(S) \subseteq Seq(T)
<1>1. ASSUME NEW s \in Seq(S) PROVE s \in Seq(T)
  <2>1. s = [i \in 1 .. Len(s) |-> s[i]] /\ Len(s) \in Nat
    OBVIOUS
  <2>2. \A i \in 1 .. Len(s) : s[i] \in T
    OBVIOUS
  <2> QED
    BY <2>1, <2>2
<1> QED
  BY <1>1

LEMMA LabelSeq == Seq(STRING) \subseteq Seq(Labels)
<1>1. STRING \subseteq Labels
  BY DEF Labels
<1> QED
  BY <1>1, SeqMonotone, Zenon

\* The words of a line are words.
LEMMA LineWords ==
  ASSUME NEW l \in Lines
  PROVE  /\ Len(l.words) \in Nat
         /\ \A w \in 1 .. Len(l.words) : l.words[w] \in Words /\ l.words[w] # None
<1>1. l.words \in Seq(Words) /\ Len(l.words) \in Nat
  BY DEF Lines
<1> QED
  BY <1>1, FilesAssumption

\* Two fields, as predicates.
Clean(word)     == word.clean
AddressFirst(l) == l.words[1].ip

\* A line in the format of a hosts file.
LEMMA HostsLine ==
  ASSUME NEW l, Len(l.words) \in Nat
  PROVE  /\ IsHostsLine(l) <=> Len(l.words) >= 2 /\ AddressFirst(l)
         /\ IsHostsLine(l) => Len(l.words) # 1
<1>1. IsHostsLine(l) <=> Len(l.words) >= 2 /\ AddressFirst(l)
  BY Zenon DEF IsHostsLine, AddressFirst
<1>2. Len(l.words) >= 2 => Len(l.words) # 1
  OBVIOUS
<1> QED
  BY <1>1, <1>2

\* The word of a line that is its domain, if its form has one.
LEMMA DomainWord ==
  ASSUME NEW l, Len(l.words) \in Nat
  PROVE  /\ l.start = "||" /\ Len(l.words) = 1 => DomainOf(l) = l.words[1]
         /\ l.start = "||" /\ Len(l.words) # 1 => DomainOf(l) = None
         /\ l.start = "" /\ IsHostsLine(l) => DomainOf(l) = l.words[2]
         /\ l.start = "" /\ ~IsHostsLine(l) /\ Len(l.words) = 1 => DomainOf(l) = l.words[1]
         /\ l.start = "" /\ ~IsHostsLine(l) /\ Len(l.words) # 1 => DomainOf(l) = None
         /\ l.start \notin {"", "||"} => DomainOf(l) = None
<1>1. IsHostsLine(l) => Len(l.words) # 1
  BY HostsLine
<1>2. ASSUME l.start = "||" PROVE DomainOf(l) = IF Len(l.words) = 1 THEN l.words[1] ELSE None
  BY <1>2 DEF DomainOf
<1>3. ASSUME l.start = "", IsHostsLine(l) PROVE DomainOf(l) = l.words[2]
  BY <1>1, <1>3 DEF DomainOf
<1>4. ASSUME l.start = "", ~IsHostsLine(l), Len(l.words) = 1 PROVE DomainOf(l) = l.words[1]
  BY <1>4 DEF DomainOf
<1>5. ASSUME l.start = "", ~IsHostsLine(l), Len(l.words) # 1 PROVE DomainOf(l) = None
  BY <1>5 DEF DomainOf
<1>6. ASSUME l.start \notin {"", "||"} PROVE DomainOf(l) = None
  BY <1>6 DEF DomainOf
<1> QED
  BY <1>2, <1>3, <1>4, <1>5, <1>6

\* Lower case, and nothing else.
LEMMA LoweredName ==
  ASSUME NEW h \in Hostnames
  PROVE  Lowered(h) = Spelling(h.labels, FALSE, h.dots)
<1>1. /\ Lowered(h) \in Hostnames /\ Lowered(h).labels = h.labels
      /\ Lowered(h).upper = FALSE /\ Lowered(h).dots = h.dots
  BY DEF Lowered, Hostnames
<1> DEFINE g == Spelling(h.labels, FALSE, h.dots)
<1>2. g \in Hostnames /\ g.labels = h.labels /\ g.upper = FALSE /\ g.dots = h.dots
  BY DEF Spelling, Hostnames
<1> HIDE DEF g
<1>3. Lowered(h) = g
  BY <1>1, <1>2 DEF Hostnames
<1> QED
  BY <1>3 DEF g

\* Which words are valid domains, of those without a trailing dot.
LEMMA ValidDomain ==
  ASSUME NEW word \in Words
  PROVE  /\ word.name \in Hostnames
         /\ word.name.labels \in Seq(Labels) /\ Len(word.name.labels) \in Nat
         /\ word.name.dots = 0 =>
              (is_valid_domain(word) <=>
                 Clean(word) /\ word.len <= 253 /\ Len(word.name.labels) >= 2)
<1>1. word.name \in Hostnames
  BY DEF Words
<1>2. word.name.labels \in Seq(STRING)
  BY <1>1 DEF Hostnames
<1>3. Len(word.name.labels) \in Nat
  BY <1>2
<1>4. is_valid_domain(word) <=>
        /\ Clean(word) /\ word.len <= 253
        /\ Len(word.name.labels) >= 2 \/ word.name.dots >= 1
  BY Zenon DEF is_valid_domain, Clean
<1> QED
  BY <1>1, <1>2, <1>3, <1>4, LabelSeq

\* What a line with a domain adds to a list.
LEMMA WithDomain ==
  ASSUME NEW found, found \in [exact : SUBSET Hostnames, suffixes : SUBSET Hostnames],
         NEW l \in Lines, NEW w \in 1 .. Len(l.words), DomainOf(l) = l.words[w]
  PROVE  LET new == WithLine(found, l)
             d   == Spelling(l.words[w].name.labels, FALSE, l.words[w].name.dots)
         IN  /\ new \in [exact : SUBSET Hostnames, suffixes : SUBSET Hostnames]
             /\ ~is_valid_domain(l.words[w]) => new = found
             /\ is_valid_domain(l.words[w]) =>
                  /\ new.exact = IF l.start = "||" THEN found.exact ELSE found.exact \cup {d}
                  /\ new.suffixes =
                       IF l.start = "||" THEN found.suffixes \cup {d} ELSE found.suffixes
<1> DEFINE word == l.words[w]
           d    == Spelling(word.name.labels, FALSE, word.name.dots)
<1>1. word \in Words /\ word # None
  BY LineWords
<1>2. word.name \in Hostnames
  BY <1>1, ValidDomain
<1>3. Lowered(word.name) = d /\ d \in Hostnames
  BY <1>2, LoweredName DEF Spelling, Hostnames
<1>4. CASE ~is_valid_domain(word)
  BY <1>4 DEF WithLine
<1>5. CASE is_valid_domain(word)
  <2>1. WithLine(found, l) = IF l.start = "||" THEN [found EXCEPT !.suffixes = @ \cup {d}]
                                               ELSE [found EXCEPT !.exact = @ \cup {d}]
    BY <1>1, <1>3, <1>5 DEF WithLine
  <2> HIDE DEF d, word
  <2>2. /\ WithLine(found, l) \in [exact : SUBSET Hostnames, suffixes : SUBSET Hostnames]
        /\ WithLine(found, l).exact = IF l.start = "||" THEN found.exact ELSE found.exact \cup {d}
        /\ WithLine(found, l).suffixes =
             IF l.start = "||" THEN found.suffixes \cup {d} ELSE found.suffixes
    BY <1>3, <2>1
  <2> QED
    BY <1>5, <2>2 DEF d, word
<1> QED
  BY <1>4, <1>5

Blocklists == [exact : SUBSET Hostnames, suffixes : SUBSET Hostnames]

\* What it is for a word of a line to name a host.
WordNames(l, w, n) ==
  LET m == l.words[w].name.labels
  IN  /\ Clean(l.words[w]) /\ l.words[w].len <= 253 /\ Len(m) >= 2
      /\ l.words[w].name.dots = 0
      /\ \/ /\ l.start = "" /\ n = m
            /\ Len(l.words) = 1 \/ (w = 2 /\ AddressFirst(l))
         \/ /\ l.start = "||" /\ Len(l.words) = 1 /\ Len(n) - Len(m) >= 0
            /\ SubSeq(n, Len(n) - Len(m) + 1, Len(n)) = m

\* Lists, for a name of these labels.
LEMMA ListsWords ==
  ASSUME NEW l, NEW n, NEW host, host.labels = n
  PROVE  Lists(l, host) <=> \E w \in 1 .. Len(l.words) : WordNames(l, w, n)
BY Zenon DEF Lists, WordNames, Clean, AddressFirst

\* Where the domain of a line stands.
InPlace(l, w) ==
  \/ l.start = "||" /\ Len(l.words) = 1
  \/ /\ l.start = ""
     /\ Len(l.words) = 1 \/ (w = 2 /\ AddressFirst(l))

LEMMA InPlaceCases ==
  ASSUME NEW l, NEW w
  PROVE  /\ InPlace(l, w) => l.start \in {"", "||"}
         /\ InPlace(l, w) => Len(l.words) = 1 \/ (l.start = "" /\ w = 2 /\ AddressFirst(l))
         /\ l.start \in {"", "||"} /\ Len(l.words) = 1 => InPlace(l, w)
         /\ l.start = "" /\ w = 2 /\ AddressFirst(l) => InPlace(l, w)
BY Zenon DEF InPlace

\* DomainOf returns the one word that stands there, if there is one.
LEMMA DomainInPlace ==
  ASSUME NEW l \in Lines
  PROVE  /\ \A w \in 1 .. Len(l.words) : InPlace(l, w) => DomainOf(l) = l.words[w]
         /\ \A v, w \in 1 .. Len(l.words) : InPlace(l, v) /\ InPlace(l, w) => v = w
         /\ (\A w \in 1 .. Len(l.words) : ~InPlace(l, w)) => DomainOf(l) = None
<1>1. Len(l.words) \in Nat
  BY LineWords
<1>2. ASSUME NEW w \in 1 .. Len(l.words), InPlace(l, w)
      PROVE  /\ DomainOf(l) = l.words[w]
             /\ w = IF Len(l.words) = 1 THEN 1 ELSE 2
  <2>1. CASE Len(l.words) = 1
    <3>1. l.start \in {"", "||"}
      BY <1>2, InPlaceCases, Zenon
    <3>2. w = 1
      BY <2>1
    <3> QED
      BY <1>1, <2>1, <3>1, <3>2, HostsLine, DomainWord
  <2>2. CASE Len(l.words) # 1
    <3>1. w = 2 /\ l.start = "" /\ AddressFirst(l)
      BY <1>2, <2>2, InPlaceCases, Zenon
    <3>2. Len(l.words) >= 2
      <4>1. w = 2
        BY <3>1, Zenon
      <4>2. 2 \in 1 .. Len(l.words)
        BY <4>1, Zenon
      <4> QED
        BY <1>1, <4>2
    <3>3. IsHostsLine(l)
      BY <1>1, <3>1, <3>2, HostsLine, Zenon
    <3> QED
      BY <1>1, <2>2, <3>1, <3>3, DomainWord
  <2> QED
    BY <2>1, <2>2
<1>3. ASSUME \A w \in 1 .. Len(l.words) : ~InPlace(l, w)
      PROVE  DomainOf(l) = None
  <2>1. l.start \in {"", "||"} => Len(l.words) # 1
    <3>1. Len(l.words) = 1 => 1 \in 1 .. Len(l.words)
      OBVIOUS
    <3> QED
      BY <1>3, <3>1, InPlaceCases, Zenon
  <2>2. l.start = "" => ~IsHostsLine(l)
    <3>1. Len(l.words) >= 2 => 2 \in 1 .. Len(l.words)
      BY <1>1
    <3> QED
      BY <1>1, <1>3, <3>1, HostsLine, InPlaceCases, Zenon
  <2> QED
    BY <1>1, <2>1, <2>2, DomainWord
<1> QED
  BY <1>2, <1>3

\* A suffix that is the name from one of its labels on.
LEMMA SuffixOf ==
  ASSUME NEW m \in Seq(Labels), NEW n \in Seq(Labels), Len(m) >= 2
  PROVE  (n = m \/ \E i \in 2 .. Len(n) : SubSeq(n, i, Len(n)) = m) <=>
           Len(n) - Len(m) >= 0 /\ SubSeq(n, Len(n) - Len(m) + 1, Len(n)) = m
<1>1. Len(m) \in Nat /\ Len(n) \in Nat
  OBVIOUS
<1>2. ASSUME NEW i \in 1 .. Len(n), SubSeq(n, i, Len(n)) = m
      PROVE  i = Len(n) - Len(m) + 1
  <2>1. Len(SubSeq(n, i, Len(n))) = Len(n) - i + 1
    BY <1>1
  <2> QED
    BY <1>1, <1>2, <2>1
<1>3. SubSeq(n, 1, Len(n)) = n
  OBVIOUS
<1>4. ASSUME n = m \/ \E i \in 2 .. Len(n) : SubSeq(n, i, Len(n)) = m
      PROVE  Len(n) - Len(m) >= 0 /\ SubSeq(n, Len(n) - Len(m) + 1, Len(n)) = m
  <2>1. CASE n = m
    BY <1>1, <1>3, <2>1
  <2>2. ASSUME NEW i \in 2 .. Len(n), SubSeq(n, i, Len(n)) = m
        PROVE  Len(n) - Len(m) >= 0 /\ SubSeq(n, Len(n) - Len(m) + 1, Len(n)) = m
    <3>1. i \in 1 .. Len(n)
      BY <1>1
    <3>2. i = Len(n) - Len(m) + 1
      BY <1>2, <2>2, <3>1
    <3>3. Len(n) - Len(m) >= 0
      BY <1>1, <3>1, <3>2
    <3> QED
      BY <2>2, <3>2, <3>3
  <2> QED
    BY <1>4, <2>1, <2>2
<1>5. ASSUME Len(n) - Len(m) >= 0, SubSeq(n, Len(n) - Len(m) + 1, Len(n)) = m
      PROVE  n = m \/ \E i \in 2 .. Len(n) : SubSeq(n, i, Len(n)) = m
  <2>0. Len(n) >= Len(m)
    BY <1>1, <1>5
  <2>1. CASE Len(n) = Len(m)
    <3>1. Len(n) - Len(m) + 1 = 1
      BY <1>1, <2>1
    <3> QED
      BY <1>3, <1>5, <3>1
  <2>2. CASE Len(n) # Len(m)
    <3>1. Len(n) - Len(m) + 1 \in 2 .. Len(n)
      BY <1>1, <2>0, <2>2
    <3> QED
      BY <1>5, <3>1
  <2> QED
    BY <2>1, <2>2
<1> QED
  BY <1>4, <1>5

\* One line: what it adds to a list is what it names.
LEMMA LineMeansWhatItSays ==
  ASSUME NEW found \in Blocklists, NEW l \in Lines, NEW host \in Names
  PROVE  /\ WithLine(found, l) \in Blocklists
         /\ contains(WithLine(found, l), host) <=> contains(found, host) \/ Lists(l, host)
<1> DEFINE new == WithLine(found, l)
<1>1. PICK n \in Seq(Labels) : host = Spelling(n, FALSE, 0)
  BY DEF Names
<1>2. host.labels = n
  BY <1>1 DEF Spelling
<1>3. Lists(l, host) <=> \E w \in 1 .. Len(l.words) : WordNames(l, w, n)
  BY <1>2, ListsWords
<1>4. \A w \in 1 .. Len(l.words) : WordNames(l, w, n) => InPlace(l, w)
  BY DEF WordNames, InPlace
<1>5. CASE \A w \in 1 .. Len(l.words) : ~InPlace(l, w)
  <2>1. new = found
    BY <1>5, DomainInPlace DEF WithLine
  <2> QED
    BY <1>3, <1>4, <1>5, <2>1
<1>6. CASE \E w \in 1 .. Len(l.words) : InPlace(l, w)
  <2>1. PICK w \in 1 .. Len(l.words) : InPlace(l, w)
    BY <1>6
  <2>2. DomainOf(l) = l.words[w]
    BY <2>1, DomainInPlace
  <2>3. Lists(l, host) <=> WordNames(l, w, n)
    BY <1>3, <1>4, <2>1, DomainInPlace
  <2> DEFINE word == l.words[w]
             m    == word.name.labels
             d    == Spelling(m, FALSE, word.name.dots)
  <2>4. word \in Words
    BY LineWords
  <2>5. /\ m \in Seq(Labels) /\ Len(m) \in Nat
        /\ word.name.dots = 0 =>
             (is_valid_domain(word) <=> Clean(word) /\ word.len <= 253 /\ Len(m) >= 2)
    BY <2>4, ValidDomain
  <2>6. /\ new \in Blocklists
        /\ ~is_valid_domain(word) => new = found
        /\ is_valid_domain(word) =>
             /\ new.exact = IF l.start = "||" THEN found.exact ELSE found.exact \cup {d}
             /\ new.suffixes = IF l.start = "||" THEN found.suffixes \cup {d} ELSE found.suffixes
    BY <2>2, WithDomain DEF Blocklists
  <2>7. WordNames(l, w, n) <=>
          /\ is_valid_domain(word) /\ word.name.dots = 0
          /\ \/ l.start = "" /\ n = m
             \/ /\ l.start = "||" /\ Len(n) - Len(m) >= 0
                /\ SubSeq(n, Len(n) - Len(m) + 1, Len(n)) = m
    BY <2>1, <2>5 DEF WordNames, InPlace
  <2>8. l.start \in {"", "||"}
    BY <2>1, InPlaceCases
  <2> HIDE DEF new, word, m
  <2>9. CASE ~is_valid_domain(word)
    BY <2>3, <2>6, <2>7, <2>9 DEF new
  <2>10. CASE is_valid_domain(word) /\ word.name.dots # 0
    <3>1. \A k : Spelling(k, FALSE, 0) # d
      <4>1. \A k : Spelling(k, FALSE, 0) = Spelling(m, FALSE, word.name.dots)
                     <=> k = m /\ 0 = word.name.dots
        BY DEF Spelling
      <4> QED
        BY <2>10, <4>1
    <3>2. contains(new, host) <=> contains(found, host)
      BY <1>1, <2>6, <2>10, <3>1, ContainsName
    <3> QED
      BY <2>3, <2>6, <2>7, <2>10, <3>2 DEF new
  <2>11. CASE is_valid_domain(word) /\ word.name.dots = 0
    <3>1. \A k : Spelling(k, FALSE, 0) = d <=> k = m
      <4>1. \A k : Spelling(k, FALSE, 0) = Spelling(m, FALSE, word.name.dots)
                     <=> k = m /\ 0 = word.name.dots
        BY DEF Spelling
      <4> QED
        BY <2>11, <4>1
    <3>2. CASE l.start = ""
      <4>1. contains(new, host) <=> contains(found, host) \/ n = m
        BY <1>1, <2>6, <2>11, <3>1, <3>2, ContainsName
      <4> QED
        BY <2>3, <2>6, <2>7, <2>11, <3>2, <4>1 DEF new
    <3>3. CASE l.start = "||"
      <4>1. contains(new, host) <=>
              contains(found, host) \/ (n = m \/ \E i \in 2 .. Len(n) : SubSeq(n, i, Len(n)) = m)
        BY <1>1, <2>6, <2>11, <3>1, <3>3, ContainsName
      <4>2. Len(m) >= 2
        BY <2>5, <2>11
      <4>3. (n = m \/ \E i \in 2 .. Len(n) : SubSeq(n, i, Len(n)) = m) <=>
              Len(n) - Len(m) >= 0 /\ SubSeq(n, Len(n) - Len(m) + 1, Len(n)) = m
        BY <2>5, <4>2, SuffixOf
      <4> QED
        BY <2>3, <2>6, <2>7, <2>11, <3>3, <4>1, <4>3 DEF new
    <3> QED
      BY <2>8, <3>2, <3>3
  <2> QED
    BY <2>9, <2>10, <2>11
<1> QED
  BY <1>5, <1>6

-----------------------------------------------------------------------------
(* A whole file.                                                           *)

\* Nothing read, nothing blocked.
LEMMA ReadsNothing ==
  ASSUME NEW path
  PROVE  NoEntries \in Blocklists /\ Reads(NoEntries, path, 0)
<1>1. NoEntries \in Blocklists /\ NoEntries.exact = {} /\ NoEntries.suffixes = {}
  BY DEF NoEntries, Blocklists
<1>2. ASSUME NEW host \in Names PROVE ~contains(NoEntries, host)
  <2>1. PICK n \in Seq(Labels) : host = Spelling(n, FALSE, 0)
    BY DEF Names
  <2> QED
    BY <1>1, <2>1, ContainsName
<1> QED
  BY <1>1, <1>2 DEF Reads

\* One more line read.
LEMMA ReadsNext ==
  ASSUME NEW path \in DOMAIN Files, NEW k \in 1 .. Len(Files[path].lines),
         NEW bl \in Blocklists, Reads(bl, path, k - 1)
  PROVE  LET new == WithLine(bl, Files[path].lines[k])
         IN  new \in Blocklists /\ Reads(new, path, k)
<1> DEFINE l == Files[path].lines[k]
           new == WithLine(bl, l)
<1>1. l \in Lines
  BY FilesAssumption
<1>2. Names # {}
  <2>1. <<>> \in Seq(Labels)
    OBVIOUS
  <2> QED
    BY <2>1 DEF Names
<1>3. new \in Blocklists
  BY <1>1, <1>2, LineMeansWhatItSays
<1>4. ASSUME NEW host \in Names
      PROVE  contains(new, host) <=> \E j \in 1 .. k : Lists(Files[path].lines[j], host)
  <2>1. contains(new, host) <=> contains(bl, host) \/ Lists(l, host)
    BY <1>1, LineMeansWhatItSays
  <2>2. contains(bl, host) <=> \E j \in 1 .. k - 1 : Lists(Files[path].lines[j], host)
    BY DEF Reads
  <2>3. 1 .. k = (1 .. k - 1) \cup {k}
    OBVIOUS
  <2> QED
    BY <2>1, <2>2, <2>3, Zenon
<1> QED
  BY <1>3, <1>4 DEF Reads

-----------------------------------------------------------------------------
(* The inductive invariant.                                                *)

Binding == {"relays", "policy", "nscd", "dns", "serving"}

\* Of the lists before the current one, all were files, and the last of each
\* name is what that name stands for.
ListsInv ==
  /\ list \in 1 .. Len(cfg.blocklists) + 1
  /\ phase \in {"config", "down"} => list = 1
  /\ phase = "lines" => list <= Len(cfg.blocklists)
  /\ phase \in {"rules"} \cup Binding => list = Len(cfg.blocklists) + 1
  /\ \A i \in 1 .. list - 1 : Files[ListPath(i)].kind = "file"
  /\ DOMAIN blocklists = {ListName(i) : i \in 1 .. list - 1}
  /\ \A i \in 1 .. list - 1 :
       (\A j \in i + 1 .. list - 1 : ListName(j) # ListName(i)) =>
         Reads(blocklists[ListName(i)], ListPath(i), Len(ListLines(i)))

\* Of the current list, what the lines so far say.
ReadingInv ==
  phase = "lines" /\ ListFile.kind = "file" =>
    /\ line \in 1 .. Len(ListFile.lines) + 1 /\ entries \in Blocklists
    /\ Reads(entries, ListPath(list), line - 1)

Compiled == {r \in [program : STRING, verdict : {"Allow", "Deny", "Passthrough"}] :
               Compiles(r.program)}

\* The rules so far are the first ones of the configuration, and compile.
RulesInv ==
  /\ rules \in Seq(Compiled) /\ Len(rules) <= Len(cfg.rules)
  /\ \A i \in 1 .. Len(rules) : rules[i] = cfg.rules[i]
  /\ phase \notin {"rules"} \cup Binding => rules = <<>>
  /\ phase \in Binding => Len(rules) = Len(cfg.rules)

\* The sockets that are bound when main is at a step.
BoundAt(p) ==
  IF p = "nscd" THEN {"policy"}
  ELSE IF p = "dns" THEN ListenersOf(cfg) \ {"dns"}
  ELSE IF p = "serving" THEN ListenersOf(cfg) ELSE {}

UserKnown ==
  NeedsUser(cfg) => cfg.nscd_user \in DOMAIN Passwd /\ nscdUid = Passwd[cfg.nscd_user].uid

\* main takes its steps in order.
StartInv ==
  /\ phase \notin {"config", "down"} => cfg.parses
  /\ phase \in {"policy", "nscd", "dns", "serving"} => UserKnown
  /\ bound = BoundAt(phase)
  /\ phase = "serving" => (dns(cfg) => cfg.dns_frontend.upstream)
  /\ phase # "serving" => tasks = {}

LoadInv == ListsInv /\ ReadingInv /\ RulesInv

IInv == TypeOK /\ LoadInv /\ StartInv

-----------------------------------------------------------------------------
(* Steps of the load.                                                      *)

LEMMA Element ==
  ASSUME NEW S, NEW s \in Seq(S), NEW i \in 1 .. Len(s)
  PROVE  s[i] \in S
OBVIOUS

\* The types of the current configuration.
LEMMA ConfigTypes ==
  ASSUME cfg \in Configs
  PROVE  /\ cfg.blocklists \in Seq([name : STRING, path : DOMAIN Files])
         /\ Len(cfg.blocklists) \in Nat
         /\ \A i \in 1 .. Len(cfg.blocklists) : ListPath(i) \in DOMAIN Files
         /\ \A i \in 1 .. Len(cfg.blocklists) : Len(ListLines(i)) \in Nat
         /\ cfg.rules \in Seq([program : STRING, verdict : {"Allow", "Deny", "Passthrough"}])
         /\ Len(cfg.rules) \in Nat
<1>1. /\ cfg.blocklists \in Seq([name : STRING, path : DOMAIN Files])
      /\ cfg.rules \in Seq([program : STRING, verdict : {"Allow", "Deny", "Passthrough"}])
  BY ConfigsAssumption
<1>2. Len(cfg.blocklists) \in Nat /\ Len(cfg.rules) \in Nat
  BY <1>1
<1>3. ASSUME NEW i \in 1 .. Len(cfg.blocklists) PROVE ListPath(i) \in DOMAIN Files
  <2>1. cfg.blocklists[i] \in [name : STRING, path : DOMAIN Files]
    BY <1>1, Element, Zenon
  <2> QED
    BY <2>1 DEF ListPath
<1>4. \A i \in 1 .. Len(cfg.blocklists) : Len(ListLines(i)) \in Nat
  BY <1>3, FilesAssumption DEF ListLines
<1> QED
  BY <1>1, <1>2, <1>3, <1>4

\* A step that leaves the load alone, and does not go to another part of it.
LEMMA LoadFrame ==
  ASSUME TypeOK, LoadInv, UNCHANGED <<cfg, loadVars>>,
         phase' = "lines" => phase = "lines",
         phase' \in {"config", "down"} => phase \in {"config", "down"},
         phase' = "rules" => phase = "rules",
         phase = "rules" => phase' = "rules" \/ (phase' \in Binding /\ Len(rules) = Len(cfg.rules)),
         phase' \in Binding => phase \in {"rules"} \cup Binding,
         phase \in Binding => phase' \in Binding
  PROVE  LoadInv'
<1>1. ListsInv'
  BY DEF LoadInv, ListsInv, loadVars, ListName, ListPath, ListLines, Reads, Binding
<1>2. ReadingInv'
  BY DEF LoadInv, ReadingInv, loadVars, ListFile, ListPath, Reads
<1>3. RulesInv'
  BY DEF LoadInv, RulesInv, loadVars, Compiled, Binding
<1> QED
  BY <1>1, <1>2, <1>3 DEF LoadInv

\* The state of a process that has not loaded anything.
LEMMA LoadFresh ==
  ASSUME cfg \in Configs, list = 1, rules = <<>>, blocklists = [n \in {} |-> NoEntries],
         phase \in {"config", "down"}
  PROVE  LoadInv
<1>1. Len(cfg.blocklists) \in Nat /\ Len(cfg.rules) \in Nat
  BY ConfigTypes
<1>2. ListsInv
  BY <1>1 DEF ListsInv, Binding
<1>3. ReadingInv
  BY DEF ReadingInv
<1>4. RulesInv
  BY <1>1 DEF RulesInv, Binding
<1> QED
  BY <1>2, <1>3, <1>4 DEF LoadInv

\* A file of the configuration is opened.
LEMMA OpenListInv ==
  ASSUME TypeOK, LoadInv, OpenList
  PROVE  LoadInv'
<1>1. ListsInv'
  BY DEF LoadInv, ListsInv, OpenList, ListName, ListPath, ListLines, Reads, Binding
<1>2. ReadingInv'
  <2>1. /\ phase = "lists" /\ list \in 1 .. Len(cfg.blocklists)
        /\ line' = 1 /\ entries' = NoEntries /\ cfg' = cfg /\ list' = list
    BY ConfigTypes DEF TypeOK, OpenList, LoadInv, ListsInv
  <2>2. Len(ListFile.lines) \in Nat
    BY <2>1, ConfigTypes DEF TypeOK, ListFile, ListLines, ListPath
  <2>3. NoEntries \in Blocklists /\ Reads(NoEntries, ListPath(list), 0)
    BY ReadsNothing
  <2>4. ListFile' = ListFile /\ ListPath(list)' = ListPath(list)
    BY <2>1 DEF ListFile, ListPath
  <2>5. Reads(entries, ListPath(list), line - 1)'
    BY <2>1, <2>3, <2>4 DEF Reads
  <2>6. line' \in 1 .. Len(ListFile'.lines) + 1
    BY <2>1, <2>2, <2>4
  <2> QED
    BY <2>1, <2>3, <2>5, <2>6 DEF ReadingInv
<1>3. RulesInv'
  BY DEF LoadInv, RulesInv, OpenList, Compiled, Binding
<1> QED
  BY <1>1, <1>2, <1>3 DEF LoadInv

\* One line of it is read.
LEMMA ReadLineInv ==
  ASSUME TypeOK, LoadInv, ReadLine
  PROVE  LoadInv'
<1>0. UNCHANGED <<cfg, phase, list, blocklists, rules>>
  BY DEF ReadLine
<1>1. ListsInv'
  BY <1>0 DEF LoadInv, ListsInv, ListName, ListPath, ListLines, Reads, Binding
<1>2. ReadingInv'
  <2>1. /\ phase = "lines" /\ ListFile.kind = "file" /\ list \in 1 .. Len(cfg.blocklists)
        /\ line <= Len(ListFile.lines) /\ line' = line + 1
        /\ entries' = WithLine(entries, ListFile.lines[line])
    BY ConfigTypes DEF TypeOK, ReadLine, LoadInv, ListsInv
  <2>2. line \in 1 .. Len(ListFile.lines) + 1 /\ entries \in Blocklists
        /\ Reads(entries, ListPath(list), line - 1)
    BY <2>1 DEF LoadInv, ReadingInv
  <2>3. ListPath(list) \in DOMAIN Files /\ ListFile = Files[ListPath(list)]
    BY <2>1, ConfigTypes DEF TypeOK, ListFile, ListPath
  <2>4. Len(ListFile.lines) \in Nat
    BY <2>1, ConfigTypes DEF TypeOK, ListFile, ListLines, ListPath
  <2>5. line \in 1 .. Len(ListFile.lines)
    BY <2>1, <2>2, <2>4
  <2>6. entries' \in Blocklists /\ Reads(entries', ListPath(list), line)
    BY <2>1, <2>2, <2>3, <2>5, ReadsNext
  <2>7. line' - 1 = line /\ line' \in 1 .. Len(ListFile.lines) + 1
    BY <2>1, <2>4, <2>5
  <2>8. ListFile' = ListFile /\ ListPath(list)' = ListPath(list)
    BY <1>0 DEF ListFile, ListPath
  <2>9. Reads(entries, ListPath(list), line - 1)'
    BY <2>6, <2>7, <2>8 DEF Reads
  <2> QED
    BY <2>6, <2>7, <2>8, <2>9 DEF ReadingInv
<1>3. RulesInv'
  BY <1>0 DEF LoadInv, RulesInv, Compiled, Binding
<1> QED
  BY <1>1, <1>2, <1>3 DEF LoadInv

\* A read of a directory fails, again.
LEMMA ReadFailsInv ==
  ASSUME TypeOK, LoadInv, ReadFails
  PROVE  LoadInv'
BY LoadFrame DEF ReadFails, Binding

\* The list is complete, and takes the place of an earlier one of its name.
LEMMA EndOfFileInv ==
  ASSUME TypeOK, LoadInv, EndOfFile
  PROVE  LoadInv'
<1> DEFINE N    == Len(cfg.blocklists)
           name == cfg.blocklists[list].name
<1>1. /\ phase = "lines" /\ ListFile.kind = "file" /\ line > Len(ListFile.lines)
      /\ blocklists' = [n \in DOMAIN blocklists \cup {name} |->
                          IF n = name THEN entries ELSE blocklists[n]]
      /\ list' = list + 1 /\ phase' = "lists"
      /\ UNCHANGED <<cfg, line, entries, rules>>
  BY DEF EndOfFile
<1>2. N \in Nat /\ list \in 1 .. N
  BY <1>1, ConfigTypes DEF TypeOK, LoadInv, ListsInv
<1>3. ListFile = Files[ListPath(list)] /\ ListFile.lines = ListLines(list) /\ name = ListName(list)
  BY DEF ListFile, ListPath, ListLines, ListName
<1>4. Len(ListFile.lines) \in Nat
  BY <1>2, <1>3, ConfigTypes DEF TypeOK
<1>5. Reads(entries, ListPath(list), Len(ListLines(list)))
  <2>1. line \in 1 .. Len(ListFile.lines) + 1 /\ Reads(entries, ListPath(list), line - 1)
    BY <1>1 DEF LoadInv, ReadingInv
  <2>2. line - 1 = Len(ListFile.lines)
    BY <1>1, <1>4, <2>1
  <2> QED
    BY <1>3, <2>1, <2>2
<1>6. 1 .. list' - 1 = (1 .. list - 1) \cup {list}
  BY <1>1, <1>2
<1>7. ListsInv'
  <2> HIDE DEF name
  <2>1. list' \in 1 .. N + 1
    BY <1>1, <1>2
  <2>2. \A i \in 1 .. list' - 1 : Files[ListPath(i)].kind = "file"
    BY <1>1, <1>3, <1>6 DEF LoadInv, ListsInv
  <2>3. DOMAIN blocklists' = {ListName(i) : i \in 1 .. list' - 1}
    <3>1. DOMAIN blocklists = {ListName(i) : i \in 1 .. list - 1}
      BY DEF LoadInv, ListsInv
    <3>2. DOMAIN blocklists' = DOMAIN blocklists \cup {ListName(list)}
      BY <1>1, <1>3
    <3> QED
      BY <1>6, <3>1, <3>2
  <2>4. ASSUME NEW i \in 1 .. list' - 1, \A j \in i + 1 .. list' - 1 : ListName(j) # ListName(i)
        PROVE  Reads(blocklists'[ListName(i)], ListPath(i), Len(ListLines(i)))
    <3>1. CASE i = list
      <4>1. blocklists'[ListName(list)] = entries
        BY <1>1, <1>3
      <4> QED
        BY <1>5, <3>1, <4>1
    <3>2. CASE i # list
      <4>1. i \in 1 .. list - 1 /\ list \in i + 1 .. list' - 1
        BY <1>1, <1>2, <1>6, <3>2
      <4>2. ListName(i) # name /\ ListName(i) \in DOMAIN blocklists
        BY <1>3, <2>4, <4>1 DEF LoadInv, ListsInv
      <4>3. blocklists'[ListName(i)] = blocklists[ListName(i)]
        BY <1>1, <4>2
      <4>4. \A j \in i + 1 .. list - 1 : ListName(j) # ListName(i)
        BY <1>1, <1>2, <2>4
      <4>5. Reads(blocklists[ListName(i)], ListPath(i), Len(ListLines(i)))
        BY <4>1, <4>4 DEF LoadInv, ListsInv
      <4> QED
        BY <4>3, <4>5
    <3> QED
      BY <3>1, <3>2
  <2>5. /\ \A i : ListName(i)' = ListName(i) /\ ListPath(i)' = ListPath(i)
        /\ \A i : ListLines(i)' = ListLines(i)
    BY <1>1 DEF ListName, ListPath, ListLines
  <2>6. ASSUME NEW i \in 1 .. list' - 1, \A j \in i + 1 .. list' - 1 : ListName(j)' # ListName(i)'
        PROVE  Reads(blocklists[ListName(i)], ListPath(i), Len(ListLines(i)))'
    <3>1. Reads(blocklists'[ListName(i)], ListPath(i), Len(ListLines(i)))
      BY <2>4, <2>5, <2>6
    <3> QED
      BY <2>5, <3>1 DEF Reads
  <2> QED
    BY <1>1, <2>1, <2>2, <2>3, <2>5, <2>6 DEF ListsInv, Binding
<1>8. ReadingInv'
  BY <1>1 DEF ReadingInv
<1>9. RulesInv'
  BY <1>1 DEF LoadInv, RulesInv, Binding
<1> QED
  BY <1>7, <1>8, <1>9 DEF LoadInv

\* Every list is loaded.
LEMMA ListsDoneInv ==
  ASSUME TypeOK, LoadInv, ListsDone
  PROVE  LoadInv'
<1>1. /\ phase = "lists" /\ list > Len(cfg.blocklists) /\ phase' = "rules"
      /\ UNCHANGED <<cfg, loadVars>>
  BY DEF ListsDone
<1>2. list = Len(cfg.blocklists) + 1
  BY <1>1, ConfigTypes DEF TypeOK, LoadInv, ListsInv
<1>3. ListsInv'
  BY <1>1, <1>2 DEF LoadInv, ListsInv, loadVars, ListName, ListPath, ListLines, Reads, Binding
<1>4. ReadingInv'
  BY <1>1 DEF ReadingInv
<1>5. RulesInv'
  BY <1>1 DEF LoadInv, RulesInv, loadVars, Binding
<1> QED
  BY <1>3, <1>4, <1>5 DEF LoadInv

\* One more rule compiles.
LEMMA CompileRuleInv ==
  ASSUME TypeOK, LoadInv, CompileRule
  PROVE  LoadInv'
<1> DEFINE rule == cfg.rules[Len(rules) + 1]
<1>1. /\ phase = "rules" /\ Len(rules) < Len(cfg.rules)
      /\ rules' = Append(rules, rule)
      /\ UNCHANGED <<cfg, phase, list, line, entries, blocklists>>
  BY DEF CompileRule
<1>2. Compiles(rule.program)
  BY Zenon DEF CompileRule
<1>3. ListsInv'
  BY <1>1 DEF LoadInv, ListsInv, ListName, ListPath, ListLines, Reads, Binding
<1>4. ReadingInv'
  BY <1>1 DEF LoadInv, ReadingInv, ListFile, ListPath, Reads
<1>5. RulesInv'
  <2>1. rules \in Seq(Compiled) /\ Len(rules) \in Nat /\ Len(cfg.rules) \in Nat
    BY ConfigTypes DEF TypeOK, LoadInv, RulesInv
  <2>2. rule \in [program : STRING, verdict : {"Allow", "Deny", "Passthrough"}]
    <3>1. Len(rules) + 1 \in 1 .. Len(cfg.rules)
      BY <1>1, <2>1
    <3>2. cfg.rules \in Seq([program : STRING, verdict : {"Allow", "Deny", "Passthrough"}])
      BY ConfigTypes DEF TypeOK
    <3> QED
      BY <3>1, <3>2, Element, Zenon
  <2>3. rule \in Compiled
    BY <1>2, <2>2, Zenon DEF Compiled
  <2> HIDE DEF rule
  <2>4. rules' \in Seq(Compiled) /\ Len(rules') = Len(rules) + 1
    BY <1>1, <2>1, <2>3
  <2>5. \A i \in 1 .. Len(rules') : rules'[i] = cfg.rules[i]
    BY <1>1, <2>1, <2>3, <2>4 DEF LoadInv, RulesInv, rule
  <2> QED
    BY <1>1, <2>1, <2>4, <2>5 DEF RulesInv, Binding
<1> QED
  BY <1>3, <1>4, <1>5 DEF LoadInv

LEMMA LoadStepInv ==
  ASSUME TypeOK, LoadInv, LoadStep
  PROVE  LoadInv'
BY OpenListInv, ReadLineInv, ReadFailsInv, EndOfFileInv, ListsDoneInv, CompileRuleInv DEF LoadStep

-----------------------------------------------------------------------------
(* The other steps of main.                                                *)

\* Where After goes.
LEMMA AfterSteps ==
  /\ After("config") = "lists" /\ After("rules") = "relays" /\ After("relays") = "policy"
  /\ After("policy") = "nscd" /\ After("nscd") = "dns" /\ After("dns") = "serving"
BY DEF After

\* The end of the process.
LEMMA ExitInv ==
  ASSUME TypeOK, Exit, files' \subseteq {"policy", "nscd"}, faults' \in 0 .. MaxFaults
  PROVE  IInv'
<1>1. TypeOK'
  <2>1. 0 \in 0 .. MaxWaiting /\ 0 \in 0 .. FdLimit /\ 0 <= MaxConnections
    BY BoundsAssumption
  <2>2. /\ waiting' \in [Listeners -> 0 .. MaxWaiting] /\ open' \in [Listeners -> 0 .. FdLimit]
        /\ open'["nscd"] = 0 /\ open'["dns"] = 0
    BY <2>1 DEF Exit, Listeners
  <2>3. Len(rules') <= Len(cfg'.rules) /\ cfg' \in Configs
    BY ConfigTypes DEF Exit, TypeOK
  <2> QED
    BY <2>1, <2>2, <2>3 DEF Exit, TypeOK
<1>2. LoadInv'
  <2>1. /\ cfg' \in Configs /\ list' = 1 /\ rules' = <<>>
        /\ blocklists' = [n \in {} |-> NoEntries] /\ phase' = "down"
    BY DEF Exit, TypeOK
  <2>2. Len(cfg'.blocklists) \in Nat /\ Len(cfg'.rules) \in Nat
    BY ConfigTypes DEF Exit, TypeOK
  <2>3. ListsInv'
    BY <2>1, <2>2 DEF ListsInv, Binding
  <2>4. ReadingInv'
    BY <2>1 DEF ReadingInv
  <2>5. RulesInv'
    BY <2>1, <2>2 DEF RulesInv, Binding
  <2> QED
    BY <2>3, <2>4, <2>5 DEF LoadInv
<1>3. StartInv'
  BY DEF Exit, StartInv, BoundAt
<1> QED
  BY <1>1, <1>2, <1>3 DEF IInv

\* A step that only moves main on.
LEMMA MovesOn ==
  ASSUME IInv, UNCHANGED <<cfg, loadVars, startVars, serveVars, faults>>,
         \/ phase = "config" /\ cfg.parses /\ phase' = "lists"
         \/ phase = "rules" /\ Len(rules) = Len(cfg.rules) /\ phase' = "relays"
         \/ phase = "nscd" /\ ~nscd(cfg) /\ phase' = "dns"
  PROVE  IInv'
<1>1. TypeOK'
  BY DEF IInv, TypeOK, loadVars, startVars, serveVars
<1>2. LoadInv'
  <2>1. \/ phase = "config" /\ phase' = "lists"
        \/ phase = "rules" /\ Len(rules) = Len(cfg.rules) /\ phase' = "relays"
        \/ phase = "nscd" /\ phase' = "dns"
    BY Zenon
  <2> QED
    BY <2>1, LoadFrame DEF IInv, Binding
<1>3. StartInv'
  <2>1. /\ phase' \notin {"config", "down"} /\ phase' # "serving" /\ phase # "serving"
        /\ phase' \in {"policy", "nscd", "dns", "serving"} => phase = "nscd"
    BY Zenon
  <2>2. cfg'.parses
    BY Zenon DEF IInv, StartInv
  <2>3. phase' \in {"policy", "nscd", "dns", "serving"} => UserKnown'
    BY <2>1, Zenon DEF IInv, StartInv, UserKnown, NeedsUser, nscd, nss, Enabled, startVars
  <2>4. tasks' = {}
    BY <2>1, Zenon DEF IInv, StartInv, serveVars
  <2>5. bound' = BoundAt(phase)'
    <3>1. bound' = bound /\ bound = BoundAt(phase) /\ cfg' = cfg
      BY DEF IInv, StartInv, startVars
    <3>2. phase = "nscd" => ~nscd(cfg) /\ phase' = "dns"
      BY Zenon
    <3>3. phase # "nscd" => phase' \in {"lists", "relays"} /\ phase \in {"config", "rules"}
      BY Zenon
    <3> QED
      BY <3>1, <3>2, <3>3 DEF BoundAt, ListenersOf
  <2> QED
    BY <2>1, <2>2, <2>3, <2>4, <2>5, Zenon DEF StartInv
<1> QED
  BY <1>1, <1>2, <1>3 DEF IInv

\* A step of the load.
LEMMA LoadInvStep ==
  ASSUME IInv, Load
  PROVE  IInv'
<1>1. LoadInv'
  BY LoadStepInv DEF IInv, Load
<1>2. /\ phase \in {"lists", "lines", "rules"} /\ phase' \in {"lists", "lines", "rules"}
      /\ cfg' = cfg /\ UNCHANGED <<startVars, serveVars, faults>>
  BY DEF Load, LoadStep, OpenList, ReadLine, ReadFails, EndOfFile, ListsDone, CompileRule
<1>3. list' \in Nat /\ line' \in Nat
  BY DEF IInv, TypeOK, Load, LoadStep, OpenList, ReadLine, ReadFails, EndOfFile, ListsDone,
         CompileRule, loadVars
<1>4. TypeOK'
  BY <1>1, <1>2, <1>3 DEF IInv, TypeOK, LoadInv, RulesInv, startVars, serveVars
<1>5. StartInv'
  <2>1. cfg'.parses
    BY <1>2, Zenon DEF IInv, StartInv
  <2>2. bound' = {} /\ tasks' = {}
    BY <1>2 DEF IInv, StartInv, BoundAt, startVars, serveVars
  <2> QED
    BY <1>2, <2>1, <2>2 DEF StartInv, BoundAt
<1> QED
  BY <1>1, <1>4, <1>5 DEF IInv

\* The lookup of nscd's user.
LEMMA UserSteps ==
  ASSUME IInv, GrowBuffer \/ ResolveRelays
  PROVE  IInv'
<1>1. /\ phase = "relays" /\ phase' \in {"relays", "policy"}
      /\ UNCHANGED <<cfg, loadVars, files, bound, serveVars, faults>>
      /\ phase' = "policy" => ResolveRelays
  BY AfterSteps DEF GrowBuffer, ResolveRelays
<1>2. buf' \in Nat
  BY DEF IInv, TypeOK, GrowBuffer, ResolveRelays
<1>3. TypeOK'
  BY <1>1, <1>2 DEF IInv, TypeOK, loadVars, serveVars
<1>4. LoadInv'
  BY <1>1, LoadFrame DEF IInv, Binding
<1>5. StartInv'
  <2>1. phase' = "policy" => UserKnown'
    BY <1>1 DEF ResolveRelays, UserKnown, NeedsUser, nscd, nss, Enabled
  <2>2. cfg'.parses
    BY <1>1, Zenon DEF IInv, StartInv
  <2>3. bound' = {} /\ tasks' = {}
    BY <1>1 DEF IInv, StartInv, BoundAt, serveVars
  <2> QED
    BY <1>1, <2>1, <2>2, <2>3 DEF StartInv, BoundAt
<1> QED
  BY <1>3, <1>4, <1>5 DEF IInv

\* A unix socket.
LEMMA BindUnixInv ==
  ASSUME IInv, NEW l \in {"policy", "nscd"}, BindUnix(l)
  PROVE  IInv'
<1>1. /\ phase = l /\ l \in ListenersOf(cfg) /\ files' = files \cup {l} /\ bound' = bound \cup {l}
      /\ phase' = IF l = "policy" THEN "nscd" ELSE "dns"
      /\ UNCHANGED <<cfg, loadVars, buf, nscdUid, serveVars, faults>>
  BY AfterSteps DEF BindUnix
<1>2. TypeOK'
  BY <1>1 DEF IInv, TypeOK, loadVars, serveVars, Listeners
<1>3. LoadInv'
  BY <1>1, LoadFrame DEF IInv, Binding
<1>4. StartInv'
  <2>1. UserKnown'
    BY <1>1 DEF IInv, StartInv, UserKnown, NeedsUser, nscd, nss, Enabled
  <2>2. cfg'.parses
    BY <1>1, Zenon DEF IInv, StartInv
  <2>3. tasks' = {}
    BY <1>1 DEF IInv, StartInv, serveVars
  <2>4. bound' = BoundAt(phase)'
    <3>1. cfg' = cfg /\ bound = BoundAt(phase)
      BY <1>1 DEF IInv, StartInv
    <3> QED
      BY <1>1, <3>1 DEF BoundAt, ListenersOf
  <2>5. phase' \in {"nscd", "dns"}
    BY <1>1
  <2> QED
    BY <2>1, <2>2, <2>3, <2>4, <2>5 DEF StartInv
<1> QED
  BY <1>2, <1>3, <1>4 DEF IInv

\* The DNS front-end's sockets, and then the tasks.
LEMMA BindDnsInv ==
  ASSUME IInv, BindDns
  PROVE  IInv'
<1>1. /\ phase = "dns" /\ phase' = "serving" /\ tasks' = bound'
      /\ bound' = bound \cup (IF dns(cfg) THEN {"dns"} ELSE {})
      /\ UNCHANGED <<cfg, loadVars, buf, nscdUid, files, waiting, open, faults>>
  BY AfterSteps DEF BindDns
<1>2. TypeOK'
  BY <1>1 DEF IInv, TypeOK, loadVars, Listeners
<1>3. LoadInv'
  BY <1>1, LoadFrame DEF IInv, Binding
<1>4. StartInv'
  <2>1. UserKnown'
    BY <1>1 DEF IInv, StartInv, UserKnown, NeedsUser, nscd, nss, Enabled
  <2>2. cfg'.parses
    BY <1>1, Zenon DEF IInv, StartInv
  <2>3. dns(cfg') => cfg'.dns_frontend.upstream
    BY <1>1, Zenon DEF BindDns
  <2>4. bound' = BoundAt(phase)'
    <3>1. cfg' = cfg /\ bound = ListenersOf(cfg) \ {"dns"}
      BY <1>1 DEF IInv, StartInv, BoundAt
    <3> QED
      BY <1>1, <3>1 DEF BoundAt, ListenersOf
  <2> QED
    BY <1>1, <2>1, <2>2, <2>3, <2>4, Zenon DEF StartInv, dns
<1> QED
  BY <1>2, <1>3, <1>4 DEF IInv

\* The steps that end the process.
LEMMA EndSteps ==
  ASSUME IInv, StartFails \/ StartFault \/ JoinNext \/ Killed
  PROVE  IInv'
<1>1. Exit
  BY DEF StartFails, StartFault, JoinNext, Killed
<1>2. files' \subseteq {"policy", "nscd"}
  BY DEF IInv, TypeOK, StartFails, StartFault, JoinNext, Killed
<1>3. faults' \in 0 .. MaxFaults
  <2>1. faults' = faults \/ (faults < MaxFaults /\ faults' = faults + 1)
    BY DEF StartFails, StartFault, JoinNext, Killed
  <2> QED
    BY <2>1, BoundsAssumption DEF IInv, TypeOK
<1> QED
  BY <1>1, <1>2, <1>3, ExitInv DEF IInv

\* systemd starts it again.
LEMMA RestartInv ==
  ASSUME IInv, Restart
  PROVE  IInv'
<1>1. /\ phase = "down" /\ phase' = "config" /\ files' \subseteq files
      /\ UNCHANGED <<cfg, loadVars, buf, nscdUid, bound, serveVars, faults>>
  BY DEF Restart
<1>2. TypeOK'
  BY <1>1 DEF IInv, TypeOK, loadVars, serveVars
<1>3. LoadInv'
  BY <1>1, LoadFrame DEF IInv, Binding
<1>4. StartInv'
  <2>1. bound' = {} /\ tasks' = {}
    BY <1>1 DEF IInv, StartInv, BoundAt, serveVars
  <2> QED
    BY <1>1, <2>1 DEF StartInv, BoundAt
<1> QED
  BY <1>2, <1>3, <1>4 DEF IInv

-----------------------------------------------------------------------------
(* Serving.                                                                *)

\* A step of the listeners and their clients leaves what was started alone.
LEMMA ServeFrame ==
  ASSUME IInv, UNCHANGED <<cfg, phase, loadVars, startVars>>, tasks' \subseteq tasks,
         waiting' \in [Listeners -> 0 .. MaxWaiting], open' \in [Listeners -> 0 .. FdLimit],
         open'["nscd"] <= MaxConnections, open'["dns"] <= MaxConnections,
         faults' \in 0 .. MaxFaults
  PROVE  IInv'
<1>1. TypeOK'
  BY DEF IInv, TypeOK, loadVars, startVars
<1>2. LoadInv'
  BY LoadFrame DEF IInv, Binding
<1>3. StartInv'
  <2>1. phase' # "serving" => tasks' = {}
    BY DEF IInv, StartInv
  <2>2. bound' = BoundAt(phase)'
    BY DEF IInv, StartInv, BoundAt, ListenersOf, nscd, dns, Enabled, startVars
  <2>3. phase' \in {"policy", "nscd", "dns", "serving"} => UserKnown'
    BY DEF IInv, StartInv, UserKnown, NeedsUser, nscd, nss, Enabled, startVars
  <2>4. /\ phase' \notin {"config", "down"} => cfg'.parses
        /\ phase' = "serving" => (dns(cfg') => cfg'.dns_frontend.upstream)
    BY Zenon DEF IInv, StartInv, dns, Enabled
  <2> QED
    BY <2>1, <2>2, <2>3, <2>4, Zenon DEF StartInv, dns
<1> QED
  BY <1>1, <1>2, <1>3 DEF IInv

LEMMA ServeSteps ==
  ASSUME IInv, NEW l \in Listeners, Connect(l) \/ Accept(l) \/ AcceptFails(l) \/ Close(l)
  PROVE  IInv'
<1>1. /\ waiting \in [Listeners -> 0 .. MaxWaiting] /\ open \in [Listeners -> 0 .. FdLimit]
      /\ open["nscd"] <= MaxConnections /\ open["dns"] <= MaxConnections
      /\ faults \in 0 .. MaxFaults
      /\ MaxWaiting \in Nat /\ FdLimit \in Nat /\ MaxConnections \in Nat
  BY BoundsAssumption DEF IInv, TypeOK
<1>2. CASE Connect(l)
  <2>1. waiting' \in [Listeners -> 0 .. MaxWaiting]
    BY <1>1, <1>2 DEF Connect
  <2> QED
    BY <1>1, <1>2, <2>1, ServeFrame DEF Connect
<1>3. CASE Accept(l)
  <2>1. waiting' \in [Listeners -> 0 .. MaxWaiting]
    BY <1>1, <1>3 DEF Accept, MayAccept
  <2>2. open[l] < FdLimit
    <3>1. /\ open["policy"] \in 0 .. FdLimit /\ open["nscd"] \in 0 .. FdLimit
          /\ open["dns"] \in 0 .. FdLimit
      BY <1>1 DEF Listeners
    <3>2. ~(open["policy"] + open["nscd"] + open["dns"] >= FdLimit)
      BY <1>3 DEF Accept, OutOfDescriptors
    <3>3. l \in {"policy", "nscd", "dns"}
      BY DEF Listeners
    <3> QED
      BY <1>1, <3>1, <3>2, <3>3
  <2>3. open' = [open EXCEPT ![l] = @ + 1]
    BY <1>3 DEF Accept
  <2>4. open' \in [Listeners -> 0 .. FdLimit]
    BY <1>1, <2>2, <2>3
  <2>5. l # "policy" => open[l] < MaxConnections
    BY <1>3 DEF Accept, MayAccept
  <2>6. open'["nscd"] <= MaxConnections /\ open'["dns"] <= MaxConnections
    BY <1>1, <2>3, <2>5 DEF Listeners
  <2> QED
    BY <1>1, <1>3, <2>1, <2>4, <2>6, ServeFrame DEF Accept
<1>4. CASE AcceptFails(l)
  BY <1>1, <1>4, ServeFrame DEF AcceptFails
<1>5. CASE Close(l)
  <2>1. open' = [open EXCEPT ![l] = @ - 1] /\ open[l] > 0
    BY <1>5 DEF Close
  <2>2. open' \in [Listeners -> 0 .. FdLimit]
    BY <1>1, <2>1
  <2>3. open'["nscd"] <= MaxConnections /\ open'["dns"] <= MaxConnections
    BY <1>1, <2>1 DEF Listeners
  <2> QED
    BY <1>1, <1>5, <2>2, <2>3, ServeFrame DEF Close
<1> QED
  BY <1>2, <1>3, <1>4, <1>5

LEMMA RecvFailsInv ==
  ASSUME IInv, RecvFails
  PROVE  IInv'
<1>1. faults' \in 0 .. MaxFaults
  BY BoundsAssumption DEF IInv, TypeOK, RecvFails
<1>2. /\ waiting' \in [Listeners -> 0 .. MaxWaiting] /\ open' \in [Listeners -> 0 .. FdLimit]
      /\ open'["nscd"] <= MaxConnections /\ open'["dns"] <= MaxConnections
  BY DEF IInv, TypeOK, RecvFails
<1> QED
  BY <1>1, <1>2, ServeFrame DEF RecvFails

-----------------------------------------------------------------------------
(* The theorems.                                                           *)

LEMMA InitInv == Init => IInv
<1> SUFFICES ASSUME Init PROVE IInv
  OBVIOUS
<1>1. TypeOK
  <2>1. 0 \in 0 .. MaxWaiting /\ 0 \in 0 .. FdLimit /\ 0 <= MaxConnections /\ 0 \in 0 .. MaxFaults
    BY BoundsAssumption
  <2>2. /\ waiting \in [Listeners -> 0 .. MaxWaiting] /\ open \in [Listeners -> 0 .. FdLimit]
        /\ open["nscd"] = 0 /\ open["dns"] = 0
    BY <2>1 DEF Init, Listeners
  <2>3. Len(rules) <= Len(cfg.rules) /\ cfg \in Configs
    BY ConfigTypes DEF Init
  <2> QED
    BY <2>1, <2>2, <2>3 DEF Init, TypeOK
<1>2. LoadInv
  BY LoadFresh DEF Init
<1>3. StartInv
  BY DEF Init, StartInv, BoundAt
<1> QED
  BY <1>1, <1>2, <1>3 DEF IInv

LEMMA NextInv == IInv /\ [Next]_vars => IInv'
<1> SUFFICES ASSUME IInv, [Next]_vars PROVE IInv'
  OBVIOUS
<1>1. CASE StartStep
  <2>1. CASE ReadConfig \/ EngineReady \/ SkipNscd
    BY <2>1, MovesOn, AfterSteps DEF ReadConfig, EngineReady, SkipNscd
  <2>2. CASE Load
    BY <2>2, LoadInvStep
  <2>3. CASE GrowBuffer \/ ResolveRelays
    BY <2>3, UserSteps
  <2>4. ASSUME NEW l \in {"policy", "nscd"}, BindUnix(l) PROVE IInv'
    BY <2>4, BindUnixInv
  <2>5. CASE BindDns
    BY <2>5, BindDnsInv
  <2>6. CASE StartFails
    BY <2>6, EndSteps
  <2> QED
    BY <1>1, <2>1, <2>2, <2>3, <2>4, <2>5, <2>6 DEF StartStep
<1>2. ASSUME NEW l \in Listeners, Connect(l) \/ Accept(l) \/ AcceptFails(l) \/ Close(l)
      PROVE  IInv'
  BY <1>2, ServeSteps
<1>3. CASE StartFault \/ JoinNext \/ Killed
  BY <1>3, EndSteps
<1>4. CASE RecvFails
  BY <1>4, RecvFailsInv
<1>5. CASE Restart
  BY <1>5, RestartInv
<1>6. CASE UNCHANGED vars
  <2>1. UNCHANGED <<cfg, phase, loadVars, startVars, serveVars, faults>>
    BY <1>6 DEF vars
  <2> QED
    BY <2>1, ServeFrame DEF IInv, TypeOK, serveVars
<1> QED
  BY <1>1, <1>2, <1>3, <1>4, <1>5, <1>6 DEF Next

\* IInv is an invariant of the daemon.
THEOREM Invariance == Spec => []IInv
<1>1. Init => IInv
  BY InitInv
<1>2. IInv /\ [Next]_vars => IInv'
  BY NextInv
<1> QED
  BY <1>1, <1>2, PTL DEF Spec

\* Types, permits and descriptors: the front-ends never hold more connections
\* than they have permits for, and none is accepted beyond the descriptors.
THEOREM TypeCorrect == Spec => []TypeOK
<1>1. IInv => TypeOK
  BY DEF IInv
<1> QED
  BY <1>1, Invariance, PTL

\* A daemon that serves anything has its whole configuration behind it (main).
LEMMA WholeStart == IInv => NoHalfStart
<1> SUFFICES ASSUME IInv, tasks # {} PROVE NoHalfStart
  BY DEF NoHalfStart
<1>1. phase = "serving"
  BY DEF IInv, StartInv
<1>2. UserKnown /\ bound = ListenersOf(cfg) /\ list = Len(cfg.blocklists) + 1
  BY <1>1 DEF IInv, StartInv, BoundAt, LoadInv, ListsInv, Binding
<1>3. cfg.parses /\ (dns(cfg) => cfg.dns_frontend.upstream)
  BY <1>1, Zenon DEF IInv, StartInv
<1>4. Len(cfg.blocklists) \in Nat /\ Len(cfg.rules) \in Nat
      /\ cfg.rules \in Seq([program : STRING, verdict : {"Allow", "Deny", "Passthrough"}])
  BY ConfigTypes DEF IInv, TypeOK
<1>5. list - 1 = Len(cfg.blocklists)
  BY <1>2, <1>4
<1>6. \A i \in 1 .. Len(cfg.blocklists) : Files[cfg.blocklists[i].path].kind = "file"
  BY <1>5 DEF IInv, LoadInv, ListsInv, ListPath
<1>7. DOMAIN blocklists = {cfg.blocklists[i].name : i \in 1 .. Len(cfg.blocklists)}
  BY <1>5 DEF IInv, LoadInv, ListsInv, ListName
<1>8. /\ rules \in Seq(Compiled) /\ Len(rules) = Len(cfg.rules)
      /\ \A i \in 1 .. Len(rules) : rules[i] = cfg.rules[i]
  BY <1>1 DEF IInv, LoadInv, RulesInv, Binding
<1>9. rules = cfg.rules
  <2>1. rules \in Seq([program : STRING, verdict : {"Allow", "Deny", "Passthrough"}])
    <3>1. Compiled \subseteq [program : STRING, verdict : {"Allow", "Deny", "Passthrough"}]
      BY Zenon DEF Compiled
    <3> QED
      BY <1>8, <3>1, SeqMonotone, Zenon
  <2> DEFINE R == [program : STRING, verdict : {"Allow", "Deny", "Passthrough"}]
  <2>2. rules \in Seq(R) /\ cfg.rules \in Seq(R)
    BY <1>4, <2>1
  <2> HIDE DEF R
  <2> QED
    BY <1>8, <2>2
<1>10. \A i \in 1 .. Len(cfg.rules) : Compiles(cfg.rules[i].program)
  <2>1. ASSUME NEW i \in 1 .. Len(cfg.rules) PROVE Compiles(cfg.rules[i].program)
    <3>1. cfg.rules[i] \in Compiled
      BY <1>8, <1>9, Element, Zenon
    <3> QED
      BY <3>1, Zenon DEF Compiled
  <2> QED
    BY <2>1
<1>11. NeedsUser(cfg) => cfg.nscd_user \in DOMAIN Passwd /\ nscdUid = Passwd[cfg.nscd_user].uid
  BY <1>2 DEF UserKnown
<1>12. Good(cfg)
  BY <1>3, <1>6, <1>10, <1>11, Zenon DEF Good
<1> QED
  BY <1>2, <1>7, <1>9, <1>11, <1>12, Zenon DEF NoHalfStart

\* "Bind everything before serving anything" (main), for every configuration,
\* every way its loading can fail and every failure and restart.
THEOREM NoHalfStartTheorem == Spec => []NoHalfStart
BY Invariance, WholeStart, PTL

\* The names a run asks about are names.
LEMMA HostsAreNames == Hosts \subseteq Names
<1> DEFINE words(p) == UNION {{l.words[w].name.labels : w \in 1 .. Len(l.words)} :
                                l \in {Files[p].lines[i] : i \in 1 .. Len(Files[p].lines)}}
           names == UNION {words(p) : p \in DOMAIN Files}
<1>1. ASSUME NEW p \in DOMAIN Files PROVE words(p) \subseteq Seq(Labels)
  <2> SUFFICES ASSUME NEW i \in 1 .. Len(Files[p].lines),
                      NEW w \in 1 .. Len(Files[p].lines[i].words)
               PROVE  Files[p].lines[i].words[w].name.labels \in Seq(Labels)
    OBVIOUS
  <2>1. Files[p].lines[i] \in Lines
    BY FilesAssumption
  <2>2. Files[p].lines[i].words[w] \in Words
    BY <2>1, LineWords
  <2> QED
    BY <2>2, ValidDomain
<1>2. names \subseteq Seq(Labels)
  BY <1>1
<1> HIDE DEF names
<1>3. ASSUME NEW m \in names PROVE <<"sub">> \o m \in Seq(Labels)
  <2> DEFINE sub == <<"sub">>
  <2>1. sub \in Seq(Labels) /\ m \in Seq(Labels)
    BY <1>2 DEF Labels
  <2> HIDE DEF sub
  <2>2. sub \o m \in Seq(Labels)
    BY <2>1
  <2> QED
    BY <2>2 DEF sub
<1>4. Hosts = {Spelling(n, FALSE, 0) : n \in names \cup {<<"sub">> \o m : m \in names}}
  BY Zenon DEF Hosts, names
<1> QED
  BY <1>2, <1>3, <1>4 DEF Names

\* A list that is served blocks a name exactly if a line of its file names it,
\* for every name there is.
ListsMeanWhatTheySayOfAll ==
  tasks # {} =>
    \A i \in 1 .. Len(cfg.blocklists) : \A host \in Names :
      (\A j \in i + 1 .. Len(cfg.blocklists) : ListName(j) # ListName(i)) =>
        (contains(blocklists[ListName(i)], host)
           <=> \E k \in 1 .. Len(ListLines(i)) : Lists(ListLines(i)[k], host))

LEMMA ListsAreRead == IInv => ListsMeanWhatTheySayOfAll
<1> SUFFICES ASSUME IInv, tasks # {}, NEW i \in 1 .. Len(cfg.blocklists), NEW host \in Names,
                    \A j \in i + 1 .. Len(cfg.blocklists) : ListName(j) # ListName(i)
             PROVE  contains(blocklists[ListName(i)], host)
                      <=> \E k \in 1 .. Len(ListLines(i)) : Lists(ListLines(i)[k], host)
  BY DEF ListsMeanWhatTheySayOfAll
<1>1. phase = "serving" /\ list = Len(cfg.blocklists) + 1 /\ Len(cfg.blocklists) \in Nat
  BY ConfigTypes DEF IInv, TypeOK, StartInv, LoadInv, ListsInv, Binding
<1>2. list - 1 = Len(cfg.blocklists)
  BY <1>1
<1>3. Reads(blocklists[ListName(i)], ListPath(i), Len(ListLines(i)))
  BY <1>2 DEF IInv, LoadInv, ListsInv
<1> QED
  BY <1>3 DEF Reads, ListLines

LEMMA ListsOfHosts == ListsMeanWhatTheySayOfAll => ListsMeanWhatTheySay
BY HostsAreNames, Zenon
   DEF ListsMeanWhatTheySayOfAll, ListsMeanWhatTheySay, ListName, ListPath, ListLines

\* The lists of a daemon that serves, for every name that can be asked.
THEOREM ListsTheorem == Spec => []ListsMeanWhatTheySayOfAll
BY Invariance, ListsAreRead, PTL

\* The same for the names the runs ask about, those of the files and one label
\* below them (parse, contains, from_config).
THEOREM ListsMeanWhatTheySayTheorem == Spec => []ListsMeanWhatTheySay
BY ListsTheorem, ListsOfHosts, PTL
=============================================================================
