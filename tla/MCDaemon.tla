------------------------------ MODULE MCDaemon ------------------------------
(* Daemon for TLC: good configurations and one for every way to be bad, and *)
(* blocklists with a line of every kind.                                    *)
EXTENDS Daemon

Word(labels, upper, dots) ==
  [name |-> Spelling(labels, upper, dots), clean |-> TRUE, ip |-> FALSE, len |-> 9]

Domain(d) == Word(<<d, "test">>, FALSE, 0)
Address   == [Word(<<"0", "0", "0", "0">>, FALSE, 0) EXCEPT !.ip = TRUE]
\* "ads.test^$third-party"
Junk      == [Domain("junk") EXCEPT !.clean = FALSE]
TooLong   == [Domain("long") EXCEPT !.len = 254]
Longest   == [Domain("last") EXCEPT !.len = 253]

Line(start, words) == [start |-> start, words |-> words]

AdsFile ==
  <<Line("#", <<Domain("comment")>>),
    Line("", <<>>),
    Line("||", <<Word(<<"Ads", "test">>, TRUE, 0)>>),
    Line("||", <<Junk>>),
    Line("||", <<Domain("two"), Domain("words")>>),
    Line("@@", <<Domain("exempt")>>),
    Line("", <<Address, Word(<<"Hosts", "test">>, TRUE, 0), Domain("second")>>),
    Line("", <<Address, Word(<<"localhost">>, FALSE, 0)>>),
    Line("", <<Domain("bare")>>),
    Line("unreadable", <<>>),
    Line("", <<Word(<<"dotted", "test">>, FALSE, 1)>>),
    Line("||", <<Word(<<>>, FALSE, 1)>>),
    Line("", <<Domain("word"), Domain("comment")>>),
    Line("", <<TooLong>>),
    Line("", <<Longest>>)>>

MCFiles ==
  [p \in {"ads", "more", "gone", "dir"} |->
     CASE p = "ads"  -> [kind |-> "file", lines |-> AdsFile]
       [] p = "more" -> [kind |-> "file", lines |-> <<Line("", <<Domain("more")>>)>>]
       [] p = "gone" -> [kind |-> "missing", lines |-> <<>>]
       [] p = "dir"  -> [kind |-> "directory", lines |-> <<>>]]

MCCompiles(program) == program = "ok"

\* nscd's entry does not fit the first buffer.
MCPasswd == [u \in {"nscd"} |-> [uid |-> 9, len |-> 1500]]

MCExecute(program, ctx) == "false"

List(name, path) == [name |-> name, path |-> path]
On(b)            == [enable |-> b]
Dns(b, upstream) == [enable |-> b, upstream |-> upstream]

Full ==
  [parses |-> TRUE,
   blocklists |-> <<List("l", "more"), List("m", "more"), List("l", "ads")>>,
   rules |-> <<[program |-> "ok", verdict |-> "Deny"]>>,
   nscd_user |-> "nscd",
   nscd_frontend |-> On(TRUE), dns_frontend |-> Dns(TRUE, TRUE), nss_frontend |-> On(FALSE)]

\* Without lists, to get to the rest.
Short == [Full EXCEPT !.blocklists = <<>>]

MCConfigs ==
  {Full,
   [Short EXCEPT !.nscd_user = None, !.nscd_frontend = On(FALSE), !.dns_frontend = None],
   [Short EXCEPT !.parses = FALSE],
   [Short EXCEPT !.blocklists = <<List("m", "gone")>>],
   [Short EXCEPT !.blocklists = <<List("m", "more"), List("d", "dir")>>],
   [Short EXCEPT !.rules = @ \o <<[program |-> "bad", verdict |-> "Allow"]>>],
   [Short EXCEPT !.nscd_user = "nobody"],
   [Short EXCEPT !.dns_frontend = Dns(TRUE, FALSE)]}

DirectoryOnly == {[Short EXCEPT !.blocklists = <<List("m", "more"), List("d", "dir")>>]}

GoodOnly == {Short}
=============================================================================
