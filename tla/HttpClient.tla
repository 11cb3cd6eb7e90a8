----------------------------- MODULE HttpClient -----------------------------
(***************************************************************************)
(* networks/http_client: parse_url takes a URL apart, from left to right,  *)
(* and main asks for what it names, one URL after the other.  A URL is a   *)
(* sequence of characters; "H" is the capital of "h".                      *)
(***************************************************************************)
EXTENDS Integers, Sequences, FiniteSets, FiniteSetsExt, SequencesExt

CONSTANTS
    UrlHeads,       \* beginnings of the URLs, each followed by
    UrlChars,       \* up to MaxTail of these characters
    MaxTail,
    MaxAddresses    \* of a host

\* "80" stands for the port when none is given: no character of a URL.
ASSUME ClientAssumption ==
    /\ {MaxTail, MaxAddresses} \subseteq Nat
    /\ \A h \in UrlHeads : h \in Seq(Range(h)) /\ "80" \notin Range(h)
    /\ "80" \notin UrlChars

VARIABLES
    urlAt,      \* what is parsed next: "start", "scheme", "host", "port", "path", "query",
                \* "fragment"; then "parsed" or "error", "connect", "receive", "over"
    url,
    rest,       \* what is left of it
    parts,      \* the parts found, each as <<name, text>>
    addresses,  \* not tried yet
    sockets     \* open

urlVars == <<urlAt, url, rest, parts, addresses, sockets>>

ClientInit ==
    /\ urlAt = "start" /\ url = << >> /\ rest = << >> /\ parts = {}
    /\ addresses = 0 /\ sockets = 0

\* scanf of main
AskUrl ==
    /\ urlAt = "start" /\ urlAt' = "scheme" /\ UNCHANGED parts
    /\ \E head \in UrlHeads, n \in 0..MaxTail : \E tail \in [1..n -> UrlChars] :
        url' = head \o tail /\ rest' = head \o tail
    /\ UNCHANGED <<addresses, sockets>>

-----------------------------------------------------------------------------
(* parse_url *)

Here1 == IF rest = << >> THEN "end" ELSE rest[1]
Drop(s, n) == SubSeq(s, n + 1, Len(s))

\* How many characters come before the first of a set of delimiters.
Until(s, delimiters) == Min({i \in DOMAIN s : s[i] \in delimiters} \cup {Len(s) + 1}) - 1

Parsed(part, text, left, next) ==
    /\ parts' = parts \cup {<<part, text>>} /\ rest' = left /\ urlAt' = next
    /\ UNCHANGED <<url, addresses, sockets>>

BadUrl == urlAt' = "error" /\ UNCHANGED <<url, rest, parts, addresses, sockets>>

LowerCase(c) == IF c = "H" THEN "h" ELSE c

\* Letters, + - and . up to a colon, in small letters; then two slashes.
SchemeEnds(n) ==
    /\ \A i \in 1..n : rest[i] \in {"h", "H"}
    /\ IsPrefix(<<":", "/", "/">>, Drop(rest, n))

Scheme ==
    /\ urlAt = "scheme"
    /\ LET n == Until(rest, {":"}) IN
       \/ SchemeEnds(n) /\ Parsed("scheme", [i \in 1..n |-> LowerCase(rest[i])], Drop(rest, n + 3), "host")
       \/ ~SchemeEnds(n) /\ BadUrl

\* A host in brackets ends with them, or with the URL.
Host ==
    /\ urlAt = "host"
    /\ LET n == IF Here1 = "[" THEN Min({Until(rest, {"]"}) + 1, Len(rest)}) ELSE Until(rest, {":", "/"}) IN
       \/ n > 0 /\ Parsed("host", SubSeq(rest, 1, n), Drop(rest, n), "port")
       \/ n = 0 /\ BadUrl

\* After a colon, or 80; then nothing, or a slash.  80 is copied without its NUL: what
\* follows in memory may make the lookup fail.
Port ==
    /\ urlAt = "port"
    /\ LET given == Here1 = ":"
           n == IF given THEN Until(Drop(rest, 1), {"/"}) ELSE 0
           left == IF given THEN Drop(rest, n + 1) ELSE rest
       IN \/ left = << >> /\ Parsed("port", IF given THEN SubSeq(rest, 2, n + 1) ELSE <<"80">>, left, "parsed")
          \/ /\ left # << >> /\ left[1] = "/"
             /\ Parsed("port", IF given THEN SubSeq(rest, 2, n + 1) ELSE <<"80">>, Drop(left, 1), "path")
          \/ left # << >> /\ left[1] # "/" /\ BadUrl

\* Seeded fault: a path ends at a question mark only.
Path_NoFragment ==
    /\ urlAt = "path"
    /\ LET n == Until(rest, {"?"}) IN Parsed("path", SubSeq(rest, 1, n), Drop(rest, n), "query")

Path ==
    /\ urlAt = "path"
    /\ LET n == Until(rest, {"#", "?"}) IN Parsed("path", SubSeq(rest, 1, n), Drop(rest, n), "query")

Query ==
    /\ urlAt = "query"
    /\ LET n == Until(rest, {"#"}) IN
       \/ Here1 = "?" /\ Parsed("query", SubSeq(rest, 2, n), Drop(rest, n), "fragment")
       \/ Here1 # "?" /\ urlAt' = "fragment" /\ UNCHANGED <<url, rest, parts, addresses, sockets>>

Fragment ==
    /\ urlAt = "fragment"
    /\ \/ Here1 = "#" /\ Parsed("fragment", Drop(rest, 1), << >>, "parsed")
       \/ Here1 # "#" /\ urlAt' = "parsed" /\ UNCHANGED <<url, rest, parts, addresses, sockets>>

-----------------------------------------------------------------------------
(* main: do_request, http_get, establishConnection *)

\* A URL that cannot be parsed ends the program.
NoRequest ==
    /\ urlAt = "error" /\ urlAt' = "over" /\ UNCHANGED <<url, rest, parts, addresses, sockets>>

Lookup ==
    /\ urlAt = "parsed" /\ urlAt' = "connect" /\ addresses' \in 0..MaxAddresses
    /\ UNCHANGED <<url, rest, parts, sockets>>

\* A socket is made and connected, or closed again; without addresses it ends.
ConnectNext ==
    /\ urlAt = "connect"
    /\ \/ addresses = 0 /\ urlAt' = "over" /\ UNCHANGED <<addresses, sockets>>
       \/ addresses > 0 /\ addresses' = addresses - 1 /\ UNCHANGED <<urlAt, sockets>>
       \/ addresses > 0 /\ sockets' = sockets + 1 /\ urlAt' = "receive" /\ UNCHANGED addresses
    /\ UNCHANGED <<url, rest, parts>>

\* The request is sent and the answer printed until recv has no more.
ReceiveAnswer ==
    /\ urlAt = "receive" /\ urlAt' = "start" /\ sockets' = sockets - 1
    /\ url' = << >> /\ rest' = << >> /\ parts' = {} /\ addresses' = 0

ClientNext ==
    \/ AskUrl \/ Scheme \/ Host \/ Port \/ Path \/ Query \/ Fragment
    \/ NoRequest \/ Lookup \/ ConnectNext \/ ReceiveAnswer

ClientSpec == ClientInit /\ [][ClientNext]_urlVars

-----------------------------------------------------------------------------
(* Properties. *)

Has(part) == \E p \in parts : p[1] = part
Part(part) == IF Has(part) THEN (CHOOSE p \in parts : p[1] = part)[2] ELSE << >>
After(c, part) == IF Has(part) THEN <<c>> \o Part(part) ELSE << >>
No(delimiters, text) == \A i \in DOMAIN text : text[i] \notin delimiters

\* RFC 3986, which parse_url is to follow, ends the authority, the host with its
\* port, at the first of these characters.
Endings == {"/", "?", "#"}

\* The authority is ended by a slash, if by anything, and closes its brackets.
AuthorityClosed ==
    LET behind == Drop(url, Until(url, {":"}) + 3)  n == Until(behind, Endings) IN
    /\ n < Len(behind) => behind[n + 1] = "/"
    /\ behind[1] = "[" => \E i \in 1..n : behind[i] = "]"

\* The parts of a URL that was accepted, put together again, are the URL: nothing is
\* lost or moved.  A path holds no query and a query no fragment; and the host and
\* the port hold nothing of what is behind them, if a slash is in between: in
\* "H://h?h" the query is taken for the host's, in "H://h:h#h" the fragment for
\* the port's.
PartsAreUrl ==
    urlAt = "parsed" =>
        /\ Part("scheme") \o <<":", "/", "/">> \o Part("host")
             \o (IF Part("port") = <<"80">> THEN << >> ELSE After(":", "port"))
             \o After("/", "path") \o After("?", "query") \o After("#", "fragment")
           = [i \in DOMAIN url |-> IF i < Until(url, {":"}) + 1 THEN LowerCase(url[i]) ELSE url[i]]
        /\ Part("host")[1] # "[" => No({":", "/"}, Part("host"))
        /\ No({"?", "#"}, Part("path")) /\ No({"#"}, Part("query"))
        /\ AuthorityClosed => No(Endings, Part("host")) /\ No(Endings, Part("port"))

\* urlparser.h:42-43: "Implented according to: ... RFC 3986": whatever URL is
\* accepted, host and port end where the authority ends.
AuthorityEnds == urlAt = "parsed" => No(Endings, Part("host")) /\ No(Endings, Part("port"))
=============================================================================
