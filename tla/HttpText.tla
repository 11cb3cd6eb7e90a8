------------------------------ MODULE HttpText ------------------------------
(***************************************************************************)
(* How http_proxy reads the text of requests and answers, which arrive in  *)
(* pieces cut anywhere (http_utils.c, and its callers in connection.c).    *)
(* Texts are sequences of characters; a line of an answer's head (the name *)
(* of a header with its number, the version with the status) counts as one *)
(* character in front of its CRLF.                                         *)
(***************************************************************************)
EXTENDS Integers, Sequences, FiniteSets, SequencesExt, FiniteSetsExt

CONSTANTS
    Methods, Hosts, Paths,  \* of the requests: sequences of characters
    MaxHeaders,             \* lines of an answer after the first
    MaxBody                 \* characters after the empty line

ASSUME TextAssumption ==
    /\ {MaxHeaders, MaxBody} \subseteq Nat
    /\ \A s \in Methods \cup Hosts \cup Paths : s \in Seq(Range(s)) /\ "SP" \notin Range(s)
    /\ \A h \in Hosts : "/" \notin Range(h)
    /\ \A p \in Paths : p # << >> => p[1] = "/"

VARIABLES
    textAt,     \* "new", "request", "edited", "beyond" the buffer, "answer", "over", or "overrun"
    request,    \* what the client sends: method, host and path, and how much has arrived
    buffer,     \* of the connection
    urlOf,      \* the URL found, and the host in it
    answer,     \* what the server sends, and how much has arrived
    leftToDownload, \* left_to_download
    how         \* why the answer is over

textVars == <<textAt, request, buffer, urlOf, answer, leftToDownload, how>>

NoText == [method |-> << >>, host |-> << >>, path |-> << >>, came |-> 0]

TextInit ==
    /\ textAt = "new" /\ request = NoText /\ buffer = << >> /\ urlOf = << >>
    /\ answer = [head |-> << >>, body |-> << >>, status |-> 0, came |-> 0] /\ leftToDownload = -1 /\ how = "not"

Http == <<"h", "t", "t", "p", ":", "/", "/">>
UrlIn(r) == Http \o r.host \o r.path
TextOf(r) == r.method \o <<"SP">> \o UrlIn(r) \o <<"SP", "v", "/", "1", "LF">>

\* The first place from i on where a text has one of the characters; behind its end if none has.
PlaceOf(chars, text, i) == Min({j \in i..Len(text) : text[j] \in chars} \cup {Len(text) + 1})
Suffix(text, i) == SubSeq(text, i, Len(text))

-----------------------------------------------------------------------------
(* The request *)

NewRequest ==
    /\ textAt = "new" /\ textAt' = "request"
    /\ \E m \in Methods, h \in Hosts, p \in Paths :
        request' = [method |-> m, host |-> h, path |-> p, came |-> 0]
    /\ UNCHANGED <<buffer, urlOf, answer, leftToDownload, how>>

\* Between the first two blanks; none until the second has arrived.
getUrlFromData(data) ==
    LET startUrl == PlaceOf({"SP"}, data, 1) + 1
        endUrl == PlaceOf({"SP"}, data, startUrl)
    IN IF Len(data) < 6 \/ endUrl > Len(data) THEN << >> ELSE SubSeq(data, startUrl, endUrl - 1)

getHostFromUrl(u) == SubSeq(u, 8, PlaceOf({"/"}, u, 8) - 1)

\* Seeded fault: the slashes of http:// are not skipped.
editRequestToSendToServer_Short(data) ==
    LET firstSpace == PlaceOf({"SP"}, data, 1)
        firstSlash == PlaceOf({"/"}, data, firstSpace + 6)
    IN SubSeq(data, 1, firstSpace) \o Suffix(data, firstSlash)

\* What stands before the first slash after http:// is taken out.  Without one the
\* search leaves the buffer.
editRequestToSendToServer(data) ==
    LET firstSpace == PlaceOf({"SP"}, data, 1)
        firstSlash == PlaceOf({"/"}, data, firstSpace + 8)
    IN SubSeq(data, 1, firstSpace) \o Suffix(data, firstSlash)

HasSlash(data) == PlaceOf({"/"}, data, PlaceOf({"SP"}, data, 1) + 8) <= Len(data)

\* gettingRequest: another piece, put behind what is there.
ReadRequest ==
    /\ textAt = "request"
    /\ \E came \in (request.came + 1)..Len(TextOf(request)) :
        LET data == SubSeq(TextOf(request), 1, came)
            u == getUrlFromData(data)
        IN /\ request' = [request EXCEPT !.came = came]
           /\ \/ u = << >> /\ buffer' = data /\ UNCHANGED <<textAt, urlOf>>
              \/ /\ u # << >> /\ urlOf' = <<u, getHostFromUrl(u)>>
                 /\ textAt' = IF HasSlash(data) THEN "edited" ELSE "beyond"
                 /\ buffer' = IF HasSlash(data) THEN editRequestToSendToServer(data) ELSE data
    /\ UNCHANGED <<answer, leftToDownload, how>>

-----------------------------------------------------------------------------
(* The answer *)

Lengths == {"length0", "length1", "length2"}
LengthIn(c) == CASE c = "length1" -> 1 [] c = "length2" -> 2 [] OTHER -> 0

\* The version, the lines and the empty line, each with its CR and LF.
HeadOf(lines) ==
    LET n == 3 * Len(lines) + 5 IN
    [i \in 1..n |-> IF i % 3 = 0 \/ i = n THEN "LF"
                    ELSE IF i % 3 = 2 \/ i = n - 1 THEN "CR"
                    ELSE IF i = 1 THEN "HTTP" ELSE lines[i \div 3]]

\* The request has gone out; the server answers.
NewAnswer ==
    /\ textAt = "edited" /\ textAt' = "answer"
    /\ \E status \in {200, 204, 500}, n \in 0..MaxHeaders, m \in 0..MaxBody :
        \E lines \in [1..n -> Lengths \cup {"x"}], body \in [1..m -> {"x", "LF", "length1"}] :
            answer' = [head |-> HeadOf(lines), body |-> body, status |-> status, came |-> 0]
    /\ request' = NoText /\ urlOf' = << >> /\ buffer' = << >> /\ UNCHANGED <<leftToDownload, how>>

AnswerText == answer.head \o answer.body

\* The header counts wherever a line begins with its name, behind the headers too.
\* A length of zero is taken for none.
getContentLengthFromData(data) ==
    LET starts == {i \in 2..Len(data) : data[i - 1] = "LF" /\ data[i] \in Lengths}
        n == IF starts = {} THEN 0 ELSE LengthIn(data[Min(starts)])
    IN IF n > 0 THEN n ELSE -1

isResponseHasPayload(status) == status \notin {204, 304} \cup (100..199)

\* The ends of the empty lines (the middle character may be any).
HeadEnds(data) == {j + 2 : j \in {i \in 1..(Len(data) - 2) : data[i] = "LF" /\ data[i + 2] = "LF"}}

TransmissionOver(why) == textAt' = "over" /\ how' = why /\ UNCHANGED <<buffer, leftToDownload>>

\* Seeded fault: one character less than there is still to come.
LeftAfter_Less(data) == getContentLengthFromData(data) - Len(data) + Min(HeadEnds(data)) - 1

LeftAfter(data) == getContentLengthFromData(data) - Len(data) + Min(HeadEnds(data))

\* forwardingResponse, a piece while the headers are not complete, or have no length.
\* If all there is is one byte, buffer_size - 2 wraps, and the search for the end of
\* the headers runs out of the buffer.
ReadHeaders(came) ==
    LET data == SubSeq(AnswerText, 1, came) IN
    /\ leftToDownload = -1
    /\ \/ HeadEnds(data) = {} /\ buffer' = data /\ UNCHANGED <<textAt, leftToDownload, how>>
       \/ came = 1 /\ textAt' = "overrun" /\ UNCHANGED <<buffer, leftToDownload, how>>
       \/ /\ HeadEnds(data) # {} /\ getContentLengthFromData(data) # -1
          /\ \/ LeftAfter(data) <= 0 /\ TransmissionOver("length")
             \/ LeftAfter(data) > 0 /\ leftToDownload' = LeftAfter(data) /\ buffer' = << >> /\ UNCHANGED <<textAt, how>>
       \/ /\ HeadEnds(data) # {} /\ getContentLengthFromData(data) = -1
          /\ \/ ~isResponseHasPayload(answer.status) /\ TransmissionOver("no_payload")
             \/ isResponseHasPayload(answer.status) /\ buffer' = data /\ UNCHANGED <<textAt, leftToDownload, how>>

\* A piece once the length is known.
ReadBody(n) ==
    /\ leftToDownload # -1
    /\ \/ n >= leftToDownload /\ TransmissionOver("length")
       \/ n < leftToDownload /\ leftToDownload' = leftToDownload - n /\ UNCHANGED <<textAt, buffer, how>>

ReadAnswer ==
    /\ textAt = "answer"
    /\ \E came \in (answer.came + 1)..Len(AnswerText) :
        /\ answer' = [answer EXCEPT !.came = came]
        /\ ReadHeaders(came) \/ ReadBody(came - answer.came)
    /\ UNCHANGED <<request, urlOf>>

\* The server closes when it has sent all.
AnswerEnds ==
    /\ textAt = "answer" /\ answer.came = Len(AnswerText)
    /\ TransmissionOver("closed") /\ UNCHANGED <<request, urlOf, answer>>

TextNext == NewRequest \/ ReadRequest \/ NewAnswer \/ ReadAnswer \/ AnswerEnds

TextSpec == TextInit /\ [][TextNext]_textVars

-----------------------------------------------------------------------------
(* Properties. *)

\* However the request is cut, the URL and host found are those the client asked for, and
\* the server is asked for the path of the URL, with all that had arrived behind
\* it.  Without a path the proxy asks for what follows the first slash of the
\* version, or looks for it behind the end of the buffer.
RequestIsEdited ==
    textAt \in {"edited", "beyond"} =>
        /\ urlOf = <<UrlIn(request), request.host>>
        /\ request.path # << >> =>
            /\ textAt = "edited"
            /\ buffer = request.method \o <<"SP">> \o request.path
                          \o SubSeq(TextOf(request), Len(request.method) + 2 + Len(UrlIn(request)), request.came)

\* However the answer is cut, one with a length is not over before all of it has been passed
\* on, one without when the server closes, has nothing to come, or has a line in
\* its body that looks like the header; and the search for the end of its headers stays
\* in the buffer, unless the answer begins with a piece of one byte.
AnswerIsWhole ==
    /\ textAt = "overrun" => answer.came = 1
    /\ textAt = "over" =>
        LET stated == getContentLengthFromData(answer.head) IN
        /\ how = "closed" => answer.came = Len(AnswerText)
        /\ how = "no_payload" => answer.status = 204 /\ stated = -1
        /\ how \notin {"closed", "no_payload"} =>
             IF stated # -1 THEN answer.came >= Len(answer.head) + stated
             ELSE \E i \in 1..(answer.came - Len(answer.head)) : answer.body[i] \in Lengths
=============================================================================
