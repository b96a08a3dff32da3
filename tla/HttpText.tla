------------------------------ MODULE HttpText ------------------------------
(***************************************************************************)
(* How HTTPSClient cuts URLs and responses and writes requests, and how    *)
(* Authenticator unwraps a JSONP reply.  A text is a sequence of symbols:  *)
(* the characters the code looks for, and names that stand for others.     *)
(***************************************************************************)
EXTENDS Integers, Sequences, FiniteSetsExt

CRLF == <<"CR", "LF">>

From(text, i) == SubSeq(text, i, Len(text))
UpTo(text, i) == SubSeq(text, 1, i - 1)

npos == 0

Places(text, pattern) ==
    {i \in 1..(Len(text) - Len(pattern) + 1) :
        SubSeq(text, i, i + Len(pattern) - 1) = pattern}

\* Mutant: std::string::rfind.
FindLast(text, pattern) ==
    IF Places(text, pattern) = {} THEN npos ELSE Max(Places(text, pattern))

\* std::string::find
Find(text, pattern) ==
    IF Places(text, pattern) = {} THEN npos ELSE Min(Places(text, pattern))

-----------------------------------------------------------------------------

Invalid == [scheme |-> <<"invalid">>]    \* std::runtime_error

DefaultPort(scheme) == IF scheme = <<"https">> THEN <<"443">> ELSE <<"80">>

parseUrl(url) ==
    LET schemeEnd == Find(url, <<":", "/", "/">>)
        scheme == UpTo(url, schemeEnd)
        rest == From(url, schemeEnd + 3)
        pathStart == Find(rest, <<"/">>)
        hostPort == IF pathStart = npos THEN rest ELSE UpTo(rest, pathStart)
        portStart == Find(hostPort, <<":">>)
    IN  IF schemeEnd = npos THEN Invalid
        ELSE [scheme |-> scheme,
              path |-> IF pathStart = npos THEN <<"/">> ELSE From(rest, pathStart),
              host |-> IF portStart = npos THEN hostPort
                                           ELSE UpTo(hostPort, portStart),
              port |-> IF portStart = npos THEN DefaultPort(scheme)
                                           ELSE From(hostPort, portStart + 1)]

\* Mutant: the first empty line of either kind ends the header.
parseEarliest(response) ==
    LET short == Find(response, <<"LF", "LF">>)
        long == Find(response, CRLF \o CRLF)
    IN  IF short # npos THEN From(response, short + 2)
        ELSE IF long # npos THEN From(response, long + 4)
        ELSE response

\* What follows the first empty line; a text without one is all body.
parseHttpResponse(response) ==
    LET long == Find(response, CRLF \o CRLF)
        short == Find(response, <<"LF", "LF">>)
    IN  IF long # npos THEN From(response, long + 4)
        ELSE IF short # npos THEN From(response, short + 2)
        ELSE response

\* headers: the lines made of the caller's map
buildHttpRequest(parts, headers) ==
    <<"GET", "SP">> \o parts.path \o <<"SP", "HTTP/1.1">> \o CRLF \o
    <<"Host", ":", "SP">> \o parts.host \o CRLF \o
    <<"Connection", ":", "SP", "close">> \o CRLF \o headers \o CRLF

\* Mutant: the length is taken as an end.
strip_to(data) ==
    LET paren == Find(data, <<"(">>)
    IN  IF paren # npos /\ data[Len(data)] = ")"
        THEN SubSeq(data, paren + 1, Len(data) - paren)
        ELSE data

strip_jsonp(data) ==
    LET paren == Find(data, <<"(">>)
    IN  IF paren # npos /\ data[Len(data)] = ")"
        THEN SubSeq(data, paren + 1, Len(data) - 1)
        ELSE data

=============================================================================
