------------------------------- MODULE Texts -------------------------------
(***************************************************************************)
(* Texts that somebody else decides on, growing by one byte or one symbol  *)
(* in a step: of bytes, what get_base64_string and UrlEncode encode, and   *)
(* what UrlDecode reads; of symbols, the name the user types, the body a   *)
(* server sends and the argument of a JSONP reply, put where HTTPSClient   *)
(* and Authenticator put them.                                             *)
(***************************************************************************)
EXTENDS HttpText, Decoders

CONSTANTS Bytes, Symbols, MaxLen

ASSUME TextsConstants == Bytes \subseteq 0..255

VARIABLES kind, text

Alphabet == IF kind = "bytes" THEN Bytes ELSE Symbols

Init == kind \in {"bytes", "symbols"} /\ text = <<>>

Grow == /\ Len(text) < MaxLen
        /\ \E c \in Alphabet : text' = Append(text, c)
        /\ UNCHANGED kind

Spec == Init /\ [][Grow]_<<kind, text>>

-----------------------------------------------------------------------------
(* Texts of bytes.                                                         *)

\* Whatever the length modulo three, base64 takes a text back to itself, in
\* four characters for three bytes (SrunBase64.cpp:15-41).
Base64ComesBack == kind = "bytes" =>
    LET code == get_base64_string(text)
    IN  4 * Len(text) <= 3 * Len(code) /\ Base64Decoded(code) = text

\* A parameter of a URL is one word for the server, with nothing in it that
\* would end it or start another, and it is read as what was encoded, except
\* that every white space becomes a space (Encoder.cpp:12-22).
ParameterComesBack == kind = "bytes" =>
    LET code == UrlEncode(text)
    IN  /\ \A i \in DOMAIN code : isalnum(code[i]) \/ code[i] \in {Plus, Percent}
        /\ WellFormed(code) /\ FormDecoded(code) = Spaced(text)

OnSigned == INSTANCE Encoder WITH CharIsSigned <- TRUE
OnUnsigned == INSTANCE Encoder WITH CharIsSigned <- FALSE

\* Whether char is signed is seen only in texts with a broken sequence: on
\* all others UrlDecode reads as a server does (Encoder.cpp:32, 59, 67).
BuildsAgreeOnWellFormed ==
    kind = "bytes" /\ WellFormed(text) =>
        /\ OnSigned!UrlDecode(text) = FormDecoded(text)
        /\ OnUnsigned!UrlDecode(text) = FormDecoded(text)

-----------------------------------------------------------------------------
(* Texts of symbols.                                                       *)

Has(pattern) == Places(text, pattern) # {}

HostParts == {[scheme |-> <<"https">>, colon |-> <<>>, port |-> <<"443">>],
              [scheme |-> <<"http">>, colon |-> <<>>, port |-> <<"80">>],
              [scheme |-> <<"http">>, colon |-> <<":">>, port |-> <<"8080">>]}

\* How a server reads a request: an empty line ends it, and its first line is
\* three words with a space between each two.
ServerReads(request) ==
    LET line == UpTo(request, Find(request, CRLF))
        spaces == Places(line, <<"SP">>)
    IN  IF Cardinality(spaces) = 2
           /\ Find(request, CRLF \o CRLF) = Len(request) - 3
        THEN SubSeq(line, Min(spaces) + 1, Max(spaces) - 1)
        ELSE <<"bad request">>

\* The user's name is put into the URL of get_challenge as it is.  Whatever it
\* contains, scheme, host and port are those of the base URL and the name is in
\* the path; and the server reads that path exactly if the name has no space
\* and no line break: any other makes a request it refuses, or reads as another
\* one (HTTPSClient.cpp:46-97, Authenticator.cpp:203).
NameReachesServer == kind = "symbols" =>
    \A p \in HostParts :
        LET explicit == IF p.colon = <<>> THEN <<>> ELSE p.colon \o p.port
            base == p.scheme \o <<":", "/", "/", "host">> \o explicit
            path == <<"/">> \o text
            parts == parseUrl(base \o path)
            agent == <<"User-Agent", ":", "SP", "x">> \o CRLF
            request == buildHttpRequest(parts, agent)
        IN  /\ parts = [scheme |-> p.scheme, host |-> <<"host">>,
                        port |-> p.port, path |-> path]
            /\ parseUrl(base).path = <<"/">>
            /\ ServerReads(request) = path <=> ~Has(<<"SP">>) /\ ~Has(CRLF)

Response(eol) == <<"200 OK">> \o eol \o <<"Server">> \o eol \o eol \o text

\* Of a response the body comes back whole; if the server ends its lines with
\* a line feed alone, exactly if no CR LF CR LF is in the body
\* (HTTPSClient.cpp:99-110).
BodyComesBack == kind = "symbols" =>
    /\ parseHttpResponse(Response(CRLF)) = text
    /\ parseHttpResponse(Response(<<"LF">>)) = text <=> ~Has(CRLF \o CRLF)

\* A reply that is a call has its argument taken out, whatever is in there,
\* but only if nothing follows the call, not even a line break; a reply with
\* no parenthesis stays as it is (Authenticator.cpp:22-28).
ArgumentIsTakenOut == kind = "symbols" =>
    LET call == <<"callback", "(">> \o text \o <<")">>
    IN  /\ strip_jsonp(call) = text
        /\ \A tail \in {CRLF, <<";">>} : strip_jsonp(call \o tail) = call \o tail
        /\ ~Has(<<"(">>) => strip_jsonp(text) = text

=============================================================================
