--------------------------- MODULE MCHttpRequest ---------------------------
(***************************************************************************)
(* HttpRequest with the requests of tests/HTTPClient.cpp and a few others. *)
(***************************************************************************)
EXTENDS HttpRequest

CRLF == <<"CR", "LF">>
Line(m) == <<m, "SP", "SLASH", "SP", "X", "SLASH", "VER">> \o CRLF
HeaderLine == <<"X", "COLON", "SP", "X">> \o CRLF

\* The third request of tests/HTTPClient.cpp, with one header.
GoodGet == Line("GET") \o HeaderLine \o CRLF

MCStreams == {
    GoodGet,
    <<"SP">>,                                       \* its first request
    <<"GET", "SP", "X", "SLASH", "VER">>,           \* its second request
    Line("HEAD") \o CRLF,
    Line("POST") \o HeaderLine \o CRLF \o <<"X">>,
    Line("POST") \o <<"X", "COLON", "X">> \o CRLF,
    Line("GET") \o <<"X", "COLON", "X">> \o CRLF \o HeaderLine \o CRLF,
    Line("GET") \o <<"COLON">> \o CRLF,
    Line("GET") \o <<"X", "COLON", "SP", "X", "CR", "X", "X">>,
    <<"GET", "SP", "X", "CR", "LF">> \o HeaderLine,
    <<"GET", "SP", "SLASH", "CR", "LF">> \o HeaderLine,
    <<"VER", "GET", "CR", "LF">> \o HeaderLine }

MCStartPositions == 0 .. 3 \cup {12}

\* A request in order is served (README.md:2, tests/HTTPClient.cpp:83).
GoodGetIsServed == GetIsServed(GoodGet)
=============================================================================
