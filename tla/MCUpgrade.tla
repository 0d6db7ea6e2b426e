----------------------------- MODULE MCUpgrade ------------------------------
(* Clients for TLC: well-formed requests of both outcomes, line ends that  *)
(* are not CR LF, a request line without a version, a header without a     *)
(* colon, an empty header name, bytes that are not UTF-8, no end at all.   *)
EXTENDS Upgrade

Get(path, headers) == [method |-> <<"get">>, path |-> path, headers |-> headers]

UpgradeField == [name |-> <<"upgrade">>, value |-> <<"spdy/3.1">>]
OtherField   == [name |-> <<"host">>, value |-> <<"a", ":", "b">>]
EmptyField   == [name |-> <<"x">>, value |-> <<>>]
WrongField   == [name |-> <<"upgrade">>, value |-> <<"h2c">>]

Plain(r)      == [requests |-> {r}, text |-> Render(r), spdy |-> <<"CR", "spdy">>]
Other(text)   == [requests |-> {}, text |-> text, spdy |-> <<"LF", "spdy">>]

RequestLine == <<"get", "SP", "/", "SP", "http/1.1", "CR", "LF">>
Field       == <<"upgrade", ":", "spdy/3.1", "CR", "LF">>

SampleClients ==
  { Plain(Get(<<"/">>, <<UpgradeField>>)),
    Plain(Get(<<"/">>, <<OtherField, UpgradeField>>)),
    Plain(Get(<<"/">>, <<EmptyField, UpgradeField>>)),
    Plain(Get(<<>>, <<UpgradeField>>)),
    Plain(Get(<<"/">>, <<WrongField>>)),
    Plain(Get(<<"/">>, <<>>)),
    Plain(Get(<<"/">>, <<OtherField, WrongField, OtherField>>)),
    Other(RequestLine \o <<"upgrade", ":", "SP", "spdy/3.1", "LF", "LF", "LF", "LF">>),
    Other(RequestLine \o Field \o <<"LF", "CR", "SP", "CR", "LF">>),
    Other(<<"get", "SP", "/", "CR", "LF">> \o Field \o <<"CR", "LF">>),
    Other(RequestLine \o <<"host", "CR", "LF">> \o Field \o <<"CR", "LF">>),
    Other(RequestLine \o <<":", "a", "CR", "LF">> \o Field \o <<"CR", "LF">>),
    Other(RequestLine \o <<"host", ":", "a", "LF", "b", "CR", "LF">> \o Field \o <<"CR", "LF">>),
    Other(RequestLine \o <<"host", ":", "not-utf8", "CR", "LF">> \o Field \o <<"CR", "LF">>),
    Other(<<"CR", "LF", "CR", "LF">> \o RequestLine),
    Other(RequestLine \o Field) }
=============================================================================
