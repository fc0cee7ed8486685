------------------------- MODULE MCMessagingService -------------------------
(***************************************************************************)
(* Instances of MessagingService for TLC, where an int is at most 4.       *)
(***************************************************************************)
EXTENDS MessagingService, UtilityLaws

CONSTANTS s1, s2

OneSession == {s1}
TwoSessions == {s1, s2}

\* The second factory is asked for "tcp" too, the third for nothing.
TcpFirst == <<{<<"tcp">>}, {<<"tcp">>, <<"ser">>}>>

-----------------------------------------------------------------------------
(* What applications make a url of.                                        *)

\* "3x" is a word that begins with a digit and is no number.
Numerals == [n \in 0..9 |-> ToString(n)]
Numbers == [w \in {"0", "1", "2", "3", "4", "5", "6", "7", "8", "9", "10", "3x"} |->
               IF w = "3x" THEN 3 ELSE CHOOSE n \in 0..10 : ToString(n) = w]
SomeWords == {"0", "1", "2", "3", "4", "5", "6", "7", "8", "9", "10", "3x",
              "tcp", "ser", "udp", "a", "b", "c", "f", "k", "l", "q", "v", "w", "x", "z"}
SomeCharacters == Separators \cup Signs \cup Blanks

Tcp(host) == <<"tcp", ":", "/", "/">> \o host

WrittenUrls ==
    {Tcp(<<"a">>) \o port \o rest :
        port \in {<<>>, <<":", "3">>, <<":", "3x", ":", "f">>, <<":", "0">>, <<":", "-", "1">>,
                  <<":", " ", "+", "5">>, <<":">>, <<":", "f">>, <<":", "-", " ", "1">>},
        rest \in {<<>>, <<"/">>, <<"/", "b", "/", "c">>, <<"?", "k", "=", "v">>,
                  <<"/", "b", "?", "a", "=", "b", "=", "c", "&", "k", "=", "v", "=", "k", "=", "w",
                    "=", "z", "#", "f">>,
                  <<"#", "\n">>}}
    \cup {<<"tcp", ":", "a", "/", "b">>, <<"/", "/", "a">>, <<"ser", ":", "/", "/", "a", ":", "1">>,
          Tcp(<<>>), <<"udp", ":", "/", "/", "a">>}

With(name, value) ==
    AddParameter(SetHostname(SetProtocol(EmptyUrl, <<"tcp">>), <<"a">>), name, value)

BuiltUrls ==
    {NewUrl(<<>>, <<"a">>), NewUrlAt(<<"tcp">>, <<"a">>, 0), NewUrlAt(<<"tcp">>, <<"a">>, 3),
     NewUrlAt(<<"tcp">>, <<"a">>, 5)}
    \cup {Build(SetQuery(SetPath(SetPort(With(<<"k">>, <<"v">>), 2), path), query)) :
              path \in {<<>>, <<"b">>, <<"/", "b">>}, query \in {<<>>, <<"q">>}}
    \cup {Build(AddParameter(With(name, value), <<"k">>, <<"v">>)) :
              name \in {<<"l">>, <<"x", "-", "k">>},
              value \in {<<"w">>, <<"-">>, <<"a", "-", "b">>, <<"a", "=", "b">>,
                         <<"a", "&", "k", "=", "b">>}}

AnyUrl ==
    {u.value : u \in {v \in {Parse(text) : text \in WrittenUrls} \cup BuiltUrls : Succeeded(v)}}
OneUrl == {u \in AnyUrl : u.port = 3 /\ u.path = <<>> /\ u.parameters = {}}
=============================================================================
