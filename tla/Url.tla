-------------------------------- MODULE Url --------------------------------
(***************************************************************************)
(* Urls: building them, writing them and parsing what was written.  A      *)
(* string is the sequence of its tokens: a run of letters and digits is    *)
(* one, and so is every other character.                                   *)
(***************************************************************************)
EXTENDS Integers, Sequences, SequencesExt, FiniteSets, Outcomes

CONSTANTS
    IntMax,       \* the greatest int; an unsigned is at most twice as much and one
    Words,        \* the runs of letters and digits
    Characters,   \* what is neither; of blanks, " " and the line terminator "\n"
    Numeral,      \* the word that an unsigned is written as
    Leading       \* the number that a word begins with, if it begins with a digit

Separators == {":", "/", "?", "#", "=", "&"}
Signs == {"+", "-"}
Blanks == {" ", "\n"}
Tokens == Words \cup Characters

ASSUME UrlAssumption ==
    /\ IntMax \in Nat
    /\ Separators \cup Signs \cup Blanks \subseteq Characters /\ Words \cap Characters = {}

ASSUME NumeralAssumption ==
    /\ DOMAIN Leading \subseteq Words /\ \A w \in DOMAIN Leading : Leading[w] \in Nat
    /\ \A n \in 0..(2 * IntMax + 1) : Numeral[n] \in DOMAIN Leading /\ Leading[Numeral[n]] = n

\* A run is one word, so that no two words are next to each other.
Strings ==
    {text \in Seq(Tokens) : \A i \in 1..(Len(text) - 1) : ~({text[i], text[i + 1]} \subseteq Words)}

\* Of the parameters, the order of an unordered_map is left out.
EmptyUrl == [protocol |-> <<>>, hostname |-> <<>>, port |-> 0, path |-> <<>>,
             query |-> <<>>, parameters |-> {}]

\* A url of which no part holds a character that ends it, like every url that was
\* parsed.  UrlBuilder looks at nothing but whether there is a protocol and a host.
WellFormed(url) ==
    /\ url \in [protocol : Strings, hostname : Strings, port : 0..(2 * IntMax + 1),
                path : Strings, query : Strings, parameters : SUBSET (Strings \X Strings)]
    /\ url.protocol # <<>> /\ ToSet(url.protocol) \cap {":", "/", "?", "#"} = {}
    /\ url.hostname # <<>> /\ ToSet(url.hostname) \cap {":", "/", "?", "#"} = {}
    /\ (ToSet(url.path) \cup ToSet(url.query)) \cap {"?", "#"} = {}
    /\ IsFiniteSet(url.parameters)
    /\ \A p, q \in url.parameters : p[1] = q[1] => p = q
    /\ \A p \in url.parameters : "#" \notin ToSet(p[1]) \cup ToSet(p[2])

-----------------------------------------------------------------------------
(* UrlBuilder and the constructors.                                        *)

SetProtocol(url, protocol) == [url EXCEPT !.protocol = protocol]
SetHostname(url, hostname) == [url EXCEPT !.hostname = hostname]
SetPort(url, port) == [url EXCEPT !.port = port]
SetPath(url, path) == [url EXCEPT !.path = path]
SetQuery(url, query) == [url EXCEPT !.query = query]

AddParameter(url, name, value) ==
    [url EXCEPT !.parameters = {p \in @ : p[1] # name} \cup {<<name, value>>}]

Build(url) ==
    IF url.protocol = <<>> \/ url.hostname = <<>> THEN Failure("MalformedUrl") ELSE Success(url)

NewUrl(protocol, hostname) == Build(SetHostname(SetProtocol(EmptyUrl, protocol), hostname))

NewUrlAt(protocol, hostname, port) ==
    IF port = 0 THEN Failure("MalformedUrl")
    ELSE Build(SetPort(SetHostname(SetProtocol(EmptyUrl, protocol), hostname), port))

-----------------------------------------------------------------------------
(* Url::toString.                                                          *)

PathText_as_given(path) == path
PathText(path) == IF path # <<>> /\ Head(path) # "/" THEN <<"/">> \o path ELSE path

Written(parameter) == parameter[1] \o <<"=">> \o parameter[2]

ParameterText(parameters) ==
    IF parameters = <<>> THEN <<>>
    ELSE <<"?">> \o Tail(FlattenSeq([i \in DOMAIN parameters |->
                             <<"&">> \o Written(parameters[i])]))

\* One text for every order in which the map may list the parameters.
Texts(url) ==
    {url.protocol \o <<":", "/", "/">> \o url.hostname
     \o (IF url.port = 0 THEN <<>> ELSE <<":", Numeral[url.port]>>)
     \o PathText(url.path)
     \o (IF url.query = <<>> THEN <<>> ELSE <<"/">> \o url.query)
     \o ParameterText(parameters) : parameters \in SetToSeqs(url.parameters)}

-----------------------------------------------------------------------------
(* Url::parse.                                                             *)

Before(text, delimiters) ==
    LET i == SelectInSeq(text, LAMBDA token : token \in delimiters)
    IN  IF i = 0 THEN text ELSE SubSeq(text, 1, i - 1)
Beyond(text, n) == SubSeq(text, n + 1, Len(text))

\* The groups of s_regex: what does not match an optional group is left to the next.
Groups(text) ==
    LET scheme == Before(text, {":", "/", "?", "#"})
        named == scheme # <<>> /\ IsPrefix(scheme \o <<":">>, text)
        rest == IF named THEN Beyond(text, Len(scheme) + 1) ELSE text
        hosted == IsPrefix(<<"/", "/">>, rest)
        hostport == IF hosted THEN Before(Beyond(rest, 2), {"/", "?", "#"}) ELSE <<>>
        location == IF hosted THEN Beyond(rest, 2 + Len(hostport)) ELSE rest
        path == Before(location, {"?", "#"})
        query == Before(Beyond(location, Len(path)), {"#"})
    IN  [protocol |-> IF named THEN scheme ELSE <<>>, hostport |-> hostport, path |-> path,
         parameters |-> IF query = <<>> THEN <<>> ELSE Tail(query),
         fragment |-> Beyond(location, Len(path) + Len(query))]

\* std::stoi reads the number that a text begins with, behind blanks and a sign, and
\* throws if there is none or if it does not fit in an int; setPort makes it an unsigned.
Stoi(text) ==
    LET number == Beyond(text, Len(Before(text, Tokens \ Blanks)))
        signed == number # <<>> /\ number[1] \in Signs
        digits == IF signed THEN Tail(number) ELSE number
    IN  {n \in -(IntMax + 1)..IntMax :
            /\ digits # <<>> /\ digits[1] \in DOMAIN Leading
            /\ n = IF signed /\ number[1] = "-" THEN -Leading[digits[1]]
                                               ELSE Leading[digits[1]]}
Unsigned(n) == n % (2 * (IntMax + 1))

\* Where s_param_regex could match, two words with a "=" between them.
Candidate(text, i) ==
    /\ i \in 1..(Len(text) - 2)
    /\ text[i] \in Words /\ text[i + 1] = "=" /\ text[i + 2] \in Words

\* Where it does: each search goes on in the suffix of the match before it, so that of
\* candidates that share words it finds the first and then every second one.
Matches(text) ==
    {i \in 1..Len(text) :
        \E k \in 0..i : /\ \A j \in 0..(2 * k) : Candidate(text, i - 2 * j)
                       /\ ~Candidate(text, i - 2 * (2 * k + 1))}

Found(text, i) == <<<<text[i]>>, <<text[i + 2]>>>>
Finds(text) == {Found(text, i) : i \in Matches(text)}

\* Of those of one name, the last one replaces the others.
ParsedParameters(text) ==
    {Found(text, i) : i \in {i \in Matches(text) :
                               \A j \in Matches(text) : text[j] = text[i] => j <= i}}

\* What Url::parse makes of the groups.  A "." of s_regex is no line terminator.
Assembled(groups) ==
    LET host == Before(groups.hostport, {":"})
        port == Stoi(Beyond(groups.hostport, Len(host) + 1))
        url(n) == [protocol |-> groups.protocol, hostname |-> host, port |-> n,
                   path |-> groups.path, query |-> <<>>,
                   parameters |-> ParsedParameters(groups.parameters)]
    IN  IF "\n" \in ToSet(groups.fragment) THEN Failure("MalformedUrl")
        ELSE IF host = groups.hostport THEN Build(url(0))
        ELSE IF port = {} THEN Failure("MalformedUrl")
        ELSE Build(url(Unsigned(CHOOSE n \in port : TRUE)))

\* The set of one has TLC evaluate the groups once, and not at each of their uses.
Parse(text) == CHOOSE result \in {Assembled(groups) : groups \in {Groups(text)}} : TRUE
=============================================================================
