------------------------------- MODULE Dispatch -------------------------------
(***************************************************************************)
(* From a parsed request to the application: wsgi_cb and set_gen_wsgi_cb   *)
(* (_evwsgi.c), python_handler with handle_uri up to the call              *)
(* (mainloop.c), and py_build_method_variables, parse_query and decode_uri *)
(* (wsgi.c, extra.c).  Routes are added before and between requests.       *)
(*                                                                         *)
(* Text is a sequence of characters; an escape %xx is one of them, a "%"   *)
(* that starts none is an ordinary one.                                    *)
(***************************************************************************)
EXTENDS Integers, Sequences, FiniteSets, SequencesExt

CONSTANTS
    Callback,   \* WSGI applications
    NoCallback, \* no application
    MaxRoutes,  \* bound: registered URIs
    MaxParams   \* bound: parameters in query and form together

ASSUME DispatchAssumption ==
    /\ NoCallback \notin Callback
    /\ MaxRoutes \in Nat /\ MaxParams \in Nat

-----------------------------------------------------------------------------
(* The client: what it means, and what it sends *)

Sent(text, wire) == [text |-> text, wire |-> wire]

\* Two routes may be prefixes of each other and of a path that extends them.
RouteUris == {<<"/", "a">>, <<"/", "a", "/">>}
PathsSent ==
    {Sent(<<"/", "a">>, <<"/", "a">>), Sent(<<"/", "a", "b">>, <<"/", "a", "b">>),
     Sent(<<"/", "a", "/", " ">>, <<"/", "a", "/", "%20">>), Sent(<<"b">>, <<"b">>)}
NamesSent ==
    {Sent(<<"a">>, <<"a">>), Sent(<<"a">>, <<"%61">>), Sent(<<"b", " ">>, <<"b", "+">>)}
ValuesSent ==
    {Sent(<<>>, <<>>), Sent(<<"=", "?">>, <<"=", "?">>),
     Sent(<<"&", " ", "+">>, <<"%26", "+", "%2B">>)}

ParamsSent == SeqOf([name : NamesSent, value : ValuesSent], MaxParams)
Wire(params) ==
    LET pair(p) == p.name.wire \o <<"=">> \o p.value.wire
    IN FlattenSeq([n \in DOMAIN params |->
           (IF n = 1 THEN <<>> ELSE <<"&">>) \o pair(params[n])])

\* query is what follows the path; extra follows the body in the same buffer.
AnyRequest ==
    [cmd : {"GET", "POST", "OPTIONS", "GIT"}, path : PathsSent,
     hasQuery : BOOLEAN, query : ParamsSent,
     hasLength : BOOLEAN, type : {"form", "other"}, form : ParamsSent, extra : {<<>>, <<"b">>}]
RequestsSent == {r \in AnyRequest :
    /\ ~r.hasQuery => r.query = <<>>
    /\ r.cmd # "POST" => ~r.hasLength
    /\ r.cmd \in {"OPTIONS", "GIT"} => ~r.hasQuery
    /\ r.hasQuery => r.extra = <<>>
    /\ ~r.hasLength => r.type = "other"
    /\ r.type = "other" => r.form = <<>> /\ r.extra = <<>>
    /\ Len(r.query) + Len(r.form) <= MaxParams}
NoRequest == [cmd |-> "none"]

Uri(r) == r.path.wire \o (IF r.hasQuery THEN <<"?">> \o Wire(r.query) ELSE <<>>)

VARIABLES
    registered, \* py_registered_uri
    generic,    \* py_generic_cb
    request,    \* the request in service
    ret,        \* what python_handler made of it
    called,     \* the application it called
    environ     \* cli->pyenviron, from update_uri on

dispatchVars == <<registered, generic, request, ret, called, environ>>

NoParams == [k \in {} |-> <<>>]
NoEnviron == [SCRIPT_NAME |-> <<>>, PATH_INFO |-> <<>>, QUERY_STRING |-> <<>>,
              params |-> NoParams]

DispatchInit ==
    /\ registered = <<>>
    /\ generic = NoCallback
    /\ request = NoRequest
    /\ ret = "none" /\ called = NoCallback
    /\ environ = NoEnviron

-----------------------------------------------------------------------------
(* extra.c and wsgi.c *)

Decoded == [c \in {"+", "%20", "%26", "%2B", "%61"} |->
    CASE c \in {"+", "%20"} -> " " [] c = "%26" -> "&" [] c = "%2B" -> "+" [] c = "%61" -> "a"]
DecodeUri(s) == [n \in DOMAIN s |-> IF s[n] \in DOMAIN Decoded THEN Decoded[s[n]] ELSE s[n]]

\* strsep: s up to the first c, and what follows it, if there is a c.
Before(s, c) == IF c \in ToSet(s) THEN SubSeq(s, 1, SelectInSeq(s, LAMBDA x : x = c) - 1) ELSE s
After(s, c) == IF c \in ToSet(s) THEN SubSeq(s, SelectInSeq(s, LAMBDA x : x = c) + 1, Len(s)) ELSE <<>>

\* Mutant: a value takes the place of those the key has.
AppendedAlone(pydict, piece) ==
    LET name == DecodeUri(Before(piece, "="))
    IN [k \in DOMAIN pydict \cup {name} |->
           IF k = name THEN <<DecodeUri(After(piece, "="))>> ELSE pydict[k]]

\* A value is added to those its key has.
Appended(pydict, piece) ==
    LET name == DecodeUri(Before(piece, "="))
        pyelem == IF name \in DOMAIN pydict THEN pydict[name] ELSE <<>>
    IN [k \in DOMAIN pydict \cup {name} |->
           IF k = name THEN Append(pyelem, DecodeUri(After(piece, "="))) ELSE pydict[k]]

\* strsep takes a piece off p, unless p is at its end.
Round(loop) ==
    IF loop.p = <<>> THEN loop
    ELSE [p |-> After(loop.p, "&"), pydict |-> Appended(loop.pydict, Before(loop.p, "&"))]

\* A round takes something off, so that there are no more than Len(s).
ParseQuery(s) ==
    LET loop[n \in 0 .. Len(s)] ==
            IF n = 0 THEN [p |-> s, pydict |-> NoParams] ELSE Round(loop[n - 1])
    IN loop[Len(s)].pydict

\* Mutant: the slash that may end the script's name is taken to be there.
BuildMethodVariablesOneLess(uri, uri_path) ==
    LET rst_uri == SubSeq(uri, Len(uri_path), Len(uri))
    IN [SCRIPT_NAME |-> uri_path,
        PATH_INFO |-> DecodeUri(Before(rst_uri, "?")),
        QUERY_STRING |-> After(rst_uri, "?"),
        params |-> ParseQuery(After(rst_uri, "?"))]

\* Without a "?" fapws.params stays what Environ made it, which is empty too.
BuildMethodVariables(uri, uri_path) ==
    LET rst_uri == SubSeq(uri, Len(uri_path) + 1, Len(uri))
    IN [SCRIPT_NAME |-> uri_path,
        PATH_INFO |-> DecodeUri(Before(rst_uri, "?")),
        QUERY_STRING |-> After(rst_uri, "?"),
        params |-> ParseQuery(After(rst_uri, "?"))]

-----------------------------------------------------------------------------
(* The application registers, before and between requests; while it is     *)
(* called would be the same, as handle_uri is over then.                   *)

\* Mutant: the newest route is looked at first.
WsgiCbInFront(uri, cb) ==
    /\ request = NoRequest /\ Len(registered) < MaxRoutes
    /\ registered' = <<[uri |-> uri, cb |-> cb]>> \o registered
    /\ UNCHANGED <<generic, request, ret, called, environ>>

WsgiCb(uri, cb) ==
    /\ request = NoRequest /\ Len(registered) < MaxRoutes
    /\ registered' = Append(registered, [uri |-> uri, cb |-> cb])
    /\ UNCHANGED <<generic, request, ret, called, environ>>

SetGenWsgiCb(cb) ==
    /\ request = NoRequest
    /\ generic' = cb
    /\ UNCHANGED <<registered, request, ret, called, environ>>

-----------------------------------------------------------------------------
(* python_handler *)

\* handle_uri: the first route that is a prefix of the URI.
Matches(uri) == {n \in DOMAIN registered : IsPrefix(registered[n].uri, uri)}
HandleUri(uri) == registered[CHOOSE n \in Matches(uri) : \A m \in Matches(uri) : n <= m]

\* An answer without the application.
Answered(r, code) ==
    /\ request' = r
    /\ ret' = code
    /\ called' = NoCallback /\ environ' = NoEnviron
    /\ UNCHANGED <<registered, generic>>

NotImplemented(r) == r.cmd = "GIT" /\ Answered(r, "501")

Options(r) == r.cmd = "OPTIONS" /\ Answered(r, "options")

NotFound(r) ==
    /\ r.cmd \in {"GET", "POST"}
    /\ Matches(Uri(r)) = {} /\ generic = NoCallback
    /\ Answered(r, "404")

Routed(r) == r.cmd \in {"GET", "POST"} /\ (Matches(Uri(r)) # {} \/ generic # NoCallback)

LengthRequired(r) ==
    /\ Routed(r)
    /\ r.cmd = "POST" /\ ~r.hasLength
    /\ Answered(r, "411")

\* The parameters of a form replace those of the URI; the form is read up
\* to the end of the buffer.
Called(r) ==
    /\ Routed(r)
    /\ r.cmd = "POST" => r.hasLength
    /\ LET route == IF Matches(Uri(r)) # {} THEN HandleUri(Uri(r))
                    ELSE [uri |-> <<>>, cb |-> generic]
           variables == BuildMethodVariables(Uri(r), route.uri)
       IN  /\ called' = route.cb
           /\ environ' = IF r.type = "form"
                         THEN [variables EXCEPT !.params = ParseQuery(Wire(r.form) \o r.extra)]
                         ELSE variables
    /\ request' = r
    /\ ret' = "called"
    /\ UNCHANGED <<registered, generic>>

PythonHandler(r) ==
    /\ request = NoRequest
    /\ NotImplemented(r) \/ Options(r) \/ NotFound(r) \/ LengthRequired(r) \/ Called(r)

\* close_connection: nothing of the request is left.
CloseConnection ==
    /\ request # NoRequest
    /\ request' = NoRequest
    /\ ret' = "none" /\ called' = NoCallback /\ environ' = NoEnviron
    /\ UNCHANGED <<registered, generic>>

DispatchNext ==
    \/ CloseConnection
    \/ \E uri \in RouteUris, cb \in Callback : WsgiCb(uri, cb)
    \/ \E cb \in Callback : SetGenWsgiCb(cb)
    \/ \E r \in RequestsSent : PythonHandler(r)

DispatchSpec == DispatchInit /\ [][DispatchNext]_dispatchVars

-----------------------------------------------------------------------------
(* Properties *)

\* A URI that a route serves is served by that route for ever, whatever is
\* registered later, and no request changes the routes (handle_uri, 202-226).
RoutesStay ==
    [][\A path \in PathsSent :
           Matches(path.wire) # {} =>
               Matches(path.wire)' # {} /\ HandleUri(path.wire)' = HandleUri(path.wire)]_dispatchVars

\* The environment gives the request back: SCRIPT_NAME and PATH_INFO together
\* are the path the client meant, and QUERY_STRING is what it sent; and an
\* application sees a path only below the URI it is registered for.
UriExact ==
    ret = "called" =>
        /\ environ.SCRIPT_NAME \o environ.PATH_INFO = request.path.text
        /\ environ.QUERY_STRING = Wire(request.query)
        /\ \/ [uri |-> environ.SCRIPT_NAME, cb |-> called] \in ToSet(registered)
           \/ environ.SCRIPT_NAME = <<>> /\ generic # NoCallback

\* The values the client gave the name k, all of them and in their order:
\* "which" says which parameter a value is of.
AreValuesOf(values, k, params) ==
    \E which \in [1 .. Len(values) -> DOMAIN params] :
        /\ \A m, n \in 1 .. Len(values) : m < n => which[m] < which[n]
        /\ \A n \in DOMAIN params :
              params[n].name.text = k => \E m \in 1 .. Len(values) : which[m] = n
        /\ \A m \in 1 .. Len(values) :
              params[which[m]].name.text = k /\ values[m] = params[which[m]].value.text

\* fapws.params holds the parameters the client meant, each name with its
\* values in order: those of the form if it is one, otherwise those of the URI;
\* unless the client sent bytes after the form.
ParamsExact ==
    ret = "called" /\ request.extra = <<>> =>
        LET params == IF request.type = "form" THEN request.form ELSE request.query
        IN  /\ DOMAIN environ.params = {params[n].name.text : n \in DOMAIN params}
            /\ \A k \in DOMAIN environ.params : AreValuesOf(environ.params[k], k, params)
=============================================================================
