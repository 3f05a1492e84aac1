-------------------------- MODULE ApplicationsProofs --------------------------
(***************************************************************************)
(* Applications for any files, pages, contents and stacks of wrappers, and *)
(* for a file that is replaced between any two system calls: what headers, *)
(* log and client's copies say of a body is true.                          *)
(***************************************************************************)
EXTENDS Applications, TLAPS

-----------------------------------------------------------------------------
(* Responses *)

IsResponse(r) ==
    DOMAIN r = {"raised", "code", "headers", "cookies"} /\ r.raised = FALSE

IsBody(b) ==
    /\ DOMAIN b = {"kind", "content", "coded"}
    /\ b.kind \in {"list", "file", "iter"}
    /\ b.coded \in {0, 1}

LEMMA FreshIs ==
  /\ IsResponse(Fresh)
  /\ Fresh.code = 200 /\ DOMAIN Fresh.headers = {"Date", "Server"}
  /\ Raised.raised /\ ~Fresh.raised
  BY DEF IsResponse, Fresh, Raised

LEMMA EmptyIs ==
  /\ DOMAIN Empty = {"kind", "content", "coded"}
  /\ IsBody(Empty) /\ Empty.kind = "list" /\ Empty.coded = 0
  BY DEF Empty, IsBody

LEMMA ListIs ==
  ASSUME NEW c
  PROVE  IsBody(List(c)) /\ List(c).kind = "list" /\ List(c).content = c /\ List(c).coded = 0
  BY EmptyIs DEF List, IsBody

\* start_response replaces the headers it is given and leaves the others.
LEMMA CallGives ==
  ASSUME NEW r, IsResponse(r), NEW code, NEW headers, NEW c,
         c = Call(r, Status(code), headers)
  PROVE  /\ IsResponse(c)
         /\ c.code = code /\ c.cookies = r.cookies
         /\ DOMAIN c.headers = DOMAIN headers \cup DOMAIN r.headers
         /\ \A h \in DOMAIN headers : c.headers[h] = headers[h]
         /\ \A h \in DOMAIN r.headers \ DOMAIN headers : c.headers[h] = r.headers[h]
<1>1. PICK all : all = Updated(r.headers, headers)
  OBVIOUS
<1>2. c = [r EXCEPT !.code = code, !.headers = all]
  <2>1. Status(code).reason /\ Status(code).code = code
    BY DEF Status
  <2> QED
    BY <1>1, <2>1, Zenon DEF Call
<1>3. /\ DOMAIN all = DOMAIN headers \cup DOMAIN r.headers
      /\ \A h \in DOMAIN headers : all[h] = headers[h]
      /\ \A h \in DOMAIN r.headers \ DOMAIN headers : all[h] = r.headers[h]
  BY <1>1 DEF Updated
<1>4. IsResponse(c) /\ c.code = code /\ c.headers = all /\ c.cookies = r.cookies
  BY <1>2 DEF IsResponse
<1> QED
  BY <1>3, <1>4

LEMMA AddHeaderGives ==
  ASSUME NEW r, IsResponse(r), NEW name, NEW value, NEW c,
         c = AddHeader(r, name, value)
  PROVE  /\ IsResponse(c)
         /\ c.code = r.code /\ c.cookies = r.cookies
         /\ DOMAIN c.headers = DOMAIN r.headers \cup {name}
         /\ c.headers[name] = value
         /\ \A h \in DOMAIN r.headers \ {name} : c.headers[h] = r.headers[h]
<1>1. PICK all : all = Updated(r.headers, [h \in {name} |-> value])
  OBVIOUS
<1>2. c = [r EXCEPT !.headers = all]
  BY <1>1, Zenon DEF AddHeader
<1>3. /\ DOMAIN all = DOMAIN r.headers \cup {name}
      /\ all[name] = value
      /\ \A h \in DOMAIN r.headers \ {name} : all[h] = r.headers[h]
  BY <1>1 DEF Updated
<1>4. IsResponse(c) /\ c.code = r.code /\ c.headers = all /\ c.cookies = r.cookies
  BY <1>2 DEF IsResponse
<1> QED
  BY <1>3, <1>4

LEMMA SetCookieGives ==
  ASSUME NEW r, IsResponse(r), NEW key, NEW value, NEW c,
         c = SetCookie(r, key, value)
  PROVE  /\ IsResponse(c) /\ c.code = r.code /\ c.headers = r.headers
         /\ key \in DOMAIN c.cookies /\ DOMAIN c.cookies[key] = {"value", "age"}
<1>1. PICK one : one = [value |-> value,
                        age |-> IF key \in DOMAIN r.cookies THEN r.cookies[key].age
                                ELSE "session"]
  OBVIOUS
<1>2. PICK all : all = Updated(r.cookies, [k \in {key} |-> one])
  OBVIOUS
<1>3. c = [r EXCEPT !.cookies = all]
  BY <1>1, <1>2, Zenon DEF SetCookie
<1>4. key \in DOMAIN all /\ all[key] = one
  BY <1>2 DEF Updated
<1>5. DOMAIN one = {"value", "age"}
  BY <1>1
<1>6. IsResponse(c) /\ c.code = r.code /\ c.headers = r.headers /\ c.cookies = all
  BY <1>3 DEF IsResponse
<1> QED
  BY <1>4, <1>5, <1>6

\* A cookie that is set and deleted is sent, to be forgotten.
LEMMA CookieDeleted ==
  ASSUME NEW r, IsResponse(r), NEW key, NEW value, NEW c,
         c = DeleteCookie(SetCookie(r, key, value), key)
  PROVE  /\ IsResponse(c) /\ c.code = r.code /\ c.headers = r.headers
         /\ key \in DOMAIN c.cookies /\ c.cookies[key].age = "0"
<1>1. PICK s : s = SetCookie(r, key, value)
  OBVIOUS
<1>2. /\ IsResponse(s) /\ s.code = r.code /\ s.headers = r.headers
      /\ key \in DOMAIN s.cookies
  BY <1>1, SetCookieGives
<1> DEFINE none == ""
<1>3. PICK t : t = SetCookie(s, key, none)
  OBVIOUS
<1> HIDE DEF none
<1>4. /\ IsResponse(t) /\ t.code = r.code /\ t.headers = r.headers
      /\ key \in DOMAIN t.cookies /\ DOMAIN t.cookies[key] = {"value", "age"}
  BY <1>2, <1>3, SetCookieGives
<1>5. s.cookies # <<>>
  BY <1>2
<1>6. c = [t EXCEPT !.cookies[key].age = "0"]
  BY <1>1, <1>3, <1>5, Zenon DEF DeleteCookie, NoCookies, none
<1> QED
  BY <1>4, <1>6 DEF IsResponse

-----------------------------------------------------------------------------
(* The inductive invariant *)

Returned == step \in {"returned", "sent"}
Answered == Returned /\ ~response.raised

TypeInv ==
    /\ site \in Site /\ stack \in Stacks
    /\ file \in Version \cup {Missing}
    /\ DOMAIN pages = Page /\ DOMAIN posted = Page
    /\ step \in {"idle", "app", "opened", "compared", "returned", "sent"}
    /\ response = Raised \/ IsResponse(response)
    /\ IsBody(body)

\* What is asked of a site is answered, until the connection ends.
AskInv ==
    step # "idle" =>
        /\ site = "wiki" => request.ask.page \in Page
        /\ site = "account" => request.ask.do \in {"login", "logout", "expire"}

\* The wrappers that have still to be run are the last of the stack, and
\* there is no line of the log before one of them.
StackInv ==
    /\ step \in {"app", "opened", "compared"} => wrappers = stack
    /\ wrappers \in Seq({"gzip", "log"}) /\ Len(wrappers) <= Len(stack)
    /\ \A i \in DOMAIN wrappers : wrappers[i] = stack[Len(stack) - Len(wrappers) + i]
    /\ ~Returned => logged = None

\* Staticfile before it returns.  What it opens and looks at is one version
\* unless the file is replaced in between.
StaticInv ==
    /\ step \in {"app", "opened"} => response = Fresh
    /\ step \in {"opened", "compared"} => site = "static"
    /\ step = "opened" => (~seen.swapped => opened = file)
    /\ step = "compared" =>
        /\ IsResponse(response) /\ response.code = 200
        /\ DOMAIN response.headers = {"Date", "Server", "ETag"}
        /\ response.headers["ETag"] \in Version
        /\ ~seen.swapped => response.headers["ETag"] = opened

\* The files that can be written hold what was posted last.
PagesInv == \A p \in Writable : pages[FileOf[p]] = posted[FileOf[p]]

\* Bodies: who raises has none, and only compressed lists have a coding.
BodyInv ==
    Returned =>
        /\ response.raised => wrappers = <<>> /\ body.kind = "list" /\ body.coded = 0
        /\ body.kind # "list" => body.coded = 0
        /\ body.kind = "iter" => site = "hello"

\* No body is compressed before Gzip has come to it.
CodingInv ==
    Answered =>
        /\ "Content-Encoding" \in DOMAIN response.headers <=> body.coded = 1
        /\ body.coded = 1 => request.gzip
        /\ \A i \in DOMAIN wrappers : wrappers[i] = "gzip" => body.coded = 0

LengthInv ==
    Answered /\ body.kind = "list" =>
        \A h \in Lengths \cap DOMAIN response.headers :
            h = "Content-Length" \/ body.coded = 0 => response.headers[h] = Length(body)

\* An ETag is that of the contents it is sent with, but for the exception.
TagInv ==
    Answered /\ "ETag" \in DOMAIN response.headers =>
        /\ response.headers["ETag"] \in Version
        /\ ~seen.swapped => response.headers["ETag"] = body.content

\* Who is told "Not Modified" has asked with the tag of what the handler saw.
NotModifiedInv ==
    Answered /\ response.code = 304 =>
        site = "static" /\ request.ask.etag = seen.looked /\ seen.looked \in Version

\* A log that is the last wrapper has seen what is sent.
LogInv ==
    Returned /\ logged # None /\ stack[Len(stack)] = "log" =>
        /\ wrappers = <<>> /\ ~response.raised
        /\ logged.code = response.code
        /\ body.kind = "list" => logged.size = Length(body)

ShownInv ==
    Answered /\ site = "wiki" /\ request.ask.do = "display" =>
        LET p == Norm[request.ask.page]
        IN  p \in Writable \cap Lettered =>
                IF posted[FileOf[p]] = Missing
                THEN /\ response.code = 302 /\ "location" \in DOMAIN response.headers
                     /\ response.headers["location"] = <<"edit", p>>
                ELSE response.code = 200 /\ body.content = posted[FileOf[p]]

\* Who logs out without an error is sent a cookie to be forgotten, and forgets.
AccountInv ==
    Answered /\ site = "account" /\ request.ask.do # "login" =>
        /\ "user" \in DOMAIN response.cookies /\ response.cookies["user"].age = "0"
        /\ step = "sent" => jar = Missing

SentInv ==
    sent # None =>
        /\ step = "sent"
        /\ sent = [head |-> Header(Final), body |-> body, request |-> request]

\* The copy a client keeps, and the tag he asks with.
CacheInv ==
    /\ cache # None =>
        cache.etag \in Version /\ (~cache.swapped => cache.content = cache.etag)
    /\ step # "idle" /\ site = "static" /\ (step = "sent" => Final.code = 304) =>
        request.ask.etag = "none" \/ (cache # None /\ request.ask.etag = cache.etag)

HandlerInv == TypeInv /\ AskInv /\ StackInv /\ StaticInv /\ PagesInv
WrappedInv == BodyInv /\ CodingInv /\ LengthInv /\ TagInv /\ LogInv
ToldInv == NotModifiedInv /\ ShownInv /\ AccountInv
ClientInv == SentInv /\ CacheInv

IInv == HandlerInv /\ WrappedInv /\ ToldInv /\ ClientInv

LEMMA InitIInv == Init => IInv
<1> SUFFICES ASSUME Init  PROVE IInv
  OBVIOUS
<1>1. stack \in Seq({"gzip", "log"})
  BY ConstantsAssumption DEF Init
<1>2. TypeInv
  BY FreshIs, EmptyIs DEF Init, TypeInv
<1>3. StackInv
  BY <1>1 DEF Init, StackInv, Returned
<1>4. PagesInv
  BY ConstantsAssumption DEF Init, PagesInv
<1>5. AskInv /\ StaticInv
  BY DEF Init, AskInv, StaticInv
<1>6. WrappedInv /\ ToldInv /\ ClientInv
  BY DEF Init, WrappedInv, BodyInv, CodingInv, LengthInv, TagInv, LogInv, ToldInv,
         NotModifiedInv, ShownInv, AccountInv, ClientInv, SentInv, CacheInv,
         Returned, Answered
<1> QED
  BY <1>2, <1>3, <1>4, <1>5, <1>6 DEF IInv, HandlerInv

-----------------------------------------------------------------------------
(* What steps have in common *)

\* Nothing is claimed of a response before it is returned.
LEMMA NotReturned ==
  ASSUME step' \notin {"returned", "sent"}
  PROVE  WrappedInv' /\ ToldInv'
  BY DEF WrappedInv, BodyInv, CodingInv, LengthInv, TagInv, LogInv, ToldInv,
         NotModifiedInv, ShownInv, AccountInv, Returned, Answered

\* The client keeps what he has until something is sent.
LEMMA ClientKept ==
  ASSUME ClientInv, step \notin {"idle", "sent"}, step' # "sent",
         UNCHANGED <<sent, cache, request, site>>
  PROVE  ClientInv'
  BY DEF ClientInv, SentInv, CacheInv

\* Answers without the headers the wrappers are about.
Plain(r, b) ==
    \/ r = Raised
    \/ /\ IsResponse(r) /\ IsBody(b)
       /\ DOMAIN r.headers \subseteq {"Date", "Server", "Content-Type", "location"} \cup Lengths
       /\ \A h \in Lengths \cap DOMAIN r.headers : r.headers[h] = Length(b)
       /\ b.kind # "file" /\ b.coded = 0
       /\ b.kind = "iter" => site = "hello"

LEMMA PlainReturn ==
  ASSUME HandlerInv, step \in {"app", "opened", "compared"}, NEW r, NEW b, Plain(r, b),
         Return(r, b), UNCHANGED <<site, stack, file, logged, request>>,
         DOMAIN pages' = Page, DOMAIN posted' = Page, PagesInv'
  PROVE  HandlerInv' /\ WrappedInv' /\ step' = "returned"
<1>1. step' = "returned" /\ logged' = None
  BY DEF Return, HandlerInv, StackInv, Returned
<1>2. CASE r = Raised
  <2>1. /\ response' = Raised /\ response'.raised /\ wrappers' = <<>>
        /\ IsBody(body') /\ body'.kind = "list" /\ body'.coded = 0
    <3> DEFINE c == "error"
    <3>1. body' = List(c) /\ response' = Raised /\ wrappers' = <<>>
      BY <1>2, FreshIs DEF Return
    <3> HIDE DEF c
    <3> QED
      BY <3>1, ListIs, FreshIs
  <2>2. HandlerInv'
    BY <1>1, <2>1 DEF HandlerInv, TypeInv, AskInv, StackInv, StaticInv, Returned
  <2>3. WrappedInv'
    BY <1>1, <2>1 DEF WrappedInv, BodyInv, CodingInv, LengthInv, TagInv, LogInv, Answered
  <2> QED
    BY <1>1, <2>2, <2>3
<1>3. CASE r # Raised
  <2>1. /\ response' = r /\ body' = b /\ wrappers' = wrappers /\ IsResponse(r) /\ ~r.raised
        /\ IsBody(b) /\ b.kind # "file" /\ b.coded = 0 /\ (b.kind = "iter" => site = "hello")
        /\ \A h \in {"Content-Encoding", "ETag"} : h \notin DOMAIN r.headers
        /\ \A h \in Lengths \cap DOMAIN r.headers : r.headers[h] = Length(b)
    BY <1>3 DEF Return, Plain, IsResponse, Lengths
  <2>2. HandlerInv'
    BY <1>1, <2>1 DEF HandlerInv, TypeInv, AskInv, StackInv, StaticInv, Returned
  <2>3. BodyInv' /\ CodingInv' /\ TagInv' /\ LogInv'
    BY <1>1, <2>1 DEF BodyInv, CodingInv, TagInv, LogInv, Answered
  <2>4. LengthInv'
    BY <2>1 DEF LengthInv, Length
  <2> QED
    BY <1>1, <2>2, <2>3, <2>4 DEF WrappedInv
<1> QED
  BY <1>2, <1>3

\* python_handler makes an answer of what is returned.
LEMMA FinalIs ==
  ASSUME TypeInv, BodyInv, Returned
  PROVE  /\ response.raised =>
                /\ Final.code = 500 /\ DOMAIN Final.headers = {}
                /\ DOMAIN Final.cookies = {}
         /\ ~response.raised /\ body.kind = "iter" =>
                /\ Final.code = 404 /\ Final.cookies = response.cookies
                /\ DOMAIN Final.headers = {"Content-Type"} \cup DOMAIN response.headers
                /\ \A h \in DOMAIN response.headers \ {"Content-Type"} :
                        Final.headers[h] = response.headers[h]
         /\ ~response.raised /\ body.kind # "iter" => Final = response
<1>1. CASE response.raised
  <2>1. body.kind # "iter"
    BY <1>1 DEF BodyInv
  <2>2. Final = [Fresh EXCEPT !.code = 500, !.headers = <<>>]
    BY <1>1, <2>1, Zenon DEF Final
  <2>3. DOMAIN Fresh = {"raised", "code", "headers", "cookies"} /\ Fresh.cookies = <<>>
    BY DEF Fresh
  <2>4. Final.code = 500 /\ Final.headers = <<>> /\ Final.cookies = <<>>
    BY <2>2, <2>3
  <2> QED
    BY <1>1, <2>4
<1>2. CASE ~response.raised
  <2>1. IsResponse(response)
    BY <1>2, FreshIs DEF TypeInv
  <2>2. CASE body.kind = "iter"
    <3>1. PICK hs : hs = [h \in {"Content-Type"} |-> ""]
      OBVIOUS
    <3>2. Final = Call(response, Status(404), hs) /\ DOMAIN hs = {"Content-Type"}
      BY <1>2, <2>2, <3>1 DEF Final
    <3> QED
      BY <1>2, <2>1, <2>2, <3>2, CallGives
  <2>3. CASE body.kind # "iter"
    BY <1>2, <2>3 DEF Final
  <2> QED
    BY <1>2, <2>2, <2>3
<1> QED
  BY <1>1, <1>2

-----------------------------------------------------------------------------
(* A request, and Staticfile *)

LEMMA AsksOf ==
  ASSUME site \in Site, NEW ask \in Asks
  PROVE  /\ site = "wiki" => ask.page \in Page
         /\ site = "account" => ask.do \in {"login", "logout", "expire"}
         /\ site = "static" =>
                ask.etag = "none" \/ (cache # None /\ ask.etag = cache.etag)
<1>1. CASE site = "wiki"
  <2>1. ask \in [do : {"display", "edit", "index"}, page : Page]
                    \cup [do : {"post"}, page : Page, content : Content \cup {""}]
    BY <1>1 DEF Asks
  <2> QED
    BY <1>1, <2>1
<1>2. CASE site = "account"
  BY <1>2 DEF Asks
<1>3. CASE site = "static"
  BY <1>3 DEF Asks
<1> QED
  BY <1>1, <1>2, <1>3

LEMMA ArrivesStep ==
  ASSUME IInv, NEW ask \in Asks, NEW gzip, NEW host, Arrives(ask, gzip, host)
  PROVE  IInv'
<1>1. HandlerInv'
  <2>1. TypeInv' /\ StaticInv' /\ PagesInv'
    BY FreshIs DEF IInv, HandlerInv, TypeInv, StaticInv, PagesInv, Arrives, server, disk
  <2>2. AskInv'
    BY AsksOf DEF IInv, HandlerInv, TypeInv, AskInv, Arrives, server
  <2>3. stack \in Seq({"gzip", "log"})
    BY ConstantsAssumption DEF IInv, HandlerInv, TypeInv
  <2>4. StackInv'
    BY <2>3 DEF IInv, HandlerInv, StackInv, Arrives, server, Returned
  <2> QED
    BY <2>1, <2>2, <2>4 DEF HandlerInv
<1>2. WrappedInv' /\ ToldInv'
  BY NotReturned DEF Arrives
<1>3. ClientInv'
  <2>1. sent' = None
    BY DEF IInv, ClientInv, SentInv, Arrives
  <2>2. site = "static" => ask.etag = "none" \/ (cache # None /\ ask.etag = cache.etag)
    BY AsksOf DEF IInv, HandlerInv, TypeInv
  <2>3. /\ request'.ask = ask /\ step' = "app"
        /\ UNCHANGED <<site, cache>>
    BY DEF Arrives, server, client
  <2>4. CacheInv'
    BY <2>2, <2>3 DEF IInv, ClientInv, CacheInv
  <2> QED
    BY <2>1, <2>4 DEF ClientInv, SentInv
<1> QED
  BY <1>1, <1>2, <1>3 DEF IInv

LEMMA OpenStep ==
  ASSUME IInv, Open
  PROVE  IInv'
<1>1. ClientInv'
  <2>1. step' # "sent"
    BY DEF Open, Return
  <2> QED
    BY <2>1, ClientKept DEF IInv, Open, server, client
<1>2. CASE file = Missing
  <2>1. PICK r : r = Call(response, Status(404), <<>>)
    OBVIOUS
  <2>2. IsResponse(r) /\ r.code = 404 /\ DOMAIN r.headers = {"Date", "Server"}
    <3>1. PICK hs : hs = <<>>
      OBVIOUS
    <3>2. response = Fresh
      BY DEF IInv, HandlerInv, StaticInv, Open
    <3> QED
      BY <2>1, <3>1, <3>2, CallGives, FreshIs
  <2>3. Plain(r, Empty)
    BY <2>2, EmptyIs DEF Plain, Lengths
  <2>4. Return(r, Empty)
    BY <1>2, <2>1 DEF Open
  <2>5. HandlerInv' /\ WrappedInv' /\ step' = "returned"
    BY <2>3, <2>4, PlainReturn
    DEF IInv, HandlerInv, TypeInv, PagesInv, Open, server, disk
  <2>6. response' = r /\ site' = "static"
    BY <2>4 DEF Return, Open, server
  <2>7. ToldInv'
    BY <2>2, <2>6 DEF ToldInv, NotModifiedInv, ShownInv, AccountInv
  <2> QED
    BY <1>1, <2>5, <2>7 DEF IInv
<1>3. CASE file # Missing
  <2>1. /\ step' = "opened" /\ opened' = file
        /\ UNCHANGED <<response, body, wrappers, server, disk, request, logged, seen>>
    BY <1>3 DEF Open
  <2>2. HandlerInv'
    BY <2>1 DEF IInv, HandlerInv, TypeInv, AskInv, StackInv, StaticInv, PagesInv,
                Open, server, disk, Returned
  <2> QED
    BY <1>1, <2>1, <2>2, NotReturned DEF IInv
<1> QED
  BY <1>2, <1>3

\* A handler that raises.
LEMMA RaisedStep ==
  ASSUME IInv, step \in {"app", "opened", "compared"}, Return(Raised, Empty),
         UNCHANGED <<server, disk, logged, request, cache, sent>>
  PROVE  IInv'
<1>1. HandlerInv' /\ WrappedInv' /\ step' = "returned"
  <2>1. Plain(Raised, Empty)
    BY DEF Plain
  <2> QED
    BY <2>1, PlainReturn DEF IInv, HandlerInv, TypeInv, PagesInv, server, disk
<1>2. response'.raised
  BY FreshIs DEF Return
<1>3. ToldInv'
  BY <1>2 DEF ToldInv, NotModifiedInv, ShownInv, AccountInv, Answered
<1>4. ClientInv'
  BY <1>1, ClientKept DEF IInv, server
<1> QED
  BY <1>1, <1>3, <1>4 DEF IInv

LEMMA CompareStep ==
  ASSUME IInv, Compare
  PROVE  IInv'
<1>1. site = "static" /\ response = Fresh /\ step = "opened"
      /\ UNCHANGED <<server, disk, logged, request, cache, sent>>
      /\ (~seen.swapped => opened = file)
  BY DEF IInv, HandlerInv, StaticInv, Compare, client
<1>5. file # Missing =>
        file \in Version /\ seen'.looked = file /\ seen'.swapped = seen.swapped
  BY DEF IInv, HandlerInv, TypeInv, Compare
<1>2. CASE file = Missing
  BY <1>1, <1>2, RaisedStep DEF Compare
<1>3. CASE file # Missing /\ request.ask.etag = file
  <2>1. PICK r : r = Call(response, Status(304), <<>>)
    OBVIOUS
  <2>2. IsResponse(r) /\ DOMAIN r.headers = {"Date", "Server"}
    <3>1. PICK hs : hs = <<>>
      OBVIOUS
    <3> QED
      BY <1>1, <2>1, <3>1, CallGives, FreshIs
  <2>3. Plain(r, Empty)
    BY <2>2, EmptyIs DEF Plain, Lengths
  <2>4. Return(r, Empty)
    BY <1>3, <2>1 DEF Compare
  <2>5. HandlerInv' /\ WrappedInv' /\ step' = "returned"
    BY <1>1, <2>3, <2>4, PlainReturn
    DEF IInv, HandlerInv, TypeInv, PagesInv, server, disk
  <2>6. ToldInv'
    BY <1>1, <1>3, <1>5 DEF ToldInv, NotModifiedInv, ShownInv, AccountInv, server, disk
  <2>7. ClientInv'
    BY <1>1, <2>5, ClientKept DEF IInv, server
  <2> QED
    BY <2>5, <2>6, <2>7 DEF IInv
<1>4. CASE file # Missing /\ request.ask.etag # file
  <2>1. PICK hs : hs = [h \in {"ETag"} |-> file]
    OBVIOUS
  <2>2. /\ response' = Call(response, Status(200), hs)
        /\ step' = "compared"
        /\ UNCHANGED <<body, wrappers, opened>>
    BY <1>4, <2>1 DEF Compare
  <2>3. /\ IsResponse(response') /\ response'.code = 200
        /\ DOMAIN response'.headers = {"Date", "Server", "ETag"}
        /\ response'.headers["ETag"] = file
    <3>1. PICK r : r = response'
      OBVIOUS
    <3> QED
      BY <1>1, <2>1, <2>2, <3>1, CallGives, FreshIs
  <2>4. HandlerInv'
    BY <1>1, <1>4, <1>5, <2>2, <2>3
    DEF IInv, HandlerInv, TypeInv, AskInv, StackInv, StaticInv, PagesInv,
        server, disk, Returned
  <2>5. ClientInv'
    BY <1>1, <2>2, ClientKept DEF IInv, server
  <2> QED
    BY <2>2, <2>4, <2>5, NotReturned DEF IInv
<1> QED
  BY <1>2, <1>3, <1>4

LEMMA FileSizeStep ==
  ASSUME IInv, FileSize
  PROVE  IInv'
<1>1. /\ site = "static" /\ step = "compared" /\ logged = None /\ wrappers = stack
      /\ IsResponse(response) /\ response.code = 200
      /\ DOMAIN response.headers = {"Date", "Server", "ETag"}
      /\ response.headers["ETag"] \in Version
      /\ ~seen.swapped => response.headers["ETag"] = opened
      /\ UNCHANGED <<server, disk, logged, seen, request, cache, sent>>
  BY DEF IInv, HandlerInv, StaticInv, StackInv, FileSize, client, Returned
<1>2. CASE file = Missing
  BY <1>1, <1>2, RaisedStep DEF FileSize
<1>3. CASE file # Missing
  <2>1. PICK r : r = AddHeader(response, "Content-Length", <<file, 0>>)
    OBVIOUS
  <2>2. /\ IsResponse(r) /\ r.code = 200
        /\ DOMAIN r.headers = {"Date", "Server", "ETag", "Content-Length"}
        /\ r.headers["ETag"] = response.headers["ETag"]
        /\ r.headers["Content-Length"] = <<file, 0>>
    <3> DEFINE name == "Content-Length"
    <3>1. PICK size : size = <<file, 0>>
      OBVIOUS
    <3>2. r = AddHeader(response, name, size)
      BY <2>1, <3>1
    <3> HIDE DEF name
    <3>3. /\ IsResponse(r) /\ r.code = response.code
          /\ DOMAIN r.headers = DOMAIN response.headers \cup {name}
          /\ r.headers[name] = size
          /\ \A h \in DOMAIN response.headers \ {name} : r.headers[h] = response.headers[h]
      BY <1>1, <3>2, AddHeaderGives
    <3> QED
      BY <1>1, <3>1, <3>3 DEF name
  <2>3. /\ step' = "returned" /\ response' = r /\ wrappers' = wrappers
        /\ body' = [kind |-> "file", content |-> opened, coded |-> 0]
        /\ ~r.raised
    BY <1>3, <2>1, <2>2 DEF FileSize, Return, IsResponse
  <2>4. HandlerInv'
    BY <1>1, <2>2, <2>3
    DEF IInv, HandlerInv, TypeInv, AskInv, StackInv, StaticInv, PagesInv, IsBody,
        server, disk, Returned
  <2>5. BodyInv' /\ TagInv' /\ LogInv'
    BY <1>1, <2>2, <2>3 DEF BodyInv, TagInv, LogInv, server, disk, Answered
  <2>6. CodingInv'
    BY <1>1, <2>2, <2>3 DEF CodingInv, Answered
  <2>7. LengthInv'
    BY <2>3 DEF LengthInv
  <2>8. ToldInv'
    BY <1>1, <2>2, <2>3 DEF ToldInv, NotModifiedInv, ShownInv, AccountInv, server
  <2>9. ClientInv'
    BY <1>1, <2>3, ClientKept DEF IInv, server
  <2> QED
    BY <2>4, <2>5, <2>6, <2>7, <2>8, <2>9 DEF IInv, WrappedInv
<1> QED
  BY <1>2, <1>3

\* Nothing is claimed of a file on disk once it was opened, but that it is the
\* open one until its mtime is read or it is replaced.
LEMMA ReplacedStep ==
  ASSUME IInv, Replaced
  PROVE  IInv'
<1>1. /\ UNCHANGED <<server, pages, cgi_environ, posted, request, step, opened, response,
                     body, wrappers, sent, client, logged>>
      /\ file' \in Version \cup {Missing}
  BY DEF Replaced
<1>5. /\ seen'.looked = seen.looked
      /\ step # "opened" => (seen'.swapped <=> seen.swapped)
      /\ step = "opened" => seen'.swapped
  <2>1. PICK b \in BOOLEAN : b <=> seen.swapped \/ step = "opened"
    OBVIOUS
  <2>2. seen' = [looked |-> seen.looked, swapped |-> b]
    BY <2>1, Zenon DEF Replaced
  <2>3. seen'.looked = seen.looked /\ seen'.swapped = b
    BY <2>2
  <2> QED
    BY <2>1, <2>3, Zenon
<1>2. HandlerInv'
  <2>2. TypeInv' /\ AskInv' /\ StackInv' /\ PagesInv'
    BY <1>1 DEF IInv, HandlerInv, TypeInv, AskInv, StackInv, PagesInv, server, Returned
  <2>3. StaticInv'
    BY <1>1, <1>5 DEF IInv, HandlerInv, StaticInv, server
  <2> QED
    BY <2>2, <2>3 DEF HandlerInv
<1>3. WrappedInv' /\ ToldInv'
  <2>1. Returned => (seen'.swapped <=> seen.swapped) /\ seen'.looked = seen.looked
    BY <1>5 DEF Returned
  <2>2. UNCHANGED <<Returned, Answered>>
    BY <1>1 DEF Returned, Answered
  <2>3. BodyInv' /\ CodingInv' /\ TagInv' /\ LogInv'
    BY <1>1, <2>1, <2>2
    DEF IInv, WrappedInv, BodyInv, CodingInv, TagInv, LogInv, Answered, server
  <2>4. LengthInv'
    BY <1>1, <2>1, <2>2 DEF IInv, WrappedInv, LengthInv, Length, Answered
  <2>5. ToldInv'
    BY <1>1, <2>1, <2>2
    DEF IInv, ToldInv, NotModifiedInv, ShownInv, AccountInv, Answered, server, client
  <2> QED
    BY <2>3, <2>4, <2>5 DEF WrappedInv
<1>4. ClientInv'
  <2>1. Final' = Final
    BY <1>1 DEF Final
  <2>2. UNCHANGED <<sent, step, cache, request, site, body>>
    BY <1>1 DEF server, client
  <2> QED
    BY <2>1, <2>2 DEF IInv, ClientInv, SentInv, CacheInv, Header
<1> QED
  BY <1>2, <1>3, <1>4 DEF IInv

-----------------------------------------------------------------------------
(* The other applications *)

LEMMA AppReturn ==
  ASSUME IInv, step = "app", NEW r, NEW b, Plain(r, b), Return(r, b),
         UNCHANGED <<server, file, logged, request, cache, sent>>,
         DOMAIN pages' = Page, DOMAIN posted' = Page, PagesInv',
         step' = "returned" => ToldInv'
  PROVE  IInv'
<1>1. HandlerInv' /\ WrappedInv' /\ step' = "returned"
  BY PlainReturn DEF IInv, server
<1>2. ClientInv'
  BY <1>1, ClientKept DEF IInv, server
<1> QED
  BY <1>1, <1>2 DEF IInv

LEMMA HtmlIs ==
  ASSUME IInv, step = "app"
  PROVE  /\ IsResponse(Html) /\ Html.code = 200 /\ Html.cookies = <<>>
         /\ DOMAIN Html.headers = {"Date", "Server", "Content-Type"}
<1>1. PICK hs : hs = [h \in {"Content-Type"} |-> ""]
  OBVIOUS
<1>2. Html = Call(response, Status(200), hs) /\ DOMAIN hs = {"Content-Type"}
  BY <1>1 DEF Html
<1>3. response = Fresh
  BY DEF IInv, HandlerInv, StaticInv
<1>4. PICK r : r = Html
  OBVIOUS
<1>5. /\ IsResponse(r) /\ r.code = 200 /\ r.cookies = Fresh.cookies
      /\ DOMAIN r.headers = {"Date", "Server", "Content-Type"}
  BY <1>2, <1>3, <1>4, CallGives, FreshIs
<1> QED
  BY <1>4, <1>5 DEF Fresh

LEMMA RedirectIs ==
  ASSUME IInv, step = "app", NEW to, NEW page, NEW r, r = Redirect(to, page)
  PROVE  /\ IsResponse(r) /\ r.code = 302
         /\ DOMAIN r.headers = {"Date", "Server", "Content-Type", "location"}
         /\ r.headers["location"] = <<to, page>>
<1>1. PICK hs : hs = [h \in {"location", "Content-Type"} |-> <<to, page>>]
  OBVIOUS
<1>2. r = Call(response, Status(302), hs)
  BY <1>1 DEF Redirect
<1>3. response = Fresh
  BY DEF IInv, HandlerInv, StaticInv
<1> QED
  BY <1>1, <1>2, <1>3, CallGives, FreshIs

LEMMA CgiStep ==
  ASSUME IInv, NEW o \in Outputs, Cgi(o)
  PROVE  IInv'
<1>1. /\ step = "app" /\ site = "cgi" /\ response = Fresh
      /\ UNCHANGED <<server, file, pages, posted, request, cache, sent, logged>>
  BY DEF IInv, HandlerInv, StaticInv, Cgi, client
<1>2. DOMAIN pages' = Page /\ DOMAIN posted' = Page /\ PagesInv'
  BY <1>1 DEF IInv, HandlerInv, TypeInv, PagesInv
<1>3. ASSUME NEW r, NEW b, Return(r, b), Plain(r, b), r.raised \/ r.code # 304
      PROVE  IInv'
  <2>1. ToldInv'
    BY <1>1, <1>3, FreshIs
    DEF ToldInv, NotModifiedInv, ShownInv, AccountInv, Answered, server, Return
  <2> QED
    BY <1>1, <1>2, <1>3, <2>1, AppReturn
<1>4. CASE o.stderr
  <2> DEFINE c == "stderr"
  <2>1. Return(response, List(c))
    BY <1>4 DEF Cgi
  <2> HIDE DEF c
  <2>2. Plain(response, List(c))
    BY <1>1, FreshIs, ListIs DEF Plain, Lengths
  <2> QED
    BY <1>1, <1>3, <2>1, <2>2, FreshIs
<1>5. CASE ~o.stderr
  <2> DEFINE c == "script"
  <2>1. PICK hs : hs = ScriptHeaders(o)
    OBVIOUS
  <2>6. /\ DOMAIN hs = {"Content-Type"} \cup o.length /\ o.length \subseteq Lengths
        /\ \A h \in o.length : hs[h] = Length(List(c))
    <3>1. o.length \subseteq Lengths /\ "Content-Type" \notin Lengths
      BY DEF Outputs, Lengths
    <3> QED
      BY <2>1, <3>1 DEF ScriptHeaders
  <2>2. PICK r : r = Call(response, StatusOf(o), hs)
    OBVIOUS
  <2>3. Return(r, List(c))
    BY <1>5, <2>1, <2>2 DEF Cgi
  <2> HIDE DEF c
  <2>4. CASE ~StatusOf(o).reason
    <3>1. r = Raised
      BY <2>2, <2>4 DEF Call
    <3> QED
      BY <1>3, <2>3, <3>1, FreshIs DEF Plain
  <2>5. CASE StatusOf(o).reason
    <3>1. PICK code \in {200, 404} : StatusOf(o) = Status(code)
      <4>1. CASE o.headers /\ ~o.line
        BY <4>1 DEF StatusOf
      <4>2. CASE ~(o.headers /\ ~o.line)
        <5>1. PICK reason : reason = (o.headers /\ o.reason)
          BY Zenon
        <5>2. StatusOf(o) = [code |-> 404, reason |-> reason]
          BY <4>2, <5>1, Zenon DEF StatusOf
        <5>3. reason = TRUE
          <6>1. StatusOf(o).reason = reason
            BY <5>2
          <6>2. reason
            BY <2>5, <6>1, Zenon
          <6> QED
            BY <5>1, <6>2, Zenon
        <5>4. StatusOf(o) = Status(404)
          BY <5>2, <5>3, Zenon DEF Status
        <5> QED
          BY <5>4
      <4> QED
        BY <4>1, <4>2
    <3>2. /\ IsResponse(r) /\ r.code = code
          /\ DOMAIN r.headers = DOMAIN hs \cup {"Date", "Server"}
          /\ \A h \in DOMAIN hs : r.headers[h] = hs[h]
      <4>1. r = Call(response, Status(code), hs)
        BY <2>2, <3>1
      <4> QED
        BY <1>1, <4>1, CallGives, FreshIs
    <3>4. \A h \in Lengths \cap DOMAIN r.headers : r.headers[h] = Length(List(c))
      <4>1. Lengths \cap {"Date", "Server", "Content-Type"} = {}
        BY DEF Lengths
      <4> QED
        BY <2>6, <3>2, <4>1
    <3>3. Plain(r, List(c))
      BY <2>6, <3>2, <3>4, ListIs DEF Plain
    <3> QED
      BY <1>3, <2>3, <3>2, <3>3
  <2> QED
    BY <2>4, <2>5
<1> QED
  BY <1>4, <1>5

LEMMA DisplayGives ==
  ASSUME IInv, step = "app", site = "wiki", NEW p \in Page, Display(p)
  PROVE  \E r, b :
            /\ Return(r, b) /\ Plain(r, b) /\ r.code # 304
            /\ Norm[p] \in Writable \cap Lettered =>
                  IF posted[FileOf[Norm[p]]] = Missing
                  THEN /\ r.code = 302 /\ "location" \in DOMAIN r.headers
                       /\ r.headers["location"] = <<"edit", Norm[p]>>
                  ELSE r.code = 200 /\ b.content = posted[FileOf[Norm[p]]]
<1>1. CASE Norm[p] \notin Lettered
  <2>1. PICK r : r = Redirect("index", "")
    OBVIOUS
  <2>2. IsResponse(r) /\ r.code = 302
        /\ DOMAIN r.headers = {"Date", "Server", "Content-Type", "location"}
    <3> DEFINE to == "index"
               page == ""
    <3>1. r = Redirect(to, page)
      BY <2>1
    <3> HIDE DEF to, page
    <3> QED
      BY <3>1, RedirectIs
  <2>3. Return(r, Empty) /\ Plain(r, Empty)
    BY <1>1, <2>1, <2>2, EmptyIs DEF Display, Plain, Lengths
  <2> QED
    BY <1>1, <2>2, <2>3
<1>2. CASE Norm[p] \in Lettered /\ ~Exists(Norm[p])
  <2>1. PICK r : r = Redirect("edit", Norm[p])
    OBVIOUS
  <2>2. IsResponse(r) /\ r.code = 302 /\ r.headers["location"] = <<"edit", Norm[p]>>
        /\ DOMAIN r.headers = {"Date", "Server", "Content-Type", "location"}
    <3> DEFINE to == "edit"
    <3>1. r = Redirect(to, Norm[p])
      BY <2>1
    <3> HIDE DEF to
    <3>2. IsResponse(r) /\ r.code = 302 /\ r.headers["location"] = <<to, Norm[p]>>
          /\ DOMAIN r.headers = {"Date", "Server", "Content-Type", "location"}
      BY <3>1, RedirectIs
    <3> QED
      BY <3>2 DEF to
  <2>3. Return(r, Empty) /\ Plain(r, Empty)
    BY <1>2, <2>1, <2>2, EmptyIs DEF Display, Plain, Lengths
  <2>4. Norm[p] \in Writable => posted[FileOf[Norm[p]]] = Missing
    BY <1>2 DEF Exists, IInv, HandlerInv, PagesInv
  <2> QED
    BY <2>2, <2>3, <2>4
<1>3. CASE Norm[p] \in Lettered /\ Exists(Norm[p])
  <2>1. PICK b : b = List(pages[FileOf[Norm[p]]])
    OBVIOUS
  <2>2. IsBody(b) /\ b.kind = "list" /\ b.coded = 0
        /\ b.content = pages[FileOf[Norm[p]]]
    BY <2>1, ListIs
  <2>3. Return(Html, b) /\ Plain(Html, b)
    BY <1>3, <2>1, <2>2, HtmlIs DEF Display, Plain, Lengths
  <2>4. Norm[p] \in Writable => /\ posted[FileOf[Norm[p]]] # Missing
                                /\ b.content = posted[FileOf[Norm[p]]]
    BY <1>3, <2>2 DEF Exists, IInv, HandlerInv, PagesInv
  <2>5. IsResponse(Html) /\ Html.code = 200
    BY HtmlIs
  <2> QED
    BY <2>3, <2>4, <2>5
<1> QED
  BY <1>1, <1>2, <1>3

LEMMA EditFormGives ==
  ASSUME IInv, step = "app", NEW p, EditForm(p)
  PROVE  \E r, b : Return(r, b) /\ Plain(r, b) /\ r.code # 304
<1>1. PICK c : c = IF Exists(p) THEN pages[FileOf[p]] ELSE ""
  OBVIOUS
<1>2. Return(Html, List(c))
  BY <1>1 DEF EditForm
<1>3. Plain(Html, List(c)) /\ Html.code = 200
  BY HtmlIs, ListIs DEF Plain, Lengths
<1> QED
  BY <1>2, <1>3

LEMMA RedirectGives ==
  ASSUME IInv, step = "app", NEW to, NEW page, Return(Redirect(to, page), Empty)
  PROVE  \E r, b : Return(r, b) /\ Plain(r, b) /\ r.code # 304
<1>1. PICK r : r = Redirect(to, page)
  OBVIOUS
<1>2. Plain(r, Empty) /\ r.code = 302
  BY <1>1, RedirectIs, EmptyIs DEF Plain, Lengths
<1> QED
  BY <1>1, <1>2

\* A page is the file's content whenever it can be written.
LEMMA PostGives ==
  ASSUME IInv, step = "app", NEW p \in Page, NEW content, Post(p, content),
         posted' = [posted EXCEPT ![FileOf[p]] = IF content = "" THEN Missing ELSE content]
  PROVE  /\ DOMAIN pages' = Page /\ DOMAIN posted' = Page /\ PagesInv'
         /\ \E r, b : Return(r, b) /\ Plain(r, b) /\ r.code # 304
<1> DEFINE index == "index"
           show == "display"
           none == ""
<1>1. /\ DOMAIN pages = Page /\ DOMAIN posted = Page /\ Writable \subseteq Page /\ "" \notin Writable
      /\ \A q \in Writable : pages[FileOf[q]] = posted[FileOf[q]] /\ FileOf[q] \in Page
      /\ FileOf[p] \in Page
      /\ \A w \in Writable : FileOf[w] = FileOf[p] => p \in Writable
  BY ConstantsAssumption DEF IInv, HandlerInv, TypeInv, PagesInv
<1>2. CASE p = "" \/ (content # "" /\ p \notin Writable)
  <2>1. EditForm(p) /\ pages' = pages
    BY <1>2 DEF Post
  <2>2. PagesInv' /\ DOMAIN posted' = Page
    BY <1>1, <1>2, <2>1 DEF PagesInv
  <2> QED
    BY <1>1, <2>1, <2>2, EditFormGives
<1>3. CASE p # "" /\ content = ""
  <2>1. pages' = [pages EXCEPT ![FileOf[p]] = Missing] /\ Return(Redirect(index, none), Empty)
    BY <1>3 DEF Post
  <2>2. PagesInv' /\ DOMAIN posted' = Page /\ DOMAIN pages' = Page
    BY <1>1, <1>3, <2>1 DEF PagesInv
  <2> HIDE DEF index, none
  <2> QED
    BY <2>1, <2>2, RedirectGives
<1>4. CASE p # "" /\ content # "" /\ p \in Writable
  <2>1. pages' = [pages EXCEPT ![FileOf[p]] = content] /\ Return(Redirect(show, p), Empty)
    BY <1>4 DEF Post
  <2>2. PagesInv' /\ DOMAIN posted' = Page /\ DOMAIN pages' = Page
    BY <1>1, <1>4, <2>1 DEF PagesInv
  <2> HIDE DEF show
  <2> QED
    BY <2>1, <2>2, RedirectGives
<1> QED
  BY <1>2, <1>3, <1>4

LEMMA WikiStep ==
  ASSUME IInv, Wiki
  PROVE  IInv'
<1>1. /\ step = "app" /\ site = "wiki" /\ request.ask.page \in Page
      /\ UNCHANGED <<server, file, request, cache, sent, logged, seen>>
  BY DEF IInv, HandlerInv, AskInv, Wiki, client
<1> DEFINE ask == request.ask
           p == ask.page
<1>2. DOMAIN pages = Page /\ DOMAIN posted = Page /\ PagesInv
  BY DEF IInv, HandlerInv, TypeInv
<1>3. UNCHANGED <<pages, posted>> => DOMAIN pages' = Page /\ DOMAIN posted' = Page /\ PagesInv'
  BY <1>2 DEF PagesInv
<1>4. ASSUME NEW r, NEW b, Return(r, b), Plain(r, b), r.code # 304, ask.do # "display",
             DOMAIN pages' = Page, DOMAIN posted' = Page, PagesInv'
      PROVE  IInv'
  <2>1. response' = r
    BY <1>4 DEF Return
  <2>2. ToldInv'
    BY <1>1, <1>4, <2>1 DEF ToldInv, NotModifiedInv, ShownInv, AccountInv, server
  <2> QED
    BY <1>1, <1>4, <2>2, AppReturn
<1>5. CASE ask.do = "display"
  <2>1. Display(p) /\ UNCHANGED <<pages, posted>>
    BY <1>5 DEF Wiki
  <2>2. PICK r, b :
            /\ Return(r, b) /\ Plain(r, b) /\ r.code # 304
            /\ Norm[p] \in Writable \cap Lettered =>
                  IF posted[FileOf[Norm[p]]] = Missing
                  THEN /\ r.code = 302 /\ "location" \in DOMAIN r.headers
                       /\ r.headers["location"] = <<"edit", Norm[p]>>
                  ELSE r.code = 200 /\ b.content = posted[FileOf[Norm[p]]]
    BY <1>1, <2>1, DisplayGives
  <2>3. response' = r /\ (~r.raised => body' = b)
    BY <2>2 DEF Return
  <2>4. NotModifiedInv' /\ AccountInv'
    BY <1>1, <2>2, <2>3 DEF NotModifiedInv, AccountInv, server
  <2>5. ShownInv'
    BY <1>1, <2>1, <2>2, <2>3 DEF ShownInv, Answered
  <2> QED
    BY <1>1, <1>3, <2>1, <2>2, <2>4, <2>5, AppReturn DEF ToldInv
<1>6. CASE ask.do = "edit"
  <2>1. EditForm(p) /\ UNCHANGED <<pages, posted>>
    BY <1>6 DEF Wiki
  <2> QED
    BY <1>1, <1>3, <1>4, <1>6, <2>1, EditFormGives
<1>7. CASE ask.do = "index"
  <2> DEFINE c == "index"
  <2>1. Return(Html, List(c)) /\ UNCHANGED <<pages, posted>>
    BY <1>7 DEF Wiki
  <2> HIDE DEF c
  <2>2. Plain(Html, List(c)) /\ Html.code = 200
    BY <1>1, HtmlIs, ListIs DEF Plain, Lengths
  <2> QED
    BY <1>3, <1>4, <1>7, <2>1, <2>2
<1>8. CASE ask.do = "post"
  <2>0. PICK c, q : c = ask.content /\ q = p
    OBVIOUS
  <2>1. /\ Post(q, c) /\ q \in Page
        /\ posted' = [posted EXCEPT ![FileOf[q]] = IF c = "" THEN Missing ELSE c]
    BY <1>1, <1>8, <2>0 DEF Wiki
  <2>2. /\ DOMAIN pages' = Page /\ DOMAIN posted' = Page /\ PagesInv'
        /\ \E r, b : Return(r, b) /\ Plain(r, b) /\ r.code # 304
    BY <1>1, <2>1, PostGives
  <2> QED
    BY <1>4, <1>8, <2>2
<1> QED
  BY <1>5, <1>6, <1>7, <1>8 DEF Wiki

LEMMA HelloStep ==
  ASSUME IInv, Hello
  PROVE  IInv'
<1>1. /\ step = "app" /\ site = "hello" /\ response = Fresh
      /\ UNCHANGED <<server, disk, request, cache, sent, logged, seen>>
  BY DEF IInv, HandlerInv, StaticInv, Hello, client
<1>2. DOMAIN pages' = Page /\ DOMAIN posted' = Page /\ PagesInv'
  BY <1>1 DEF IInv, HandlerInv, TypeInv, PagesInv, disk
<1>3. PICK c : c = "hello"
  OBVIOUS
<1>4. PICK r, b : /\ Return(r, b) /\ Plain(r, b) /\ r.code = 200
  <2>1. CASE request.ask.do = "hello"
    <3>1. Return(Html, List(c))
      BY <1>3, <2>1 DEF Hello
    <3>2. Plain(Html, List(c)) /\ Html.code = 200
      BY <1>1, HtmlIs, ListIs DEF Plain, Lengths
    <3> QED
      BY <3>1, <3>2
  <2>2. CASE request.ask.do # "hello"
    <3>1. PICK b : b = [List(c) EXCEPT !.kind = "iter"]
      OBVIOUS
    <3>2. Return(response, b)
      BY <1>3, <2>2, <3>1 DEF Hello
    <3>3. PICK l : l = List(c)
      OBVIOUS
    <3>4. IsBody(b) /\ b.kind = "iter" /\ b.coded = 0
      BY <3>1, <3>3, ListIs DEF IsBody
    <3>5. Plain(response, b)
      BY <1>1, <3>4, FreshIs DEF Plain, Lengths
    <3> QED
      BY <1>1, <3>2, <3>5, FreshIs
  <2> QED
    BY <2>1, <2>2
<1>5. response' = r
  BY <1>4 DEF Return
<1>6. ToldInv'
  BY <1>1, <1>4, <1>5 DEF ToldInv, NotModifiedInv, ShownInv, AccountInv, server
<1> QED
  BY <1>1, <1>2, <1>4, <1>6, AppReturn DEF disk

LEMMA AccountStep ==
  ASSUME IInv, Account
  PROVE  IInv'
<1>1. /\ step = "app" /\ site = "account" /\ request.ask.do \in {"login", "logout", "expire"}
      /\ UNCHANGED <<server, disk, request, cache, sent, logged, seen>>
  BY DEF IInv, HandlerInv, AskInv, Account, client
<1>2. DOMAIN pages' = Page /\ DOMAIN posted' = Page /\ PagesInv'
  BY <1>1 DEF IInv, HandlerInv, TypeInv, PagesInv, disk
<1> DEFINE key == "user"
           val == "u"
           acc == "account"
<1>3. PICK r :
        /\ Return(r, List(acc))
        /\ \/ r = Raised
           \/ /\ IsResponse(r) /\ r.code = 200
              /\ DOMAIN r.headers = {"Date", "Server", "Content-Type"}
              /\ request.ask.do # "login" => key \in DOMAIN r.cookies /\ r.cookies[key].age = "0"
  <2>1. PICK html : html = Html
    OBVIOUS
  <2>2. /\ IsResponse(html) /\ html.code = 200 /\ html.cookies = <<>>
        /\ DOMAIN html.headers = {"Date", "Server", "Content-Type"}
    BY <1>1, <2>1, HtmlIs
  <2>3. CASE request.ask.do = "login"
    <3>1. PICK r : r = SetCookie(html, key, val)
      OBVIOUS
    <3>2. Return(r, List(acc))
      BY <2>1, <2>3, <3>1 DEF Account
    <3> HIDE DEF key, val
    <3>3. IsResponse(r) /\ r.code = html.code /\ r.headers = html.headers
      BY <2>2, <3>1, SetCookieGives
    <3> QED
      BY <2>2, <2>3, <3>2, <3>3
  <2>4. CASE request.ask.do = "logout"
    <3>1. Return(DeleteCookie(html, key), List(acc))
      BY <2>1, <2>4 DEF Account
    <3>2. DeleteCookie(html, key) = Raised
      BY <2>2 DEF DeleteCookie, NoCookies
    <3> QED
      BY <3>1, <3>2
  <2>5. CASE request.ask.do = "expire"
    <3>1. PICK r : r = DeleteCookie(SetCookie(html, key, val), key)
      OBVIOUS
    <3>2. Return(r, List(acc))
      BY <2>1, <2>5, <3>1 DEF Account
    <3> HIDE DEF key, val
    <3>3. /\ IsResponse(r) /\ r.code = html.code /\ r.headers = html.headers
          /\ key \in DOMAIN r.cookies /\ r.cookies[key].age = "0"
      BY <2>2, <3>1, CookieDeleted
    <3> QED
      BY <2>2, <3>2, <3>3
  <2> QED
    BY <1>1, <2>3, <2>4, <2>5
<1>4. Plain(r, List(acc))
  <2> HIDE DEF acc
  <2> QED
    BY <1>3, ListIs DEF Plain, Lengths
<1>5. response' = r
  BY <1>3 DEF Return
<1>6. NotModifiedInv' /\ ShownInv'
  BY <1>1, <1>3, <1>5, FreshIs DEF NotModifiedInv, ShownInv, Answered, server
<1>7. step' = "returned" => AccountInv'
  BY <1>1, <1>3, <1>5, FreshIs DEF AccountInv, Answered, server
<1> HIDE DEF acc
<1> QED
  BY <1>1, <1>2, <1>3, <1>4, <1>6, <1>7, AppReturn DEF disk, ToldInv

-----------------------------------------------------------------------------
(* The wrappers, and what is sent *)

\* The wrapper that is run is one of the stack, and is not among the rest.
LEMMA NextWrapper ==
  ASSUME TypeInv, StackInv, wrappers # <<>>
  PROVE  /\ Tail(wrappers) \in Seq({"gzip", "log"})
         /\ Len(Tail(wrappers)) = Len(wrappers) - 1
         /\ \A i \in DOMAIN Tail(wrappers) :
                /\ Tail(wrappers)[i] = wrappers[i + 1] /\ i + 1 \in DOMAIN wrappers
                /\ Tail(wrappers)[i] = stack[Len(stack) - (Len(wrappers) - 1) + i]
                /\ Tail(wrappers)[i] # Head(wrappers)
         /\ stack[Len(stack)] = Head(wrappers) => Tail(wrappers) = <<>>
<1>1. stack \in Seq({"gzip", "log"}) /\ \A i, j \in DOMAIN stack : stack[i] = stack[j] => i = j
  BY ConstantsAssumption, WrappersAssumption DEF TypeInv
<1>2. PICK w : w = wrappers
  OBVIOUS
<1>3. PICK s : s = stack
  OBVIOUS
<1>4. /\ w \in Seq({"gzip", "log"}) /\ Len(w) <= Len(s) /\ w # <<>>
      /\ \A i \in DOMAIN w : w[i] = s[Len(s) - Len(w) + i]
      /\ s \in Seq({"gzip", "log"}) /\ \A i, j \in DOMAIN s : s[i] = s[j] => i = j
  BY <1>1, <1>2, <1>3 DEF StackInv
<1>5. /\ Len(w) \in Nat /\ Len(w) > 0 /\ Len(s) \in Nat
      /\ DOMAIN w = 1 .. Len(w) /\ DOMAIN s = 1 .. Len(s)
      /\ Head(w) = w[1]
  BY <1>4
<1>6. /\ Tail(w) \in Seq({"gzip", "log"}) /\ Len(Tail(w)) = Len(w) - 1
      /\ DOMAIN Tail(w) = 1 .. Len(w) - 1
      /\ \A i \in 1 .. Len(w) - 1 : Tail(w)[i] = w[i + 1]
  BY <1>4
<1>7. Head(w) = s[Len(s) - Len(w) + 1] /\ Len(s) - Len(w) + 1 \in DOMAIN s
  BY <1>4, <1>5
<1>8. ASSUME NEW i \in DOMAIN Tail(w)
      PROVE  /\ Tail(w)[i] = w[i + 1] /\ i + 1 \in DOMAIN w
             /\ Tail(w)[i] = s[Len(s) - (Len(w) - 1) + i]
             /\ Tail(w)[i] # Head(w)
  <2>1. i \in Nat /\ i >= 1 /\ i <= Len(w) - 1
    BY <1>5, <1>6, <1>8
  <2>2. Tail(w)[i] = w[i + 1] /\ i + 1 \in DOMAIN w
    BY <1>5, <1>6, <2>1
  <2>3. w[i + 1] = s[Len(s) - Len(w) + (i + 1)]
    BY <1>4, <2>2
  <2>4. /\ Len(s) - Len(w) + (i + 1) = Len(s) - (Len(w) - 1) + i
        /\ Len(s) - Len(w) + (i + 1) \in DOMAIN s
        /\ Len(s) - Len(w) + (i + 1) # Len(s) - Len(w) + 1
    BY <1>4, <1>5, <2>1
  <2> QED
    BY <1>4, <1>7, <2>2, <2>3, <2>4
<1>9. ASSUME s[Len(s)] = Head(w)  PROVE Tail(w) = <<>>
  <2>1. Len(s) = Len(s) - Len(w) + 1
    BY <1>4, <1>5, <1>7, <1>9
  <2>2. PICK rest : rest = Tail(w)
    OBVIOUS
  <2>3. rest \in Seq({"gzip", "log"}) /\ Len(rest) = 0
    BY <1>5, <1>6, <2>1, <2>2
  <2>4. rest = <<>>
    BY <2>3
  <2> QED
    BY <2>2, <2>4
<1> QED
  BY <1>2, <1>3, <1>6, <1>8, <1>9

\* A wrapper that raises.
LEMMA WrapperRaises ==
  ASSUME IInv, step = "returned", Return(Raised, Empty), logged' = logged,
         UNCHANGED <<server, disk, request, cache, sent>>,
         wrappers # <<>>
  PROVE  IInv'
<1>1. /\ step' = "returned" /\ response' = Raised /\ wrappers' = <<>>
      /\ IsBody(body') /\ body'.kind = "list" /\ body'.coded = 0
  <2> DEFINE c == "error"
  <2>1. step' = "returned" /\ response' = Raised /\ wrappers' = <<>> /\ body' = List(c)
    BY FreshIs DEF Return
  <2> HIDE DEF c
  <2> QED
    BY <2>1, ListIs
<1>2. logged # None => stack[Len(stack)] # "log"
  BY DEF IInv, WrappedInv, LogInv, Returned
<1>3. HandlerInv'
  <2>1. TypeInv' /\ AskInv' /\ StaticInv' /\ PagesInv'
    BY <1>1 DEF IInv, HandlerInv, TypeInv, AskInv, StaticInv, PagesInv, server, disk
  <2>2. stack \in Seq({"gzip", "log"})
    BY ConstantsAssumption DEF IInv, HandlerInv, TypeInv
  <2>3. StackInv'
    BY <1>1, <2>2 DEF StackInv, Returned, server
  <2> QED
    BY <2>1, <2>3 DEF HandlerInv
<1>4. WrappedInv'
  BY <1>1, <1>2, FreshIs
  DEF WrappedInv, BodyInv, CodingInv, LengthInv, TagInv, LogInv, Answered, server
<1>5. ToldInv'
  BY <1>1, FreshIs DEF ToldInv, NotModifiedInv, ShownInv, AccountInv, Answered
<1>6. ClientInv'
  BY <1>1, ClientKept DEF IInv, server
<1> QED
  BY <1>3, <1>4, <1>5, <1>6 DEF IInv

LEMMA GzipStep ==
  ASSUME IInv, Gzip
  PROVE  IInv'
<1>1. /\ step = "returned" /\ wrappers # <<>> /\ Head(wrappers) = "gzip"
      /\ UNCHANGED <<server, disk, request, cache, jar, sent, logged, seen>>
  BY DEF Gzip, client
<1>2. TypeInv /\ StackInv
  BY DEF IInv, HandlerInv
<1>3. /\ ~response.raised /\ IsResponse(response)
      /\ logged # None => stack[Len(stack)] # "log"
      /\ body.coded = 0 /\ "Content-Encoding" \notin DOMAIN response.headers
  <2>1. 1 \in DOMAIN wrappers /\ wrappers[1] = "gzip"
    BY <1>1, <1>2 DEF StackInv
  <2>2. ~response.raised
    BY <1>1 DEF IInv, WrappedInv, BodyInv, Returned
  <2>3. body.coded = 0 /\ "Content-Encoding" \notin DOMAIN response.headers
    BY <1>1, <2>1, <2>2 DEF IInv, WrappedInv, CodingInv, Answered, Returned
  <2>4. logged # None => stack[Len(stack)] # "log"
    BY <1>1 DEF IInv, WrappedInv, LogInv, Returned
  <2> QED
    BY <1>2, <2>2, <2>3, <2>4, FreshIs DEF TypeInv
<1>4. ASSUME wrappers' = Tail(wrappers), step' = step,
             IsResponse(response'), IsBody(body')
      PROVE  HandlerInv'
  <2>1. TypeInv' /\ AskInv' /\ StaticInv' /\ PagesInv'
    BY <1>1, <1>4 DEF IInv, HandlerInv, TypeInv, AskInv, StaticInv, PagesInv, server, disk
  <2>2. StackInv'
    BY <1>1, <1>2, <1>4, NextWrapper DEF StackInv, Returned, server
  <2> QED
    BY <2>1, <2>2 DEF HandlerInv
<1>5. \A i \in DOMAIN Tail(wrappers) : Tail(wrappers)[i] # "gzip"
  BY <1>1, <1>2, NextWrapper
<1>6. CASE ~request.gzip
  <2>1. wrappers' = Tail(wrappers) /\ UNCHANGED <<response, body, step>>
    BY <1>6 DEF Gzip
  <2>2. HandlerInv'
    BY <1>2, <1>3, <1>4, <2>1 DEF TypeInv
  <2>3. WrappedInv'
    BY <1>1, <1>3, <1>5, <2>1
    DEF IInv, WrappedInv, BodyInv, CodingInv, LengthInv, TagInv, LogInv, Answered,
        Returned, Length, server, disk
  <2>4. ToldInv'
    BY <1>1, <2>1 DEF IInv, ToldInv, NotModifiedInv, ShownInv, AccountInv, Answered,
                      Returned, server, disk
  <2>5. ClientInv'
    BY <1>1, <2>1, ClientKept DEF IInv, server
  <2> QED
    BY <2>2, <2>3, <2>4, <2>5 DEF IInv
<1>7. CASE request.gzip /\ body.kind = "iter"
  <2>1. Return(Raised, Empty)
    BY <1>7 DEF Gzip
  <2> QED
    BY <1>1, <2>1, WrapperRaises
<1>8. CASE request.gzip /\ body.kind # "iter"
  <2> DEFINE ce == "Content-Encoding"
             cl == "Content-Length"
             gzip == "gzip"
  <2>1. PICK r : r = AddHeader(response, ce, gzip)
    OBVIOUS
  <2>2. PICK size : size = Length(body')
    OBVIOUS
  <2>3. PICK q : q = AddHeader(r, cl, size)
    OBVIOUS
  <2>4. /\ body' = [body EXCEPT !.kind = "list", !.coded = @ + 1]
        /\ response' = q /\ wrappers' = Tail(wrappers) /\ step' = step
    BY <1>8, <2>1, <2>2, <2>3 DEF Gzip
  <2>5. /\ IsBody(body') /\ body'.kind = "list" /\ body'.coded = 1
        /\ body'.content = body.content
    BY <1>2, <1>3, <2>4 DEF TypeInv, IsBody
  <2> HIDE DEF ce, cl, gzip
  <2>6. /\ IsResponse(r) /\ r.code = response.code /\ r.cookies = response.cookies
        /\ DOMAIN r.headers = DOMAIN response.headers \cup {ce}
        /\ \A h \in DOMAIN response.headers \ {ce} : r.headers[h] = response.headers[h]
    BY <1>3, <2>1, AddHeaderGives
  <2>7. /\ IsResponse(q) /\ q.code = r.code /\ q.cookies = r.cookies
        /\ DOMAIN q.headers = DOMAIN r.headers \cup {cl}
        /\ q.headers[cl] = size
        /\ \A h \in DOMAIN r.headers \ {cl} : q.headers[h] = r.headers[h]
    BY <2>3, <2>6, AddHeaderGives
  <2>8. /\ IsResponse(response') /\ ~response'.raised /\ response'.code = response.code
        /\ response'.cookies = response.cookies
        /\ DOMAIN response'.headers =
               DOMAIN response.headers \cup {"Content-Encoding", "Content-Length"}
        /\ response'.headers["Content-Length"] = Length(body')
        /\ \A h \in DOMAIN response.headers \ {"Content-Encoding", "Content-Length"} :
               response'.headers[h] = response.headers[h]
    BY <2>2, <2>4, <2>6, <2>7 DEF ce, cl, IsResponse
  <2>9. HandlerInv'
    BY <1>4, <2>4, <2>5, <2>8
  <2>10. BodyInv' /\ LogInv'
    BY <1>1, <1>3, <2>4, <2>5, <2>8 DEF BodyInv, LogInv, server
  <2>11. CodingInv'
    BY <1>1, <1>5, <1>8, <2>4, <2>5, <2>8 DEF CodingInv
  <2>12. LengthInv'
    BY <2>5, <2>8 DEF LengthInv
  <2>13. TagInv'
    BY <1>1, <1>3, <2>4, <2>5, <2>8 DEF IInv, WrappedInv, TagInv, Answered, Returned
  <2>14. NotModifiedInv'
    BY <1>1, <1>3, <2>4, <2>8
    DEF IInv, ToldInv, NotModifiedInv, Answered, Returned, server, disk
  <2>15. AccountInv'
    BY <1>1, <1>3, <2>4, <2>8 DEF IInv, ToldInv, AccountInv, Answered, Returned, server
  <2>16. ShownInv'
    BY <1>1, <1>3, <2>4, <2>5, <2>8
    DEF IInv, ToldInv, ShownInv, Answered, Returned, server, disk
  <2>17. ClientInv'
    BY <1>1, <2>4, ClientKept DEF IInv, server
  <2> QED
    BY <2>9, <2>10, <2>11, <2>12, <2>13, <2>14, <2>15, <2>16, <2>17
    DEF IInv, WrappedInv, ToldInv
<1> QED
  BY <1>6, <1>7, <1>8

LEMMA LogStep ==
  ASSUME IInv, Log
  PROVE  IInv'
<1>1. /\ step = "returned" /\ wrappers # <<>> /\ Head(wrappers) = "log"
      /\ UNCHANGED <<server, disk, request, cache, jar, sent, seen>>
  BY DEF Log, client
<1>2. TypeInv /\ StackInv
  BY DEF IInv, HandlerInv
<1>3. ~response.raised /\ IsResponse(response)
  <2>1. ~response.raised
    BY <1>1 DEF IInv, WrappedInv, BodyInv, Returned
  <2> QED
    BY <1>2, <2>1, FreshIs DEF TypeInv
<1>4. CASE ~request.host \/ (body.kind = "file" /\ file = Missing)
  <2>1. Return(Raised, Empty) /\ logged' = logged
    BY <1>4 DEF Log
  <2> QED
    BY <1>1, <2>1, WrapperRaises
<1>5. CASE ~(~request.host \/ (body.kind = "file" /\ file = Missing))
  <2>1. /\ logged' = [code |-> response.code,
                      size |-> CASE body.kind = "list" -> Length(body)
                                 [] body.kind = "file" -> <<file, 0>>
                                 [] OTHER              -> "-"]
        /\ wrappers' = Tail(wrappers)
        /\ UNCHANGED <<response, body, step>>
    BY <1>5 DEF Log
  <2>2. HandlerInv'
    <3>1. TypeInv' /\ AskInv' /\ StaticInv' /\ PagesInv'
      BY <1>1, <2>1 DEF IInv, HandlerInv, TypeInv, AskInv, StaticInv, PagesInv, server, disk
    <3>2. StackInv'
      BY <1>1, <1>2, <2>1, NextWrapper DEF StackInv, Returned, server
    <3> QED
      BY <3>1, <3>2 DEF HandlerInv
  <2>3. BodyInv' /\ LengthInv' /\ TagInv'
    BY <1>1, <1>3, <2>1
    DEF IInv, WrappedInv, BodyInv, LengthInv, TagInv, Answered, Returned, Length,
        server, disk
  <2>4. CodingInv'
    BY <1>1, <1>2, <1>3, <2>1, NextWrapper
    DEF IInv, WrappedInv, CodingInv, Answered, Returned
  <2>5. LogInv'
    <3>1. stack[Len(stack)] = "log" => wrappers' = <<>>
      BY <1>1, <1>2, <2>1, NextWrapper
    <3>2. logged'.code = response.code /\ (body.kind = "list" => logged'.size = Length(body))
      BY <2>1
    <3>3. Length(body)' = Length(body)
      BY <2>1 DEF Length
    <3> QED
      BY <1>1, <1>3, <2>1, <3>1, <3>2, <3>3 DEF LogInv, server
  <2>6. ToldInv'
    BY <1>1, <2>1 DEF IInv, ToldInv, NotModifiedInv, ShownInv, AccountInv, Answered,
                      Returned, server, disk
  <2>7. ClientInv'
    BY <1>1, <2>1, ClientKept DEF IInv, server
  <2> QED
    BY <2>2, <2>3, <2>4, <2>5, <2>6, <2>7 DEF IInv, WrappedInv
<1> QED
  BY <1>4, <1>5

\* What is sent is what was returned, and the client keeps it.
LEMMA SendStep ==
  ASSUME IInv, Send
  PROVE  IInv'
<1>1. /\ step = "returned" /\ step' = "sent"
      /\ UNCHANGED <<server, disk, request, opened, response, body, wrappers, logged, seen>>
      /\ sent' = [head |-> Header(Final), body |-> body, request |-> request]
  BY DEF Send
<1>2. TypeInv /\ BodyInv /\ Returned
  BY <1>1 DEF IInv, HandlerInv, WrappedInv, Returned
<1>3. /\ Header(Final).code = Final.code
      /\ Header(Final).headers = Final.headers
      /\ Header(Final).cookies = Final.cookies
  BY DEF Header
<1>4. HandlerInv'
  BY <1>1 DEF IInv, HandlerInv, TypeInv, AskInv, StackInv, StaticInv, PagesInv,
              server, disk, Returned
<1>5. WrappedInv'
  BY <1>1 DEF IInv, WrappedInv, BodyInv, CodingInv, LengthInv, TagInv, LogInv, Length,
              Answered, Returned, server, disk
<1>6. NotModifiedInv' /\ ShownInv'
  BY <1>1 DEF IInv, ToldInv, NotModifiedInv, ShownInv, Answered, Returned, server, disk
<1>7. AccountInv'
  <2> SUFFICES ASSUME Answered', site' = "account", request'.ask.do # "login"
               PROVE  /\ "user" \in DOMAIN response'.cookies
                      /\ response'.cookies["user"].age = "0"
                      /\ jar' = Missing
    BY DEF AccountInv
  <2>1. /\ ~response.raised /\ body.kind # "iter"
        /\ "user" \in DOMAIN response.cookies /\ response.cookies["user"].age = "0"
    BY <1>1, <1>2 DEF IInv, ToldInv, AccountInv, BodyInv, Answered, Returned, server
  <2>2. Final = response
    BY <1>2, <2>1, FinalIs
  <2>3. jar' = Missing
    BY <1>3, <2>1, <2>2 DEF Send
  <2> QED
    BY <1>1, <2>1, <2>3
<1>8. ClientInv'
  <2>1. Final' = Final
    BY <1>1 DEF Final
  <2>2. SentInv'
    BY <1>1, <2>1 DEF SentInv, Header
  <2>3. CASE Final.code = 200 /\ "ETag" \in DOMAIN Final.headers /\ cache' # cache
    <3>1. cache' = [etag |-> Final.headers["ETag"], content |-> body.content,
                    swapped |-> seen.swapped]
      BY <1>3, <2>3 DEF Send
    <3>2. ~response.raised /\ Final = response
      BY <1>2, <2>3, FinalIs
    <3>3. /\ response.headers["ETag"] \in Version
          /\ ~seen.swapped => response.headers["ETag"] = body.content
      BY <1>2, <2>3, <3>2 DEF IInv, WrappedInv, TagInv, Answered
    <3>4. /\ cache'.etag = response.headers["ETag"] /\ cache'.content = body.content
          /\ cache'.swapped = seen.swapped
      BY <3>1, <3>2
    <3>5. CacheInv'
      BY <1>1, <2>1, <2>3, <3>3, <3>4 DEF CacheInv
    <3> QED
      BY <2>2, <3>5 DEF ClientInv
  <2>4. CASE ~(Final.code = 200 /\ "ETag" \in DOMAIN Final.headers /\ cache' # cache)
    <3>1. cache' = cache
      BY <1>3, <2>4 DEF Send
    <3>2. CacheInv'
      BY <1>1, <2>1, <3>1 DEF IInv, ClientInv, CacheInv, server
    <3> QED
      BY <2>2, <3>2 DEF ClientInv
  <2> QED
    BY <2>3, <2>4
<1> QED
  BY <1>4, <1>5, <1>6, <1>7, <1>8 DEF IInv, ToldInv

LEMMA EndsStep ==
  ASSUME IInv, Ends
  PROVE  IInv'
<1>1. HandlerInv'
  BY FreshIs, EmptyIs
  DEF IInv, HandlerInv, TypeInv, AskInv, StackInv, StaticInv, PagesInv, Ends,
      server, disk, Returned
<1>2. WrappedInv' /\ ToldInv'
  BY NotReturned DEF Ends
<1>3. ClientInv'
  BY DEF IInv, ClientInv, SentInv, CacheInv, Ends, client
<1> QED
  BY <1>1, <1>2, <1>3 DEF IInv

LEMMA NextIInv == IInv /\ [Next]_vars => IInv'
<1> SUFFICES ASSUME IInv, [Next]_vars  PROVE IInv'
  OBVIOUS
<1>1. ASSUME NEW ask \in Asks, NEW gzip \in BOOLEAN, NEW host \in BOOLEAN,
             Arrives(ask, gzip, host)
      PROVE  IInv'
  BY <1>1, ArrivesStep
<1>2. ASSUME NEW o \in Outputs, Cgi(o)  PROVE IInv'
  BY <1>2, CgiStep
<1>3. CASE Open \/ Compare \/ FileSize \/ Replaced
  BY <1>3, OpenStep, CompareStep, FileSizeStep, ReplacedStep
<1>4. CASE Wiki \/ Hello \/ Account
  BY <1>4, WikiStep, HelloStep, AccountStep
<1>5. CASE Gzip \/ Log \/ Send \/ Ends
  BY <1>5, GzipStep, LogStep, SendStep, EndsStep
<1>6. CASE UNCHANGED vars
  <2>1. HandlerInv' /\ WrappedInv'
    BY <1>6
    DEF vars, IInv, HandlerInv, TypeInv, AskInv, StackInv, StaticInv, PagesInv,
        WrappedInv, BodyInv, CodingInv, LengthInv, TagInv, LogInv, Length, Answered, Returned
  <2>2. ToldInv'
    BY <1>6 DEF vars, IInv, ToldInv, NotModifiedInv, ShownInv, AccountInv, Answered, Returned
  <2>3. Final' = Final
    BY <1>6 DEF vars, Final
  <2>4. ClientInv'
    BY <1>6, <2>3 DEF vars, IInv, ClientInv, SentInv, CacheInv, Header
  <2> QED
    BY <2>1, <2>2, <2>4 DEF IInv
<1> QED
  BY <1>1, <1>2, <1>3, <1>4, <1>5, <1>6 DEF Next

LEMMA Invariance == Spec => []IInv
  BY InitIInv, NextIInv, PTL DEF Spec

-----------------------------------------------------------------------------

\* What is sent, said of the response the wrappers left.
LEMMA SentIs ==
  ASSUME IInv, IsSent
  PROVE  /\ step = "sent" /\ Returned /\ TypeInv /\ BodyInv
         /\ sent.body = body /\ sent.request = request
         /\ sent.head.code = Final.code
         /\ sent.head.headers = Final.headers
         /\ sent.head.cookies = Final.cookies
<1>1. step = "sent" /\ sent = [head |-> Header(Final), body |-> body, request |-> request]
  BY DEF IInv, ClientInv, SentInv, IsSent
<1>2. sent.head = Header(Final) /\ sent.body = body /\ sent.request = request
  BY <1>1
<1> QED
  BY <1>1, <1>2 DEF Header, Returned, IInv, HandlerInv, WrappedInv

\* Lengths are those of the lists that are sent, and codings those of all
\* bodies, behind any wrappers.
THEOREM HeadersAreTrue == Spec => []HeadersTrue
<1>1. IInv => HeadersTrue
  <2> SUFFICES ASSUME IInv, IsSent  PROVE HeadersTrue
    BY DEF HeadersTrue, LengthTrue, CodingTrue
  <2>1. /\ Returned /\ sent.body = body /\ sent.request = request
        /\ sent.head.headers = Final.headers /\ TypeInv /\ BodyInv
    BY SentIs
  <2>2. CASE response.raised
    <3>1. DOMAIN Final.headers = {} /\ body.coded = 0
      BY <2>1, <2>2, FinalIs DEF BodyInv
    <3> QED
      BY <2>1, <3>1 DEF HeadersTrue, LengthTrue, CodingTrue
  <2>3. CASE ~response.raised
    <3>1. /\ \A h \in Lengths \cup {"Content-Encoding"} :
                h \in DOMAIN Final.headers <=> h \in DOMAIN response.headers
          /\ \A h \in DOMAIN response.headers \ {"Content-Type"} :
                Final.headers[h] = response.headers[h]
      <4>1. CASE body.kind = "iter"
        BY <2>1, <2>3, <4>1, FinalIs DEF Lengths
      <4>2. CASE body.kind # "iter"
        BY <2>1, <2>3, <4>2, FinalIs
      <4> QED
        BY <4>1, <4>2
    <3>2. Answered
      BY <2>1, <2>3 DEF Answered
    <3>5. "Content-Type" \notin Lengths
      BY DEF Lengths
    <3>3. LengthTrue
      BY <2>1, <3>1, <3>2, <3>5 DEF IInv, WrappedInv, LengthInv, LengthTrue
    <3>4. CodingTrue
      BY <2>1, <3>1, <3>2 DEF IInv, WrappedInv, CodingInv, CodingTrue
    <3> QED
      BY <3>3, <3>4 DEF HeadersTrue
  <2> QED
    BY <2>2, <2>3
<1> QED
  BY <1>1, Invariance, PTL

\* Who is told that nothing has changed has what was on disk when the handler
\* looked, but for the copies that came with the tag of another version; and
\* who is told that he has logged out has no cookie.
THEOREM ClientsAreCurrent == Spec => []ClientIsCurrent
<1>1. IInv => ClientIsCurrent
  <2> SUFFICES ASSUME IInv, IsSent  PROVE ClientIsCurrent
    BY DEF ClientIsCurrent, CacheIsCurrent, LoggedOut
  <2>1. /\ step = "sent" /\ Returned /\ TypeInv /\ BodyInv
        /\ sent.request = request /\ sent.head.code = Final.code
    BY SentIs
  <2>2. CacheIsCurrent
    <3> SUFFICES ASSUME sent.head.code = 304, ~cache.swapped
                 PROVE  cache.content = seen.looked
      BY DEF CacheIsCurrent
    <3>1. ~response.raised /\ Final = response
      BY <2>1, FinalIs
    <3>2. site = "static" /\ request.ask.etag = seen.looked /\ seen.looked \in Version
      BY <2>1, <3>1 DEF IInv, ToldInv, NotModifiedInv, Answered
    <3>3. seen.looked # "none"
      BY <3>2, VersionAssumption
    <3>4. cache # None /\ request.ask.etag = cache.etag
      BY <2>1, <3>2, <3>3 DEF IInv, ClientInv, CacheInv
    <3> QED
      BY <3>2, <3>4 DEF IInv, ClientInv, CacheInv
  <2>3. LoggedOut
    <3> SUFFICES ASSUME site = "account", Asked.do # "login", sent.head.code = 200
                 PROVE  jar = Missing
      BY DEF LoggedOut
    <3>1. ~response.raised
      BY <2>1, FinalIs
    <3> QED
      BY <2>1, <3>1 DEF IInv, ToldInv, AccountInv, Answered, Asked
  <2> QED
    BY <2>2, <2>3 DEF ClientIsCurrent
<1> QED
  BY <1>1, Invariance, PTL

\* The last wrapper's line in the log is of what is sent, list or file.
THEOREM LogsAreTrue == Spec => []LogIsTrue
<1>1. IInv => LogIsTrue
  <2> SUFFICES ASSUME IInv, IsSent, logged # None, stack[Len(stack)] = "log",
                      sent.body.kind # "iter"
               PROVE  /\ logged.code = sent.head.code
                      /\ sent.body.kind = "list" => logged.size = Length(sent.body)
    BY DEF LogIsTrue
  <2>1. /\ Returned /\ TypeInv /\ BodyInv
        /\ sent.body = body /\ sent.head.code = Final.code
    BY SentIs
  <2>2. /\ ~response.raised
        /\ logged.code = response.code
        /\ body.kind = "list" => logged.size = Length(body)
    BY <2>1 DEF IInv, WrappedInv, LogInv
  <2>3. Final = response
    BY <2>1, <2>2, FinalIs
  <2> QED
    BY <2>1, <2>2, <2>3
<1> QED
  BY <1>1, Invariance, PTL

\* A page is shown as it was posted last, under any name of its file.
THEOREM SavedAreShown == Spec => []SavedIsShown
<1>1. IInv => SavedIsShown
  <2> SUFFICES ASSUME IInv, IsSent, site = "wiki", Asked.do = "display",
                      sent.head.code # 500, NEW p, p = Norm[Asked.page],
                      p \in Writable \cap Lettered
               PROVE  IF posted[FileOf[p]] = Missing
                      THEN /\ sent.head.code = 302
                           /\ sent.head.headers["location"] = <<"edit", p>>
                      ELSE sent.head.code = 200 /\ sent.body.content = posted[FileOf[p]]
    BY DEF SavedIsShown
  <2>1. /\ Returned /\ TypeInv /\ BodyInv /\ sent.request = request
        /\ sent.body = body /\ sent.head.code = Final.code
        /\ sent.head.headers = Final.headers
    BY SentIs
  <2>2. ~response.raised /\ body.kind # "iter" /\ Final = response
    BY <2>1, FinalIs DEF BodyInv
  <2> QED
    BY <2>1, <2>2 DEF IInv, ToldInv, ShownInv, Answered, Asked
<1> QED
  BY <1>1, Invariance, PTL

=============================================================================
