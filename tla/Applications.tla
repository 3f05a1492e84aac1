----------------------------- MODULE Applications -----------------------------
(***************************************************************************)
(* What answers a request in Python: an application, the wrappers around   *)
(* it (contrib/zip.py, contrib/log.py), and the Start_response they share. *)
(* The applications are contrib/views.py (static files), contrib/cgiapp.py, *)
(* the wiki of sample/wsgi_wiki, sample/hello, and one that logs its users *)
(* in and out with cookies.  A server runs one of them ("site").           *)
(*                                                                         *)
(* A handler is one call, but the file a static site serves may be changed *)
(* by another process between any two of its system calls.  The lengths of *)
(* contents are not numbers: the length of a content compressed n times is *)
(* the pair of them, for no two are assumed to agree.                      *)
(***************************************************************************)
EXTENDS StartResponse, Integers, FiniteSets

CONSTANTS
    Site,       \* the applications that are run
    Stacks,     \* the wrappers around them, inner ones first
    Version,    \* what the file holds, over time; each has an mtime of its own
    Hollow,     \* the versions without a byte in them
    Page,       \* names of wiki pages
    Norm,       \* Norm[p]: p without "..", normalised
    FileOf,     \* FileOf[p]: the name that stands for the file open() finds as p
    Writable,   \* names open() can write a file of
    Lettered,   \* names that start with a letter
    Content,    \* what is posted to a page
    Key,        \* names of request headers
    Value       \* and values

ASSUME ConstantsAssumption ==
    /\ Site \subseteq {"static", "cgi", "wiki", "hello", "account"}
    /\ Stacks \subseteq Seq({"gzip", "log"})
    /\ "" \in Page \ (Writable \cup Lettered)
    /\ Norm \in [Page -> Page] /\ FileOf \in [Page -> Page]
    /\ \A p, q \in Page : FileOf[p] = FileOf[q] => (p \in Writable <=> q \in Writable)
    /\ Writable \subseteq Page /\ Lettered \subseteq Page

\* Nobody wraps an application in the same wrapper twice: two of Gzip would
\* compress twice under one header.
ASSUME WrappersAssumption ==
    \A s \in Stacks : \A i, j \in DOMAIN s : s[i] = s[j] => i = j

\* No mtime is taken for the marks of no file and of no tag.
ASSUME VersionAssumption ==
    "missing" \notin Version /\ "none" \notin Version /\ Hollow \subseteq Version

VARIABLES
    site, stack,    \* the application and its wrappers
    file,           \* static: the version on disk, or Missing
    pages,          \* wiki: pages[FileOf[p]] is what file p holds, or Missing
    cgi_environ,    \* cgi: what the scripts are given, by key
    request,        \* the request that is answered
    step,           \* how far: "idle", "app", "opened", "compared", "returned"
    opened,         \* static: the version of the open file
    response,       \* the Start_response
    body,           \* what was returned so far
    wrappers,       \* those that have still to be run
    sent,           \* the last response, as it is handed to write_cb
    cache, jar,     \* what the client keeps: a file and its ETag; a cookie
    logged,         \* the last line of the log
    seen,           \* history: the version whose mtime the handler read, and
                    \* whether the file was replaced between open and that
    posted          \* history: posted[FileOf[p]]: what was saved last as p

server == <<site, stack>>
disk == <<file, pages, cgi_environ, posted>>
client == <<cache, jar>>
vars == <<site, stack, file, pages, cgi_environ, request, step, opened, response,
          body, wrappers, sent, cache, jar, logged, seen, posted>>

Missing == "missing"
None == <<>>

Empty == [kind |-> "list", content |-> "", coded |-> 0]
List(content) == [Empty EXCEPT !.content = content]
Length(b) == <<b.content, b.coded>>

Unseen == [looked |-> Missing, swapped |-> FALSE]

Init ==
    /\ site \in Site /\ stack \in Stacks
    /\ file \in IF site = "static" THEN Version \cup {Missing} ELSE {Missing}
    /\ pages = [p \in Page |-> Missing]
    /\ cgi_environ = [k \in Key |-> Missing]
    /\ request = None /\ step = "idle"
    /\ opened = Missing
    /\ response = Fresh /\ body = Empty
    /\ wrappers = <<>>
    /\ sent = None
    /\ cache = None /\ jar = Missing
    /\ logged = None
    /\ seen = Unseen
    /\ posted = [p \in Page |-> Missing]

\* The requests of a site.  gzip: the word is somewhere in Accept-Encoding
\* (in "gzip;q=0", too); host: there is a Host header, which Log reads.
Asks ==
    CASE site = "static"  -> {[etag |-> e] : e \in
                                {"none"} \cup (IF cache = None THEN {} ELSE {cache.etag})}
      [] site = "cgi"     -> {[environ |-> e] : e \in [Key -> Value \cup {Missing}]}
      [] site = "wiki"    -> [do : {"display", "edit", "index"}, page : Page]
                                \cup [do : {"post"}, page : Page, content : Content \cup {""}]
      [] site = "hello"   -> {[do |-> "hello"], [do |-> "iteration"]}
      [] site = "account" -> {[do |-> "login"], [do |-> "logout"], [do |-> "expire"]}

Arrives(ask, gzip, host) ==
    /\ step = "idle"
    /\ request' = [ask |-> ask, gzip |-> gzip, host |-> host]
    /\ step' = "app"
    /\ response' = Fresh
    /\ wrappers' = stack
    /\ seen' = Unseen
    /\ UNCHANGED <<server, disk, opened, body, sent, client, logged>>

\* The application returns b, or raised: then no wrapper goes on, and the
\* page python_handler makes is sent instead.
Return(r, b) ==
    /\ response' = r
    /\ body' = IF r.raised THEN List("error") ELSE b
    /\ wrappers' = IF r.raised THEN <<>> ELSE wrappers
    /\ step' = "returned"

-----------------------------------------------------------------------------
(* Staticfile *)

\* open, and the answer to what is no file.
Open ==
    /\ step = "app" /\ site = "static"
    /\ IF file = Missing
       THEN /\ Return(Call(response, Status(404), <<>>), Empty)
            /\ opened' = opened
       ELSE /\ opened' = file
            /\ step' = "opened"
            /\ UNCHANGED <<response, body, wrappers>>
    /\ UNCHANGED <<server, disk, request, sent, client, logged, seen>>

\* Mutant: who has a tag has the file.
CompareTagged ==
    /\ step = "opened"
    /\ seen' = IF file = Missing THEN seen ELSE [looked |-> file, swapped |-> seen.swapped]
    /\ IF file = Missing THEN Return(Raised, Empty)
       ELSE IF request.ask.etag # "none"
       THEN Return(Call(response, Status(304), <<>>), Empty)
       ELSE /\ response' = Call(response, Status(200), [h \in {"ETag"} |-> file])
            /\ step' = "compared"
            /\ UNCHANGED <<body, wrappers>>
    /\ UNCHANGED <<server, disk, request, opened, sent, client, logged>>

\* getmtime, which raises when the file is gone, and If-None-Match.
Compare ==
    /\ step = "opened"
    /\ seen' = IF file = Missing THEN seen ELSE [looked |-> file, swapped |-> seen.swapped]
    /\ IF file = Missing THEN Return(Raised, Empty)
       ELSE IF request.ask.etag = file
       THEN Return(Call(response, Status(304), <<>>), Empty)
       ELSE /\ response' = Call(response, Status(200), [h \in {"ETag"} |-> file])
            /\ step' = "compared"
            /\ UNCHANGED <<body, wrappers>>
    /\ UNCHANGED <<server, disk, request, opened, sent, client, logged>>

\* getsize, and the open file is returned.
FileSize ==
    /\ step = "compared"
    /\ IF file = Missing THEN Return(Raised, Empty)
       ELSE Return(AddHeader(response, "Content-Length", <<file, 0>>),
                   [kind |-> "file", content |-> opened, coded |-> 0])
    /\ UNCHANGED <<server, disk, request, opened, sent, client, logged, seen>>

\* Another process puts a new file in place, or removes it.
Replaced ==
    /\ site = "static"
    /\ \E v \in Version \cup {Missing} : v # file /\ file' = v
    /\ seen' = [looked |-> seen.looked, swapped |-> seen.swapped \/ step = "opened"]
    /\ UNCHANGED <<server, pages, cgi_environ, posted, request, step, opened,
                   response, body, wrappers, sent, client, logged>>

-----------------------------------------------------------------------------
(* CGIApplication *)

\* What a script writes: whether there is an empty line, and before it a
\* first line that is no header, with code and reason.  Of headers, its type
\* and the length of what it writes, under one or the other name.
Lengths == {"Content-Length", "Content-length"}
Outputs ==
    [stderr : BOOLEAN, headers : BOOLEAN, line : BOOLEAN, reason : BOOLEAN,
     length : SUBSET Lengths]

\* _setup_cgi_environ: the dictionary is that of the last call.
SetupCgiEnviron(environ) ==
    [k \in Key |-> IF environ[k] = Missing THEN cgi_environ[k] ELSE environ[k]]

\* _split_return and _split_header
StatusOf(o) ==
    IF o.headers /\ ~o.line THEN Status(200)
    ELSE [code |-> 404, reason |-> o.headers /\ o.reason]

ScriptHeaders(o) ==
    [h \in {"Content-Type"} \cup o.length |->
        IF h = "Content-Type" THEN "" ELSE Length(List("script"))]

Cgi(o) ==
    /\ step = "app" /\ site = "cgi"
    /\ cgi_environ' = SetupCgiEnviron(request.ask.environ)
    /\ IF o.stderr THEN Return(response, List("stderr"))
       ELSE Return(Call(response, StatusOf(o), ScriptHeaders(o)), List("script"))
    /\ UNCHANGED <<server, file, pages, posted, request, opened, sent, client, logged, seen>>

-----------------------------------------------------------------------------
(* The wiki *)

Redirect(to, page) ==
    Call(response, Status(302), [h \in {"location", "Content-Type"} |-> <<to, page>>])
Html == Call(response, Status(200), [h \in {"Content-Type"} |-> ""])

Exists(p) == pages[FileOf[p]] # Missing

Display(p) ==
    LET page == Norm[p]
    IN  IF page \notin Lettered THEN Return(Redirect("index", ""), Empty)
        ELSE IF ~Exists(page) THEN Return(Redirect("edit", page), Empty)
        ELSE Return(Html, List(pages[FileOf[page]]))

\* Edit.GET
EditForm(p) == Return(Html, List(IF Exists(p) THEN pages[FileOf[p]] ELSE ""))

\* Mutant: an empty page is written.
PostEmpty(p, content) ==
    IF p \notin Writable
    THEN EditForm(p) /\ UNCHANGED pages
    ELSE /\ pages' = [pages EXCEPT ![FileOf[p]] = content]
         /\ Return(Redirect("display", p), Empty)

\* Edit.POST: blank contents delete the page, names open() refuses and the
\* empty name get the form again.
Post(p, content) ==
    CASE p = "" -> EditForm(p) /\ UNCHANGED pages
      [] p # "" /\ content = "" ->
            /\ pages' = [pages EXCEPT ![FileOf[p]] = Missing]
            /\ Return(Redirect("index", ""), Empty)
      [] p # "" /\ content # "" /\ p \notin Writable -> EditForm(p) /\ UNCHANGED pages
      [] OTHER ->
            /\ pages' = [pages EXCEPT ![FileOf[p]] = content]
            /\ Return(Redirect("display", p), Empty)

Wiki ==
    /\ step = "app" /\ site = "wiki"
    /\ LET ask == request.ask
       IN  \/ ask.do = "display" /\ Display(ask.page) /\ UNCHANGED <<pages, posted>>
           \/ ask.do = "edit" /\ EditForm(ask.page) /\ UNCHANGED <<pages, posted>>
           \/ ask.do = "index" /\ Return(Html, List("index")) /\ UNCHANGED <<pages, posted>>
           \/ /\ ask.do = "post"
              /\ Post(ask.page, ask.content)
              /\ posted' = [posted EXCEPT ![FileOf[ask.page]] =
                               IF ask.content = "" THEN Missing ELSE ask.content]
    /\ UNCHANGED <<server, file, cgi_environ, request, opened, sent, client, logged, seen>>

-----------------------------------------------------------------------------
(* Smaller applications *)

\* A list, or a generator: that calls start_response when it is asked for
\* its first item, when the wrappers are done.
Hello ==
    /\ step = "app" /\ site = "hello"
    /\ IF request.ask.do = "hello" THEN Return(Html, List("hello"))
       ELSE Return(response, [List("hello") EXCEPT !.kind = "iter"])
    /\ UNCHANGED <<server, disk, request, opened, sent, client, logged, seen>>

\* A user of set_cookie and delete_cookie; "expire" sets the cookie first.
Account ==
    /\ step = "app" /\ site = "account"
    /\ LET do == request.ask.do
           r == CASE do = "login"  -> SetCookie(Html, "user", "u")
                  [] do = "logout" -> DeleteCookie(Html, "user")
                  [] do = "expire" -> DeleteCookie(SetCookie(Html, "user", "u"), "user")
       IN  Return(r, List("account"))
    /\ UNCHANGED <<server, disk, request, opened, sent, client, logged, seen>>

-----------------------------------------------------------------------------
(* The wrappers, and write_cb *)

\* Mutant: the length is left as it was.
GzipKeepsLength ==
    /\ step = "returned" /\ wrappers # <<>> /\ Head(wrappers) = "gzip"
    /\ IF ~request.gzip THEN UNCHANGED <<response, body>>
       ELSE /\ response' = AddHeader(response, "Content-Encoding", "gzip")
            /\ body' = [body EXCEPT !.kind = "list", !.coded = @ + 1]
    /\ wrappers' = Tail(wrappers)
    /\ UNCHANGED <<server, disk, request, step, opened, sent, client, logged, seen>>

\* Gzip: a list or what can be read; the rest raises.
Gzip ==
    /\ step = "returned" /\ wrappers # <<>> /\ Head(wrappers) = "gzip"
    /\ IF ~request.gzip
       THEN wrappers' = Tail(wrappers) /\ UNCHANGED <<response, body, step>>
       ELSE IF body.kind = "iter" THEN Return(Raised, Empty)
       ELSE /\ body' = [body EXCEPT !.kind = "list", !.coded = @ + 1]
            /\ response' = AddHeader(AddHeader(response, "Content-Encoding", "gzip"),
                                     "Content-Length", Length(body'))
            /\ wrappers' = Tail(wrappers) /\ UNCHANGED step
    /\ UNCHANGED <<server, disk, request, opened, sent, client, logged, seen>>

\* Mutant: every status is 200.
LogAsOK ==
    /\ step = "returned" /\ wrappers # <<>> /\ Head(wrappers) = "log"
    /\ logged' = [code |-> 200, size |-> Length(body)]
    /\ wrappers' = Tail(wrappers)
    /\ UNCHANGED <<server, disk, request, step, opened, response, body, sent, client, seen>>

\* Log: the size of a list, or what the file's name has on disk now.  What
\* the application did is done when this raises.
Log ==
    /\ step = "returned" /\ wrappers # <<>> /\ Head(wrappers) = "log"
    /\ IF ~request.host \/ (body.kind = "file" /\ file = Missing)
       THEN Return(Raised, Empty) /\ logged' = logged
       ELSE /\ logged' = [code |-> response.code,
                          size |-> CASE body.kind = "list" -> Length(body)
                                     [] body.kind = "file" -> <<file, 0>>
                                     [] OTHER              -> "-"]
            /\ wrappers' = Tail(wrappers)
            /\ UNCHANGED <<response, body, step>>
    /\ UNCHANGED <<server, disk, request, opened, sent, client, seen>>

\* What python_handler makes of it.  A generator is started now.
Final ==
    CASE response.raised     -> [Fresh EXCEPT !.code = 500, !.headers = <<>>]
      [] body.kind = "iter"  -> Call(response, Status(404), [h \in {"Content-Type"} |-> ""])
      [] OTHER               -> response

\* The response is sent.  The client keeps the cookie it is told to, and a
\* file that has come as long as it was said to be.
Send ==
    /\ step = "returned" /\ wrappers = <<>>
    /\ LET head == Header(Final)
           \* write_cb's fread sends no file but an empty one as a whole.
           whole == /\ body.kind = "list" \/ body.content \in Hollow
                    /\ head.headers["Content-Length"] = Length(body)
       IN  /\ sent' = [head |-> head, body |-> body, request |-> request]
           /\ cache' = IF head.code = 200 /\ "ETag" \in DOMAIN head.headers
                          /\ whole
                       THEN [etag |-> head.headers["ETag"], content |-> body.content,
                             swapped |-> seen.swapped]
                       ELSE cache
           /\ jar' = IF "user" \notin DOMAIN head.cookies THEN jar
                     ELSE IF head.cookies["user"].age = "0" THEN Missing
                     ELSE head.cookies["user"].value
    /\ step' = "sent"
    /\ UNCHANGED <<server, disk, request, opened, response, body, wrappers, logged, seen>>

\* The connection ends; everything of the request is gone.
Ends ==
    /\ step = "sent"
    /\ step' = "idle"
    /\ request' = None /\ response' = Fresh /\ body' = Empty /\ opened' = Missing
    /\ sent' = None /\ logged' = None /\ seen' = Unseen
    /\ UNCHANGED <<server, disk, wrappers, client>>

Next ==
    \/ \E ask \in Asks, gzip, host \in BOOLEAN : Arrives(ask, gzip, host)
    \/ Open \/ Compare \/ FileSize \/ Replaced
    \/ \E o \in Outputs : Cgi(o)
    \/ Wiki \/ Hello \/ Account
    \/ Gzip \/ Log \/ Send \/ Ends

Spec == Init /\ [][Next]_vars

-----------------------------------------------------------------------------
(* Properties *)

IsSent == sent # None
Asked == sent.request.ask

\* A length is that of the body, through all wrappers.  Of a file nothing is
\* said here: of one that is not compressed hardly a byte is sent (fread in
\* write_cb).  A script's length that Gzip does not replace, for its name is
\* spelled otherwise, is true only of what is not compressed.
LengthTrue ==
    IsSent /\ sent.body.kind = "list" =>
        \A h \in Lengths \cap DOMAIN sent.head.headers :
            h = "Content-Length" \/ sent.body.coded = 0 =>
                sent.head.headers[h] = Length(sent.body)

\* Who is told "Not Modified" has what was on disk when the handler looked,
\* whenever the file was replaced before, meanwhile or since.  There is one
\* exception, and that is the code's: a copy whose file was replaced after it
\* was opened and before its mtime was read has the tag of another.
CacheIsCurrent ==
    IsSent /\ sent.head.code = 304 /\ ~cache.swapped => cache.content = seen.looked

\* A log around everything else has the status of what is sent, and the size
\* of it if it is a list; except of a generator, which has not started yet.
LogIsTrue ==
    IsSent /\ logged # None /\ stack[Len(stack)] = "log" /\ sent.body.kind # "iter" =>
        /\ logged.code = sent.head.code
        /\ sent.body.kind = "list" => logged.size = Length(sent.body)

\* A body is compressed if and only if its header says so, only for clients
\* that name gzip, and once.
CodingTrue ==
    IsSent =>
        /\ "Content-Encoding" \in DOMAIN sent.head.headers <=> sent.body.coded = 1
        /\ sent.body.coded = 1 => sent.request.gzip

\* A page of the wiki is shown as it was posted last, under whatever name that
\* stands for the same file, or else the editor; if the name it is asked by
\* is one display can show, when it has normalised it.
SavedIsShown ==
    IsSent /\ site = "wiki" /\ Asked.do = "display" /\ sent.head.code # 500 =>
        LET p == Norm[Asked.page]
        IN  p \in Writable \cap Lettered =>
                IF posted[FileOf[p]] = Missing
                THEN sent.head.code = 302 /\ sent.head.headers["location"] = <<"edit", p>>
                ELSE sent.head.code = 200 /\ sent.body.content = posted[FileOf[p]]

\* A user who is told that he has logged out has no cookie any more.  (With
\* delete_cookie alone nobody is told so: it raises, and he keeps his cookie.)
LoggedOut ==
    IsSent /\ site = "account" /\ Asked.do # "login" /\ sent.head.code = 200 =>
        jar = Missing

\* What the header says of the body is true, whatever the wrappers made of it.
HeadersTrue == LengthTrue /\ CodingTrue

\* What a client keeps is what the server wants it to have: the copy of a file
\* that a 304 lets it go on using, and its cookie.
ClientIsCurrent == CacheIsCurrent /\ LoggedOut

=============================================================================
