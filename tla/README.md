# fapws3 in TLA+

fapws3 is a small WSGI server: one thread, a libev loop in C
(`src/fapws/mainloop.c`), a Python extension that starts it and lets the
application park clients, set timers and defer work
(`src/fapws/_evwsgi.c`), a request parser (`src/fapws/wsgi.c`), and the Python
an application meets: the response object (`src/fapws/base.py`), wrappers,
sessions, forms and CGI (`src/fapws/contrib`), and sample programs. This
directory models it in TLA+, checks the models with TLC and proves the main
results with TLAPS.

    tlc -config MainLoop.cfg MainLoop.tla
    tlapm MainLoopProofs.tla

`PROJECT.json` lists the runs, the lines each definition stands for, the
hazards, and for each property a mutation of the code that it detects. The
operators named as mutants in the modules serve that purpose only.

## The system

| component | state | operations | who it works with |
|---|---|---|---|
| connection life cycle | struct client: three watchers (read, write, timer), retry counter, `response_iter_sent` | accept_cb, connection_cb, write_cb, write_response_cb, timeout_cb, sigint_cb | all of the others; calls the application |
| parked clients | the registry id -> struct; `_current_client` | register_client, write_response, register/unregister | application handlers, timers, deferred functions |
| request framing | `input_header`, `input_pos`, `input_body` | connection_cb, manage_header_body | parser, environ |
| header parser | one token buffer, a state, the dictionary | header_to_dict | dispatch |
| dispatch and environ | registered URIs, the generic application, the environ | wsgi_cb, set_gen_wsgi_cb, handle_uri, py_build_method_variables, parse_query, decode_uri | parser, application |
| response writing | header, iterator, bytes written, `retry` | write_cb, write_cli | the socket, the returned object |
| application timers | `list_timers`, `list_timers_i` | add_timer, stop_timer, restart_timer, run, timer_cb | libev |
| deferred functions | `pydeferqueue`, the idle watcher | defer, idle_cb | libev, application |
| counting programs (`sample/defer`, `sample/timers`) | a counter, what was committed of it | handler, deferred or timed commit | timers and deferred functions |
| push channels (`sample/push`) | streams of messages, the subscribers of each channel | /broadcast/sub, /broadcast/pub, do_timeout | parked clients, write_response |
| multipart bodies | parser state, the files on disk | write, DiskVersioning | manage_header_body, when the application's Environ installs it |
| sessions | a record per id, a cookie per browser, the clock | Session and the manager of its doc string | response cookies |
| forms | widgets shared by all requests; errors and values per form | FormFactory, validate, render_form | application |
| Start_response | status, headers, cookies | call, add_header, set_cookie, delete_cookie | python_handler, wrappers |
| static files, CGI, wiki, gzip, log | files, one environment for all scripts, pages, the log | Staticfile, CGIApplication, Display/Edit, Gzip, Log | Start_response |

What is hard about it: one thread, but *interleaving* all the same, because a
callback runs between any two others and application code calls back into the
server from a handler, a `timeout_cb`, a timer or a deferred function. Memory
is freed by hand: `close_connection` stops no watcher and forgets no
registration, each of its callers has to. Bytes come and go in pieces of any
length; a buffer of one request is reused token by token; a client may stop
reading or leave at any point. In the Python part most is shared between
requests that was meant for one: widgets, CGI environments, session records,
dictionaries of waiting clients; and files change under the handler that
serves them.

## Modules

* `MainLoop` - a connection from accept_cb to close_connection, its watchers,
  the registry, and register_client/write_response. Each callback is an
  action; those that call the application are a start and an end (`fn` and
  `arg` are what is on the C stack), with the application's calls in between.
* `DeferredResponse` - what parking promises: one answer or one expiry for a
  parked request, to the holder of the ticket. `MainLoop!ImplementsDeferredResponse`
  is the refinement.
* `RequestReader` - connection_cb's search for the end of a request, and
  manage_header_body. A request is a few lengths, a read takes any number of
  bytes.
* `HeaderParser` - header_to_dict, one action per byte, with the buffer that
  is never cleared.
* `Dispatch` - from a parsed request to the call of the application: routes,
  the answers 404, 411, 501 and OPTIONS, the environ, parameters. Registration
  happens between requests, in any order.
* `ResponseWriter` - write_cli as a loop of its own, and each body of write_cb
  (list, file, iterator, neither). Buffer 0 is the header.
* `Timers` - the application's timers. libev's part: a timer expires, and its
  callback is pending until the loop runs it or someone stops it.
* `DeferQueue` and its promise `DeferSpec` - the queue, the idle watcher and
  the function that runs while its element is still in the queue.
* `AppCallbacks` - `Timers` and `DeferQueue` in one loop (it extends both and
  joins their actions), under the two sample programs and a program that calls
  anything from anywhere.
* `MessageStream` - the list a channel keeps its messages in: insertion with
  holes, front, back, range, as functions. `PushChannel` - the program around
  it, over an instance of `DeferredResponse`: what MainLoop implements is what
  the push program relies on. publish is one action per client it writes to.
* `Multipart` - MultipartFormData and DiskVersioning, one action per line, for
  one request after another over the same disk.
* `Sessions` - Session, the manager its doc string prescribes, browsers with
  cookies and overlapping requests, and a clock with fractions of seconds.
* `Widgets` - what the classes of widgets render and accept, as functions of
  what a widget has become; `Forms` - forms made, validated and rendered over
  widgets that all of them share.
* `StartResponse` - the response object as functions; `Applications` - static
  files, CGI, the wiki, generators and a cookie-setting application, behind
  Gzip and Log in any order. Staticfile is one action per system call.
* `MCSessions`, `MCForms`, `MCApplications` - instances that need definitions:
  symmetry, widget definitions, orders of wrappers.
* `*Proofs` - theorems; `RequestProofs` is about `RequestReader`,
  `HeaderParser`, `Multipart` and `Dispatch`, `AppCallbacksProofs` about
  `DeferQueue` and `Timers` too.

The modules share the action that separates them: `MainLoop!ReadMore` and
`ReadRequest` are all of `RequestReader`; `HandlerStart` with
`WriteHttpError` and `WriteOptions` are `Dispatch`; `WriteChunk` and `WriteEnd`
are `ResponseWriter`. What MainLoop leaves open there (when a request is
complete, when a response ends) is what those modules are about.

## Runs

| run | instance | what it shows |
|---|---|---|
| `main_loop` | 2 connections, 2 ids and the -1 of an unreadable one, MAX_RETRY 1, 1 chunk, fair | no pointer to a freed struct; exactly one active watcher per connection between callbacks; the registry is exact; one header per response; an answered client never expires; every request ends unless the server stops; MainLoop implements DeferredResponse with its liveness |
| `request_reader` | header, body and trailing bytes up to 2 each, reads up to 5, "Content-Length: " also anywhere else, claiming up to 4, all client faults | wsgi.input is the body if its length was found; a complete request is waited for only behind a text that claims more |
| `header_parser` | up to two header lines out of 36 kinds, with a body that looks like a header | after each byte, the dictionary is the reference one |
| `dispatch` | two overlapping routes, two applications, 2 parameters | the application sees what the client meant; routes keep their URIs |
| `response_writer` | all kinds of content, up to 3 chunks of 2 bytes, block 2, MAX_RETRY 1, fair | a prefix of the response is on the wire, but behind a header that write_cb failed to write; all of it at the close (lists, iterators); files are closed; responses end |
| `app_callbacks` | 2 timers, 3 functions, queue of 4, 3 displays, fair | a stopped timer stays silent until it is restarted, those added before run fire; the queue implements DeferSpec beside them; every display counted is committed |
| `push_channel` | 3 connections, 2 ids of parked clients, one channel, message ids -1 to 2 | the program's subscribers are the server's parked clients; nobody waits for what is there; a publication reaches all who wait; messages stay and are fetched in order, up to the first hole |
| `multipart` | 2 fields, 2 parts a request, 3 files, fields repeated, versions taken, header lines that make write raise | results are what was sent; no upload changes another file |
| `sessions` | 2 browsers, 2 overlapping requests, 2 ids, an age of 2 seconds, half seconds | own data only; nothing after expiry; the last write until a second before it |
| `forms` | a widget of each class (required or not, with default or not), a number or a box beside it, a private one, 7 texts | pages owe nothing to earlier pages; rejected fields and no others have messages, and show no rejected text; a form without errors holds what was sent and what its widgets demand (of a date less than its message says) |
| `applications` | 5 sites behind 5 orders of wrappers, 3 versions of a file (one of which fread gets nothing of), 5 page names for 4 pages, 2 headers | lengths of lists, codings, cookies and log lines are true; who is told 304 has what is on disk, unless his copy was replaced between open and stat; a page is shown as it was saved |

One more run shows a disagreement between the code and its tests:

* `response_writer_file` - `fread(buff, MAX_BUFF, sizeof(char), fp)`
  (mainloop.c:577) asks for one item of MAX_BUFF bytes and gets 0 or 1, taken
  for a byte count: of a file one byte is sent, or none.

Type invariants are mostly proved rather than checked (TypeOK of the server
modules, TimersTypeOK, AppTypeOK; TypeInv in `PushChannelProofs`); the runs
spend their time on the rest.

Why the bounds are enough. MainLoop: two connections let one be served while
the other is parked, and the two compete for an id; no action relates more than
two connections, and its safety is proved for any number of them. One retry and
one chunk reach both sides of each comparison. RequestReader and
ResponseWriter compare lengths, and every order of them occurs below the
bounds; besides, their safety is proved for all lengths. HeaderParser: a token
depends on the one before it only, and two lines contain each pair; it is
proved for any number of them. Dispatch:
handle_uri compares two routes at most. AppCallbacks: four places for three
functions make duplicates; a second timer is there while the first is stopped.
PushChannel: one client publishes while two are parked; ids up to 2 leave
holes, fill them, overwrite and count from the end; the agreement of the two
registries is proved for any number. Multipart: what a part leaves behind shows
in the next one, and three files take two versions of a name. Sessions: two
requests overlap, within a browser and between two; half seconds are lost in
dates; five ticks pass an age of four; whose data is returned is proved for all
sizes. Forms: a widget is changed by one page and shown in another, of the same
form or a later one; a field before and one after the one that raises.
Applications: a file is replaced twice, so that a client's copy is older than
the handler's; more wrappers than two repeat one of them.
`CHECK_DEADLOCK FALSE` is set where the modelled program stops: ev_unloop, a
response sent, a request parsed or served, timers all expired, the clock at
its bound.

Fairness. libev calls every pending callback in each iteration, so a watcher
that is ready again and again is served: strong fairness of write_cb,
write_response_cb and the timeout in MainLoop (they are disabled while the
application runs), of a timer's expiry and callback and of idle_cb in
AppCallbacks. Handlers, timeout callbacks and deferred functions return: weak
fairness of their ends. In ResponseWriter the loop in write_cli goes on and
write_cb is called while its watcher is active; `ResponseEnds` also assumes
that a client that stays reads. In AppCallbacks time passes and the programs
call run. Idle callbacks run only when nothing else is pending, so the server
has to be idle again and again (`AppQuiet`); under permanent load nothing
deferred would run. The other modules state no liveness: what they would have
to assume of clients and applications is all it would show.

What the application must do. `AppFaults` names ways to misuse the server; the
passing runs and the theorems take none of them:
`no_register` (return True without register_client: the connection stays open
for ever), `register_and_answer` (register, then return content: the struct is
freed with its timer armed), `id_reuse` (register with an id that is taken, or a second time with the -1
that stands for all ids the server cannot read: the connection's timer is armed
and no one can answer it), `timeout_answers`
(write_response from timeout_cb for the client it was called for: it is still
registered, ev_write is started, then the struct is freed). Giving `AppFaults`
one of them makes TLC show it: OneDriver fails for the first two,
RegistryExact for the others. Some more have no model: register_client
outside a handler (a NULL dereference), write_response from the very handler
that registered (an active watcher initialised again, `_evwsgi.c:485`), defer
before run (a NULL idle_watcher, `:418`), a second run (watchers on a stack
that is gone, `:160`).

## Proofs

All theorems hold for every value of the constants.

* `MainLoopProofs`: for any set of connections and ids, any MAX_RETRY and any
  length of body, with `AppFaults = {}`: TypeOK, NoDanglingPointer, OneDriver,
  RegistryExact, OneHeader, CurrentExact and AnsweredNeverExpires.
  NoDanglingPointer is not inductive: to free a struct safely one must know
  that nothing else watches it. `IInv` adds who drives a connection in each
  place of the thread (`DriverInv`), what a struct on the stack looks like
  (`FrameInv`) and that header count and `response_iter_sent` agree
  (`HeaderInv`). One lemma per action.
  `Refinement`: every step of MainLoop is a step of DeferredResponse or a
  stutter, from the same invariant.
* `RequestProofs`: how a request is read, in four parts.
  RequestReader: BodyExact and CompleteIsAnswered for all lengths, and for all
  places where the text "Content-Length: " may stand. `IInv` says
  what connection_cb has established when it hands over (`WritingInv`), which
  is what manage_header_body relies on.
  Multipart: NeverOverwrites, because among the versions of a name
  one is always free, and ResultsExact for any fields, parts, files and number
  of requests. `BodyInv` follows a part line by line: what is in hand is what
  the lines read so far amount to (`PartInv`), the parts before it are recorded,
  and no recorded file is open (`EntriesInv`), so that none changes.
  Dispatch: RoutesStay for any registrations, and UriExact
  for any routes and paths: the route that is found is a prefix of what was
  sent, decoding what follows it gives the rest of the path, and the query
  begins at the first "?" sent. ParamsExact for any number of parameters: the
  query is cut where `Starts` says each parameter begins, since no other "&"
  is in it; a parameter is cut at its "="; `RoundsTake` follows the rounds of
  parse_query, after m of which the dictionary is that of the first m
  parameters (`DictGrows`).
  HeaderParser: DictExact for any number of lines. `Layout` says where each
  line is among the bytes; `HeaderInv` follows the parser through them. The
  property says nothing of a byte inside a line; the invariant adds where in
  the line it is (`InLine`) and that data begins with what was read of the
  token (`Holds`), which is all that Token depends on (`TokenIs`), so that what
  is left there of earlier tokens does not matter.
* `ResponseWriterProofs`: PrefixSent (`PrefixAlways`), StreamComplete
  (`CompleteAtClose`) and FileIsClosed for all lengths and all failures. The
  heart is `FrontierInv`: on a working connection all before the current buffer
  is written and nothing after it; with `RetryInv`, a failed chunk is followed
  by nothing, and a failed header only when write_cb wrote it. `FileInv`: until a block is read the file is
  not marked in use.
* `AppCallbacksProofs`: first DeferQueue alone: QueueInv (the watcher matches
  the queue, idle_cb deletes the element it ran), and the queue refines
  DeferSpec, for any queue length. Then Timers alone: a timer that was stopped
  and not restarted is "inactive", a state only run could lead out of
  (`TimersInv`): StoppedStays. Then
  `Composition`: every step of the loop is a step or a stutter of Timers, and
  one of DeferQueue; from it StoppedStays, QueueInv and the refinement of
  DeferSpec hold in the loop without a new argument. `DbInv` adds that nothing
  is committed that was not counted.
* `PushChannelProofs`: SubsAreParked, NobodyWaitsInVain and EveryoneIsTold for
  any number of connections, channels and messages. They need each other:
  write_response reaches the right client because no two that wait have the
  same id (`OwnTickets`), which holds because subscribers are parked and a new
  object's id differs from those in the dictionaries; what it writes is the
  message because publish has stored it and nobody else writes meanwhile
  (`StoredFirst`). The lists: insertion moves no message (`InsertKeeps`), hence
  PublishedStays and `MessagesInPlace`; with these, StreamsExact: what front,
  back and range return, for lists of any length, the first hole being a least
  element. Asked for more messages than there are, back starts at an index that
  counts from the end (`BackBeyond`); the theorem says what it returns then,
  which is not what its doc string says.
* `SessionsProofs`: OwnDataOnly for any number of browsers, requests and ids.
  `IInv`: an id is held by one browser, through its cookie or an open request,
  and a record saved under it has only that browser's data. Then time, for any
  age and any fraction of a second: NothingAfterExpiry and ReadsLastWrite.
  `TimeInv`: the date of a record lies within a second of the age it was given
  at (`DatesInv`), and for a browser with one request at a time what is saved,
  what the request holds and what was written last agree while the record lives
  (`HistoryInv`).
* `FormsProofs`: PageIsFresh, PageShowsInput and NoErrorMeansValid for any
  fields, widgets, texts and forms. Widgets are shared and rendering changes
  them; `WidgetInv` says that all a widget can have become is `Worn`, and a worn
  widget renders as a new one does (`RenderedAnew`). `AskedInv`: errors and
  values are those of the last validation for the fields it came to, also when
  it raised midway; `ValuesInv`: no value a form holds was ever rejected.
  NoErrorMeansValid is about validations that came to their end, and demands of
  dates what isvalid does (`Meets`).
* `ApplicationsProofs`: HeadersTrue, ClientIsCurrent, LogIsTrue and SavedIsShown
  for any stack of wrappers and files replaced between any two system calls.
  Of lengths, LengthTrue says nothing where a file is sent: write_cb sends next
  to nothing of one (`response_writer_file`). The cache keeps a copy only if
  all of it arrived.
  `IInv` says for each layer what it leaves to the next: Staticfile
  (`StaticInv`), coding and length (`CodingInv`, `LengthInv`), the log
  (`LogInv`), and what the client keeps (`CacheInv`): a 304 is right because
  the tag that matched was sent with the contents of the copy.

The assumptions are the named ASSUMEs of the modules: each bound is a natural
number, the null values are not among the real ones. Two say more. No
application is wrapped in the same wrapper twice (`WrappersAssumption`; the test
server and the samples wrap each once): two of Gzip would compress twice and
declare it once. No version of a file has the name of the mark for no file or
for no tag (`VersionAssumption`).

Where a definition runs through its input (the query behind a URI, holes in a
list, parts under a key) the proofs use no induction: they take the least
element that breaks the claim (`LeastNatural`, from the well-foundedness of <)
and look at the step before it.

Only model-checked: all liveness (and with it the fairness part of the two
refinements), which is out of this prover's reach: RequestsEnd, ResponseEnds,
StartedFires, DisplaysCommitted. Every other property the passing runs check is
also a theorem.

## Divergences the models contain

The models do what the code does, so their properties have conditions. Each is
visible in the module named.

* MainLoop: a client that connects and shuts down without a byte may lose its
  struct for ever (`ReadNothing`, state `lost`): strlen of a malloc'ed byte
  nobody wrote, mainloop.c:754.
* RequestReader: a body cut off by end of file is taken for complete (`Eof`;
  `cutOff`). Content-Length must be spelled exactly so for connection_cb, but
  not for manage_header_body, and connection_cb takes the first text
  "Content-Length: " among all the bytes for the header (mainloop.c:731): the
  end of another header's name (X-Content-Length), the URI, or the body
  (`found`, `LengthSeen`). What it says then is not the body's length, although
  the comment says "assure we have all body data" (:739): wsgi.input lacks
  bytes or starts at the empty line, or the server waits for bytes that do not
  come; CompleteIsAnswered and BodyExact name the case.
* ResponseWriter: on EAGAIN write_cli goes round its loop (mainloop.c:433)
  instead of waiting for EV_WRITE as its comment says (mainloop.c:428): while
  one client does not read, nothing else runs; that `ResponseEnds` holds is
  owed to the assumption that clients read. An iterable that is neither list,
  tuple, file nor iterator sends nothing; an iterator that yields nothing is
  answered 500; close() of an iterator is never called, although WSGI asks for
  it; close() of a file whose fread returned nothing fails, it is still marked
  in use. A header that write_cb gave up writing counts as sent
  (response_iter_sent "-1: header sent", client.h:29; mainloop.c:518), and the
  body follows if the socket works again; write_response_cb does look at the
  result. PrefixSent names the case.
* HeaderParser: a header with an empty value gets its own name as value
  (wsgi.c:307; the loop at wsgi.c:82 sees no end of token): the token is not
  terminated and the buffer still holds the name. A line without a colon ends
  the header; of two headers with one name the last wins.
* Dispatch: parameters of a form replace those of the URI; a form is parsed up
  to the end of the buffer, bytes after it included (wsgi.c:453); SCRIPT_NAME
  is matched before escapes are decoded; "+" is a blank in PATH_INFO too. Not among the inputs: parameters that are
  empty or have no "=" (mainloop.c:307 cuts them with strsep).
* Timers: a timer added after run never fires; each fires once, though
  sample/timers/run.py:40 says "a commit every 2 seconds"; restart_timer stops
  its timer; what add_timer returns is not what stop_timer takes (off by one,
  _evwsgi.c:331); the delay is stored as a float into a double (:321).
* DeferQueue: the element of the running function is still in the list, so that
  a function that defers itself combined is taken for present and is not
  called again (`DeferCombined`): sample/defer/simple_pages/run.py:38 says "Fapws
  will add it in the queue if it's not yet present", and so does DeferSpec.
* Multipart: a file is stored with the CR LF before the boundary
  (tests/unittests/test.py:128 expects 14 bytes of a 12-byte file); a name
  with an underscore and no number after it makes write raise when it is
  uploaded again; "data can be chunk of the input data" (multipart.py:73) does
  not hold, the parser's line and part are local to write; a file name with a colon
  or a semicolon makes write raise, the latter after a file of the shorter name
  was opened (`HeaderRaises`, `DispositionCut`). A part without a name, which
  the model's clients do not send, is filed under the name of the one before
  (the key is not reset at the boundary).
* MessageStream, PushChannel (push.py): a message goes to all that wait for
  its channel, whatever they asked for (a TODO, :211); back(count) with
  count between len and 2 * len returns the last count - len messages, though
  'Return last "count" messages' (:113; `LastExact` has both cases); get_message_range is never called, and with count = -1 it would
  return nothing; `ChannelPool.def_timeout` (:402) does not exist, so that a
  publication without a timeout is a 500 (`PublishFails`); a first message
  with a negative id leaves an empty channel, which is false and so counts as
  none; negative ids overwrite from the end; only mode M parks a client; a
  channel keeps the timeout of its first publication.
* Sessions: a bare `{}` raises KeyError, though a record "can be an empty
  record" (sessions.py:68): `Raises`; storing does not renew
  the expiry, so that what is stored in an expired session is lost at once; of
  two overlapping requests of one browser the later save wins (`mixed`).
* Widgets, Forms: Date and DateTime accept a text in which one sign of the
  date is right, such as "2011-01/01" (`and` for `or`, widgets.py:337, :360),
  against "Date must have the format yyyy-mm-dd" (:338): `Meets` demands no
  more; "" and 0 are shown as
  the default, so that a box with a default cannot be unchecked; a Dropdown
  that is not required accepts anything, and one whose options nobody set
  raises in the middle of validate; a field that is rejected keeps the value it
  had, and so do the fields after one that raises; FormFactory gathers the attributes of the class itself, none inherited.
* StartResponse, Applications: a file that is replaced between open and stat is
  sent with the new ETag and the old contents, which the client keeps
  (`swapped`), if they arrive: of a file that is not compressed one byte is
  sent, or none (mainloop.c:577), and the client keeps only what arrived whole;
  Gzip looks for "gzip" in the text of Accept-Encoding, so that `gzip;q=0` gets
  a compressed body (zip.py:27: `request.gzip` is that text, not the client's
  wish); a 304 or 404 behind Gzip gets a compressed empty body;
  Gzip raises for a generator; Log raises without a Host header, and what the
  application did is done; a generator is logged as 200 whatever it says later
  (what sample/iter/test.py:16 says of its status is no longer so);
  delete_cookie raises unless the response has set a cookie; set_cookie with a
  datetime raises NameError.
* CGI: the scripts' environment keeps the headers of earlier requests
  (cgiapp.py:28; no property says otherwise); CONTENT_LENGTH, an integer, is
  not passed on; a script's "Content-length" stays beside the "Content-Length"
  Gzip adds and tells the length before compression (`ScriptHeaders`,
  `Lengths`); anything on stderr is a page with status 200; output without
  an empty line, or a status without a reason, is a 500.
* Wiki: a page whose name does not start with a letter, or is changed by
  normpath, can be saved and not shown.

## Not modelled

* Startup (sockets, signals but SIGINT and SIGTERM), configuration, logging,
  time formats, the build: straight code, nothing later depends on it but what
  the models start with.
* Reference counts of the extension. Which call steals or borrows a reference
  is a convention of the interpreter for each function; there is no
  interleaving to explore, and a model would restate the calls.
* `base.Environ` (a dictionary of constants), `django_handler` and
  `sample/proxy`, which pass requests on to programs outside the repository,
  and samples of a few lines around calls the models contain.
* `submit` and `render_list` of forms, which build text; page templates.
* Several processes (push.py:423-526, marked to be ignored), GitStorage and
  DBstorage (empty).
* Explicit `update_expdate`, and clocks that jump, in Sessions.
* Stopping the loop with functions still deferred: they are lost, and
  AppCallbacks does not stop.
* RequestReader, HeaderParser and Dispatch in one module: each hands the next
  a value (a complete header, a dictionary) that the next one takes from all
  possible values already, and they share no state.

## What could follow

The refinement of `DeferredResponse` with its liveness needs a prover with
temporal rules. Proofs that speak of header lines and parameters of any text,
not of the few the modules build them from, would need more lemmas of the kind
`Layout` is. What is left of the code is listed above.
