------------------------------ MODULE MainLoop ------------------------------
(***************************************************************************)
(* The event loop of fapws: the life of a struct client from accept_cb to  *)
(* close_connection (mainloop.c), its three watchers (ev_read, ev_write    *)
(* and the timer tout), the registry of parked clients (client.c) and the  *)
(* two calls an application parks and answers a client with,               *)
(* register_client and write_response (_evwsgi.c).                         *)
(*                                                                         *)
(* One thread runs everything.  Every callback is an action, except those  *)
(* that call into the application: they are a start and an end, with the   *)
(* calls the application makes in between (variable fn says where the      *)
(* thread is).  Python code that runs from a Python timer, an idle         *)
(* callback or a response generator calls the server while fn = "loop".    *)
(***************************************************************************)
EXTENDS Integers, FiniteSets

CONSTANTS
    Conn,       \* addresses a struct client can have
    NoConn,     \* the NULL struct client
    PyId,       \* values Client.id() can return
    NoId,       \* the id of a struct that never was registered
    NotFound,   \* -1, for an id() that PyLong_AsLong cannot tell or is a Python long
    MaxRetry,   \* MAX_RETRY: failed reads a connection survives
    MaxIter,    \* bound: chunks of the longest body
    AppFaults   \* ways in which the application misuses the server

Faults == {"no_register", "register_and_answer", "timeout_answers", "id_reuse"}

ASSUME ConstantsAssumption ==
    /\ NoConn \notin Conn
    /\ NoId \notin PyId
    /\ MaxRetry \in Nat
    /\ MaxIter \in Nat
    /\ AppFaults \subseteq Faults

VARIABLES
    cli,        \* cli[c]: "free", "open", or "lost" (allocated, never freed)
    got,        \* got[c]: input_header was written to
    retry,      \* retry[c]: failed reads so far
    evRead,     \* evRead[c]: ev_read is active
    evWrite,    \* evWrite[c]: the callback ev_write is active with, or "off"
    timer,      \* timer[c]: tout.timerwatcher is active
    iter,       \* iter[c]: response_iter_sent
    id,         \* id[c]: the id it was last registered with
    rb,         \* rb[p]: the struct registered with id p
    current,    \* _current_client
    fn,         \* where the thread is
    arg,        \* the struct on its stack, in "handler" and "timeout"
    unloop,     \* ev_unloop was called
    heads       \* history: heads[c] counts the response headers written

clients == <<cli, got, retry, evRead, evWrite, timer, iter, id, heads>>
vars == <<cli, got, retry, evRead, evWrite, timer, iter, id, heads,
          rb, current, fn, arg, unloop>>

Iter == -2 .. MaxIter
WriteCallbacks == {"write_cb", "write_response_cb"}

Init ==
    /\ cli = [c \in Conn |-> "free"]
    /\ got = [c \in Conn |-> FALSE]
    /\ retry = [c \in Conn |-> 0]
    /\ evRead = [c \in Conn |-> FALSE]
    /\ evWrite = [c \in Conn |-> "off"]
    /\ timer = [c \in Conn |-> FALSE]
    /\ iter = [c \in Conn |-> -2]
    /\ id = [c \in Conn |-> NoId]
    /\ rb = [p \in PyId |-> NoConn]
    /\ current = NoConn
    /\ fn = "loop"
    /\ arg = NoConn
    /\ unloop = FALSE
    /\ heads = [c \in Conn |-> 0]

-----------------------------------------------------------------------------
(* The struct client *)

\* What the application may do when it keeps to the rules (ok), or breaks one.
Allowed(fault, ok) == ok \/ fault \in AppFaults

\* close_connection frees the struct.  It stops no watcher and leaves the
\* registry alone.  A freed struct has no contents: calloc's stand for them.
CloseConnection(c) ==
    /\ cli' = [cli EXCEPT ![c] = "free"]
    /\ got' = [got EXCEPT ![c] = FALSE]
    /\ retry' = [retry EXCEPT ![c] = 0]
    /\ iter' = [iter EXCEPT ![c] = -2]
    /\ id' = [id EXCEPT ![c] = NoId]
    /\ heads' = [heads EXCEPT ![c] = 0]

\* The loop runs a callback of c.  What a callback does with a struct that
\* was freed under it is undefined; NoDanglingPointer excludes it.
Runs(c) == fn = "loop" /\ cli[c] = "open"

\* response_iter_sent++ after the header was handed to write_cli.
HeaderSent(c) ==
    /\ iter' = [iter EXCEPT ![c] = @ + 1]
    /\ heads' = [heads EXCEPT ![c] = @ + 1]

\* accept_cb: a fresh struct, zeroed, waiting for input.  (When accept or
\* setnonblock fails, no struct is left.)
Accept(c) ==
    /\ fn = "loop"
    /\ cli[c] = "free"
    /\ cli' = [cli EXCEPT ![c] = "open"]
    /\ evRead' = [evRead EXCEPT ![c] = TRUE]
    /\ evWrite' = [evWrite EXCEPT ![c] = "off"]
    /\ timer' = [timer EXCEPT ![c] = FALSE]
    /\ UNCHANGED <<got, retry, iter, id, heads, rb, current, fn, arg, unloop>>

-----------------------------------------------------------------------------
(* connection_cb *)

\* Bytes arrive; header or body is still incomplete.
ReadMore(c) ==
    /\ Runs(c) /\ evRead[c]
    /\ got' = [got EXCEPT ![c] = TRUE]
    /\ UNCHANGED <<cli, retry, evRead, evWrite, timer, iter, id, heads,
                   rb, current, fn, arg, unloop>>

\* The bytes read so far are taken for the whole request.
StartWriting(c) ==
    /\ evRead' = [evRead EXCEPT ![c] = FALSE]
    /\ evWrite' = [evWrite EXCEPT ![c] = "write_cb"]
    /\ UNCHANGED <<cli, retry, timer, iter, id, heads,
                   rb, current, fn, arg, unloop>>

ReadRequest(c) ==
    /\ Runs(c) /\ evRead[c]
    /\ got' = [got EXCEPT ![c] = TRUE]
    /\ StartWriting(c)

\* End of file.  input_header is one byte nobody wrote when nothing was
\* read, so strlen() of it is zero or not.
ReadEof(c) ==
    /\ Runs(c) /\ evRead[c]
    /\ UNCHANGED got
    /\ StartWriting(c)

\* ... and if it is zero the descriptor is closed and the struct forgotten.
ReadNothing(c) ==
    /\ Runs(c) /\ evRead[c] /\ ~got[c]
    /\ evRead' = [evRead EXCEPT ![c] = FALSE]
    /\ cli' = [cli EXCEPT ![c] = "lost"]
    /\ UNCHANGED <<got, retry, evWrite, timer, iter, id, heads,
                   rb, current, fn, arg, unloop>>

\* Mutant: one retry too many.
ReadErrorOnceMore(c) ==
    /\ Runs(c) /\ evRead[c]
    /\ retry[c] <= MaxRetry
    /\ retry' = [retry EXCEPT ![c] = @ + 1]
    /\ UNCHANGED <<cli, got, evRead, evWrite, timer, iter, id, heads,
                   rb, current, fn, arg, unloop>>

\* read() failed: try again when the loop calls next ...
ReadError(c) ==
    /\ Runs(c) /\ evRead[c]
    /\ retry[c] < MaxRetry
    /\ retry' = [retry EXCEPT ![c] = @ + 1]
    /\ UNCHANGED <<cli, got, evRead, evWrite, timer, iter, id, heads,
                   rb, current, fn, arg, unloop>>

\* ... or give up.
ReadGivesUp(c) ==
    /\ Runs(c) /\ evRead[c]
    /\ retry[c] = MaxRetry
    /\ evRead' = [evRead EXCEPT ![c] = FALSE]
    /\ CloseConnection(c)
    /\ UNCHANGED <<evWrite, timer, rb, current, fn, arg, unloop>>

-----------------------------------------------------------------------------
(* write_cb and python_handler *)

Answers(c) == Runs(c) /\ evWrite[c] = "write_cb"

\* python_handler refuses the request (404, 411, 500, 501).
WriteHttpError(c) ==
    /\ Answers(c) /\ iter[c] = -2
    /\ evWrite' = [evWrite EXCEPT ![c] = "off"]
    /\ CloseConnection(c)
    /\ UNCHANGED <<evRead, timer, rb, current, fn, arg, unloop>>

\* python_handler answers OPTIONS itself.
WriteOptions(c) ==
    /\ Answers(c) /\ iter[c] = -2
    /\ HeaderSent(c)
    /\ UNCHANGED <<cli, got, retry, evRead, evWrite, timer, id,
                   rb, current, fn, arg, unloop>>

\* python_handler calls the application.
HandlerStart(c) ==
    /\ Answers(c) /\ iter[c] = -2
    /\ current' = c
    /\ fn' = "handler"
    /\ arg' = c
    /\ UNCHANGED <<clients, rb, unloop>>

InHandler(c) == fn = "handler" /\ arg = c

\* The handler returned content, raised, or returned nothing: a header is
\* written, and whether that succeeded is not looked at.
HandlerReturnsContent(c) ==
    /\ InHandler(c)
    /\ Allowed("register_and_answer", ~timer[c])
    /\ HeaderSent(c)
    /\ current' = NoConn
    /\ fn' = "loop"
    /\ arg' = NoConn
    /\ UNCHANGED <<cli, got, retry, evRead, evWrite, timer, id, rb, unloop>>

\* Mutant: ev_write is left running.
HandlerReturnsTrueStillWriting(c) ==
    /\ InHandler(c)
    /\ Allowed("no_register", timer[c])
    /\ current' = NoConn
    /\ fn' = "loop"
    /\ arg' = NoConn
    /\ UNCHANGED <<cli, got, retry, evRead, evWrite, timer, iter, id, heads,
                   rb, unloop>>

\* The handler returned True: stop writing and wait for write_response.
HandlerReturnsTrue(c) ==
    /\ InHandler(c)
    /\ Allowed("no_register", timer[c])
    /\ evWrite' = [evWrite EXCEPT ![c] = "off"]
    /\ current' = NoConn
    /\ fn' = "loop"
    /\ arg' = NoConn
    /\ UNCHANGED <<cli, got, retry, evRead, timer, iter, id, heads, rb, unloop>>

\* One call of write_cb sends one chunk; a failed write skips the rest.
WriteChunk(c) ==
    /\ Answers(c)
    /\ iter[c] \in -1 .. MaxIter - 1
    /\ \E n \in Iter : n > iter[c] /\ iter' = [iter EXCEPT ![c] = n]
    /\ UNCHANGED <<cli, got, retry, evRead, evWrite, timer, id, heads,
                   rb, current, fn, arg, unloop>>

\* Nothing is left, the request was HEAD, or the body is of no known type.
WriteEnd(c) ==
    /\ Answers(c) /\ iter[c] # -2
    /\ evWrite' = [evWrite EXCEPT ![c] = "off"]
    /\ CloseConnection(c)
    /\ UNCHANGED <<evRead, timer, rb, current, fn, arg, unloop>>

-----------------------------------------------------------------------------
(* register_client, write_response and their callbacks *)

\* The timer is armed before the id is looked up; when another struct holds
\* the id the call returns False and the timer stays.  The -1 of an id that
\* get_py_client_id refuses is not looked at: it is registered like an id,
\* and is taken for the next client with such an id.  An application calls
\* this at most once per request, in the handler (get_current_client is NULL
\* anywhere else).
RegisterClient(c, p) ==
    /\ InHandler(c) /\ current = c
    /\ ~timer[c]
    /\ Allowed("id_reuse", rb[p] = NoConn)
    /\ timer' = [timer EXCEPT ![c] = TRUE]
    /\ id' = [id EXCEPT ![c] = p]
    /\ rb' = [rb EXCEPT ![p] = IF @ = NoConn THEN c ELSE @]
    /\ UNCHANGED <<cli, got, retry, evRead, evWrite, iter, heads,
                   current, fn, arg, unloop>>

Unregister(c) == rb' = [p \in PyId |-> IF p = id[c] THEN NoConn ELSE rb[p]]

\* Mutants: the timer is left running; the registration is left behind.
WriteResponseTimerOn(p) ==
    /\ fn # "ended"
    /\ p # NotFound
    /\ rb[p] # NoConn
    /\ rb[p] # current
    /\ Allowed("timeout_answers", ~(fn = "timeout" /\ arg = rb[p]))
    /\ evWrite' = [evWrite EXCEPT ![rb[p]] = "write_response_cb"]
    /\ Unregister(rb[p])
    /\ UNCHANGED <<cli, got, retry, evRead, timer, iter, id, heads,
                   current, fn, arg, unloop>>

WriteResponseRegistered(p) ==
    /\ fn # "ended"
    /\ p # NotFound
    /\ rb[p] # NoConn
    /\ rb[p] # current
    /\ Allowed("timeout_answers", ~(fn = "timeout" /\ arg = rb[p]))
    /\ timer' = [timer EXCEPT ![rb[p]] = FALSE]
    /\ evWrite' = [evWrite EXCEPT ![rb[p]] = "write_response_cb"]
    /\ UNCHANGED <<cli, got, retry, evRead, iter, id, heads, rb,
                   current, fn, arg, unloop>>

\* write_response for the client registered with id p.  For an id nobody is
\* registered with nothing changes, nor for -1, which get_client does not look
\* up: who is registered with that waits for its timeout.
WriteResponse(p) ==
    /\ fn # "ended"
    /\ p # NotFound
    /\ rb[p] # NoConn
    /\ rb[p] # current
    /\ Allowed("timeout_answers", ~(fn = "timeout" /\ arg = rb[p]))
    /\ timer' = [timer EXCEPT ![rb[p]] = FALSE]
    /\ evWrite' = [evWrite EXCEPT ![rb[p]] = "write_response_cb"]
    /\ Unregister(rb[p])
    /\ UNCHANGED <<cli, got, retry, evRead, iter, id, heads,
                   current, fn, arg, unloop>>

\* Mutants: iter is not advanced; write_cb is not started.
WriteResponseHeaderUncounted(c) ==
    /\ Runs(c) /\ evWrite[c] = "write_response_cb"
    /\ timer' = [timer EXCEPT ![c] = FALSE]
    /\ heads' = [heads EXCEPT ![c] = @ + 1]
    /\ evWrite' = [evWrite EXCEPT ![c] = "write_cb"]
    /\ UNCHANGED <<cli, got, retry, evRead, iter, id, rb, current, fn, arg, unloop>>

WriteResponseHeaderOnly(c) ==
    /\ Runs(c) /\ evWrite[c] = "write_response_cb"
    /\ timer' = [timer EXCEPT ![c] = FALSE]
    /\ HeaderSent(c)
    /\ evWrite' = [evWrite EXCEPT ![c] = "off"]
    /\ UNCHANGED <<cli, got, retry, evRead, id, rb, current, fn, arg, unloop>>

\* write_response_cb wrote the header: write_cb sends the body.
WriteResponseHeader(c) ==
    /\ Runs(c) /\ evWrite[c] = "write_response_cb"
    /\ timer' = [timer EXCEPT ![c] = FALSE]
    /\ HeaderSent(c)
    /\ evWrite' = [evWrite EXCEPT ![c] = "write_cb"]
    /\ UNCHANGED <<cli, got, retry, evRead, id, rb, current, fn, arg, unloop>>

\* write_response_cb could not write the header.
WriteResponseFails(c) ==
    /\ Runs(c) /\ evWrite[c] = "write_response_cb"
    /\ timer' = [timer EXCEPT ![c] = FALSE]
    /\ evWrite' = [evWrite EXCEPT ![c] = "off"]
    /\ CloseConnection(c)
    /\ UNCHANGED <<evRead, rb, current, fn, arg, unloop>>

\* timeout_cb up to the call of the client's timeout_cb ...
TimeoutStart(c) ==
    /\ Runs(c) /\ timer[c]
    /\ timer' = [timer EXCEPT ![c] = FALSE]
    /\ evWrite' = [evWrite EXCEPT ![c] = "off"]
    /\ evRead' = [evRead EXCEPT ![c] = FALSE]
    /\ fn' = "timeout"
    /\ arg' = c
    /\ UNCHANGED <<cli, got, retry, iter, id, heads, rb, current, unloop>>

\* Mutant: the expired client stays registered.
TimeoutEndRegistered(c) ==
    /\ fn = "timeout" /\ arg = c
    /\ CloseConnection(c)
    /\ fn' = "loop"
    /\ arg' = NoConn
    /\ UNCHANGED <<evRead, evWrite, timer, rb, current, unloop>>

\* ... and after it.
TimeoutEnd(c) ==
    /\ fn = "timeout" /\ arg = c
    /\ Unregister(c)
    /\ CloseConnection(c)
    /\ fn' = "loop"
    /\ arg' = NoConn
    /\ UNCHANGED <<evRead, evWrite, timer, current, unloop>>

-----------------------------------------------------------------------------
(* Signals *)

\* sigint_cb, sigterm_cb: callbacks already pending still run.
Sigint ==
    /\ fn = "loop" /\ ~unloop
    /\ unloop' = TRUE
    /\ UNCHANGED <<clients, rb, current, fn, arg>>

\* ev_loop returns and py_run_loop destroys the registry.
LoopReturns ==
    /\ fn = "loop" /\ unloop
    /\ fn' = "ended"
    /\ rb' = [p \in PyId |-> NoConn]
    /\ UNCHANGED <<clients, current, arg, unloop>>

-----------------------------------------------------------------------------
Connection(c) ==
    \/ Accept(c)
    \/ ReadMore(c) \/ ReadRequest(c) \/ ReadEof(c) \/ ReadNothing(c)
    \/ ReadError(c) \/ ReadGivesUp(c)
    \/ WriteHttpError(c) \/ WriteOptions(c) \/ HandlerStart(c)
    \/ HandlerReturnsContent(c) \/ HandlerReturnsTrue(c)
    \/ WriteChunk(c) \/ WriteEnd(c)
    \/ \E p \in PyId : RegisterClient(c, p)
    \/ WriteResponseHeader(c) \/ WriteResponseFails(c)
    \/ TimeoutStart(c) \/ TimeoutEnd(c)

Next ==
    \/ \E c \in Conn : Connection(c)
    \/ \E p \in PyId : WriteResponse(p)
    \/ Sigint
    \/ LoopReturns

\* What write_cb does when the loop runs it.
WriteCb(c) ==
    \/ WriteHttpError(c) \/ WriteOptions(c) \/ HandlerStart(c)
    \/ WriteChunk(c) \/ WriteEnd(c)

\* libev calls every pending callback in each iteration, so a watcher that
\* is ready again and again is served: strong fairness, because no callback
\* runs while the application does.  An application's handler returns, and
\* so does its timeout_cb.
Fairness ==
    \A c \in Conn :
        /\ SF_vars(WriteCb(c))
        /\ SF_vars(WriteResponseHeader(c) \/ WriteResponseFails(c))
        /\ SF_vars(TimeoutStart(c))
        /\ WF_vars(HandlerReturnsContent(c) \/ HandlerReturnsTrue(c))
        /\ WF_vars(TimeoutEnd(c))

Spec == Init /\ [][Next]_vars
FairSpec == Spec /\ Fairness

-----------------------------------------------------------------------------
(* Properties *)

\* Every variable has its type; retry stays within MAX_RETRY.
TypeOK ==
    /\ cli \in [Conn -> {"free", "open", "lost"}]
    /\ got \in [Conn -> BOOLEAN]
    /\ retry \in [Conn -> 0 .. MaxRetry]
    /\ evRead \in [Conn -> BOOLEAN]
    /\ evWrite \in [Conn -> WriteCallbacks \cup {"off"}]
    /\ timer \in [Conn -> BOOLEAN]
    /\ iter \in [Conn -> Iter]
    /\ id \in [Conn -> PyId \cup {NoId}]
    /\ rb \in [PyId -> Conn \cup {NoConn}]
    /\ current \in Conn \cup {NoConn}
    /\ fn \in {"loop", "handler", "timeout", "ended"}
    /\ arg \in Conn \cup {NoConn}
    /\ unloop \in BOOLEAN
    /\ heads \in [Conn -> Nat]

Watched(c) == evRead[c] \/ evWrite[c] # "off" \/ timer[c]

\* close_connection stops no watcher and forgets no registration, yet
\* nothing ever points to a freed struct: no watcher the loop could run, no
\* registry entry write_response could find, not _current_client, and not
\* the callback on the stack.
NoDanglingPointer ==
    /\ \A c \in Conn : Watched(c) => cli[c] = "open"
    /\ \A p \in PyId : rb[p] # NoConn => cli[rb[p]] = "open"
    /\ current # NoConn => cli[current] = "open"
    /\ arg # NoConn => cli[arg] = "open"

\* Between callbacks every open connection is driven by exactly one of its
\* three watchers.  None would be a connection nobody ever closes, two would
\* be a callback running on a struct the other one freed.
OneDriver ==
    fn = "loop" =>
        \A c \in Conn : cli[c] = "open" =>
            /\ Watched(c)
            /\ evRead[c] => evWrite[c] = "off"
            /\ timer[c] => ~evRead[c] /\ evWrite[c] = "off"

\* c waits for an answer, or its timeout_cb is being called.
Waiting(c) == timer[c] \/ (fn = "timeout" /\ arg = c)

\* While the loop runs, write_response finds exactly the clients that wait:
\* a waiting connection is registered with its own id, and a registered
\* connection waits.  In particular no timeout removes another client's entry.
RegistryExact ==
    /\ \A c \in Conn : Waiting(c) /\ fn # "ended" =>
        /\ id[c] \in PyId
        /\ rb[id[c]] = c
    /\ \A p \in PyId : rb[p] # NoConn =>
        /\ id[rb[p]] = p
        /\ Waiting(rb[p])

\* A response has one header, whether it is written by write_cb or by
\* write_response_cb, and response_iter_sent says whether it was written.
OneHeader == \A c \in Conn : heads[c] = IF iter[c] = -2 THEN 0 ELSE 1

\* _current_client is set exactly while a handler runs, and to its client:
\* no callback leaves it behind for a later register_client.
CurrentExact == current = IF fn = "handler" THEN arg ELSE NoConn

\* Once write_response was called for a client, its timeout does not fire
\* any more, whatever is pending: it gets its header or is closed.
AnsweredNeverExpires ==
    [][\A c \in Conn : evWrite[c] = "write_response_cb"
            => ~timer'[c] /\ ~(fn' = "timeout" /\ arg' = c)]_vars

\* Every connection whose request was read is closed some day, unless the
\* server is told to stop.
RequestsEnd ==
    \A c \in Conn : cli[c] = "open" /\ ~evRead[c] ~> cli[c] = "free" \/ unloop

-----------------------------------------------------------------------------
(* What an application sees of this is DeferredResponse. *)

StatusOf(c) ==
    IF cli[c] # "open" THEN "none"
    ELSE IF Waiting(c) THEN "waiting"
    ELSE IF evWrite[c] = "write_response_cb" \/ iter[c] # -2 THEN "response"
    ELSE "request"

TicketOf(c) == IF Waiting(c) THEN id[c] ELSE NoId

Abstract == INSTANCE DeferredResponse WITH
    status <- [c \in Conn |-> StatusOf(c)],
    ticket <- [c \in Conn |-> TicketOf(c)],
    stopped <- unloop

\* register_client, write_response and the timeout implement the abstract
\* protocol: one answer or one expiry per parked request, never both, the
\* answer goes to the holder of the ticket, and nobody waits for ever.
ImplementsDeferredResponse == Abstract!Spec

=============================================================================
