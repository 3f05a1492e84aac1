-------------------------- MODULE DeferredResponse --------------------------
(***************************************************************************)
(* What the pair register_client / write_response promises to an           *)
(* application, without watchers, structs or a registry: a request may be  *)
(* parked under a ticket, a parked request is ended by exactly one of an   *)
(* answer and an expiry, and an answer reaches the connection that took    *)
(* the ticket.  MainLoop is shown to implement this module.                *)
(***************************************************************************)
EXTENDS Integers

CONSTANTS
    Conn,       \* connections
    PyId,       \* identities of the application's Client objects
    NoId        \* no identity

VARIABLES
    status,     \* status[c]: where connection c stands
    ticket,     \* ticket[c]: the identity c is parked under
    stopped     \* the loop was asked to stop

vars == <<status, ticket, stopped>>

Status == {"none", "request", "waiting", "response"}

TypeOK ==
    /\ status \in [Conn -> Status]
    /\ ticket \in [Conn -> PyId \cup {NoId}]
    /\ stopped \in BOOLEAN

Init ==
    /\ status = [c \in Conn |-> "none"]
    /\ ticket = [c \in Conn |-> NoId]
    /\ stopped = FALSE

Move(c, from, to, t) ==
    /\ status[c] = from
    /\ status' = [status EXCEPT ![c] = to]
    /\ ticket' = [ticket EXCEPT ![c] = t]
    /\ UNCHANGED stopped

\* A client connects, and its request is read.
Connect(c) == Move(c, "none", "request", NoId)

\* The application answers at once.
Respond(c) == Move(c, "request", "response", NoId)

\* The application parks the request under a ticket nobody else waits with.
Park(c, p) ==
    /\ \A o \in Conn : status[o] = "waiting" => ticket[o] # p
    /\ Move(c, "request", "waiting", p)

\* The ticket is answered: its one holder stops waiting and is written to.
Answer(c) == Move(c, "waiting", "response", NoId)

\* Nobody answered in time: the holder is disconnected, unanswered.
Expire(c) == Move(c, "waiting", "none", NoId)

\* The connection ends: request refused or broken, or response written.
Finish(c) ==
    \/ Move(c, "request", "none", NoId)
    \/ Move(c, "response", "none", NoId)

Stop ==
    /\ ~stopped
    /\ stopped' = TRUE
    /\ UNCHANGED <<status, ticket>>

Next ==
    \/ \E c \in Conn :
        \/ Connect(c) \/ Respond(c) \/ Answer(c) \/ Expire(c) \/ Finish(c)
        \/ \E p \in PyId : Park(c, p)
    \/ Stop

\* Until the server is told to stop, nobody waits for ever and every
\* response is written to its end.
Fairness ==
    \A c \in Conn :
        /\ WF_vars(~stopped /\ (Answer(c) \/ Expire(c)))
        /\ WF_vars(~stopped /\ Move(c, "response", "none", NoId))

Spec == Init /\ [][Next]_vars /\ Fairness

=============================================================================
