------------------------------ MODULE PushChannel ------------------------------
(***************************************************************************)
(* sample/push/push.py: clients subscribe to a channel for a message; those *)
(* that ask for one that is still to come are parked, and answered by the  *)
(* handler of the publisher.  The server they are parked with is the       *)
(* abstract one, DeferredResponse, which MainLoop implements.              *)
(*                                                                         *)
(* A handler runs without interruption.  The publish handler is several    *)
(* actions, one for each client it writes to; "publication" says where it  *)
(* is, and while it is there the loop runs nothing else.                   *)
(*                                                                         *)
(* A channel without messages is false, for its __len__ is 0, and every    *)
(* test of the program treats it like one that does not exist.  The        *)
(* channel's timeout has no model: a parked client may expire at any time. *)
(***************************************************************************)
EXTENDS MessageStream

CONSTANTS
    Conn,       \* connections
    Client,     \* what id() can return for a Client object
    NoClient,   \* the id of none
    Channel,    \* names of channels
    MaxMid      \* bound: the greatest id a client uses; the smallest is -1

ASSUME ConstantsAssumption ==
    /\ NoClient \notin Client
    /\ NoMessage \notin Message
    /\ MaxMid \in Nat

VARIABLES
    status,         \* of the server: where a connection stands
    ticket,         \* of the server: the Client a connection is parked under
    stopped,        \* of the server: asked to stop
    stream,         \* stream[n]: the messages of channel n
    subs,           \* subs[n]: the keys of its dictionary of subscribers
    wants,          \* wants[c]: the channel and message a parked c asked for
    answer,         \* the last response of the application, and to whom
    publication     \* the publish handler that runs

server == <<status, ticket, stopped>>
vars == <<status, ticket, stopped, stream, subs, wants, answer, publication>>

Server == INSTANCE DeferredResponse WITH PyId <- Client, NoId <- NoClient

Mid == -1 .. MaxMid

\* A status and messages; a body without messages is a text.
Plain(code) == [code |-> code, mesgs |-> <<>>]
Mesgs(list) == [code |-> 200, mesgs |-> list]
NoAnswer == <<>>

Nothing == [conn |-> NoClient]
Publications ==
    [conn : Conn, channel : Channel, message : Message,
     left : SUBSET Client]

Init ==
    /\ Server!Init
    /\ stream = [n \in Channel |-> <<>>]
    /\ subs = [n \in Channel |-> {}]
    /\ wants = [c \in Conn |-> <<>>]
    /\ answer = NoAnswer
    /\ publication = Nothing

InLoop == publication = Nothing

\* A handler returns its response: the connection goes on with it.
Responds(c, a) ==
    /\ Server!Respond(c)
    /\ answer' = <<c, a>>

-----------------------------------------------------------------------------
(* Channel *)

\* get_message, of a message that is there or that is a hole.
GetMessage(s, mid) ==
    IF IndexError(s, mid) THEN Plain(500)
    ELSE IF s[Index(s, mid)] = NoMessage THEN Plain(204)
    ELSE Mesgs(<<s[Index(s, mid)]>>)

\* subscribe and unsubscribe; the server's side of it is Park and Expire.
Subscribe(n, p) == subs' = [subs EXCEPT ![n] = @ \cup {p}]
Unsubscribe(n, p) == subs' = [subs EXCEPT ![n] = @ \ {p}]

\* The id of a new object is not that of one a dictionary holds.
NewClient(p) == \A n \in Channel : p \notin subs[n]

-----------------------------------------------------------------------------
(* The handler of /broadcast/sub *)

\* What it answers when it does not park the client; mode is the parameter s.
Found(s, mode, mid) ==
    CASE s = <<>>   -> Plain(404)
      [] mode = "M" -> GetMessage(s, mid)
      [] mode = "F" -> Mesgs(FirstOnes(s, mid))
      [] mode = "L" -> Mesgs(LastOnes(s, mid))
      [] mode = "A" -> Mesgs(FirstOnes(s, Len(s)))
      [] OTHER      -> Plain(400)

\* get_message returns None.
StillToCome(s, mode, mid) == s # <<>> /\ mode = "M" /\ ~Has(s, mid)

SubscribeAnswered(c, n, mode, mid) ==
    /\ InLoop
    /\ ~StillToCome(stream[n], mode, mid)
    /\ Responds(c, Found(stream[n], mode, mid))
    /\ UNCHANGED <<stream, subs, wants, publication>>

\* A parameter is missing or is no number: KeyError or ValueError.
SubscribeFails(c) ==
    /\ InLoop
    /\ Responds(c, Plain(500))
    /\ UNCHANGED <<stream, subs, wants, publication>>

\* The client is parked.  That no other one waits under its id (a guard of
\* Park) is for SubsAreParked to show.
SubscribeParked(c, p, n, mid) ==
    /\ InLoop
    /\ NewClient(p)
    /\ StillToCome(stream[n], "M", mid)
    /\ Server!Park(c, p)
    /\ Subscribe(n, p)
    /\ wants' = [wants EXCEPT ![c] = <<n, mid>>]
    /\ UNCHANGED <<stream, answer, publication>>

\* Mutant: the dictionary is not told.
TimeoutStaysSubscribed(c) ==
    /\ InLoop
    /\ Server!Expire(c)
    /\ wants' = [wants EXCEPT ![c] = <<>>]
    /\ UNCHANGED <<stream, subs, answer, publication>>

\* do_timeout, and the end of the client in timeout_cb.
Timeout(c) ==
    /\ InLoop
    /\ Server!Expire(c)
    /\ Unsubscribe(wants[c][1], ticket[c])
    /\ wants' = [wants EXCEPT ![c] = <<>>]
    /\ UNCHANGED <<stream, answer, publication>>

-----------------------------------------------------------------------------
(* The handler of /broadcast/pub *)

\* Not a POST or a parameter missing (400); an id that is no number, or no
\* valid timeout, for the default of line 402 does not exist (500).
PublishFails(c, code) ==
    /\ InLoop
    /\ Responds(c, Plain(code))
    /\ UNCHANGED <<stream, subs, wants, publication>>

\* An id from before the start of the list; nobody can be subscribed to an
\* empty channel.
PublishNowhere(c, n, mid) ==
    /\ InLoop
    /\ IndexError(stream[n], mid)
    /\ Responds(c, Plain(500))
    /\ UNCHANGED <<stream, subs, wants, publication>>

\* Mutant: the comment of line 211 is heeded, and only those clients are
\* written to that wait for this message.
PublishForThose(c, n, m) ==
    /\ InLoop
    /\ status[c] = "request"
    /\ ~IndexError(stream[n], m.mid)
    /\ stream' = [stream EXCEPT ![n] = Insert(@, m)]
    /\ publication' = [conn |-> c, channel |-> n, message |-> m, left |->
                        {p \in subs[n] : \E o \in Conn :
                            ticket[o] = p /\ wants[o][2] = m.mid}]
    /\ UNCHANGED <<status, ticket, stopped, subs, wants, answer>>

\* publish, up to the loop over the subscribers.
Publish(c, n, m) ==
    /\ InLoop
    /\ status[c] = "request"
    /\ ~IndexError(stream[n], m.mid)
    /\ stream' = [stream EXCEPT ![n] = Insert(@, m)]
    /\ publication' =
           [conn |-> c, channel |-> n, message |-> m, left |-> subs[n]]
    /\ UNCHANGED <<status, ticket, stopped, subs, wants, answer>>

\* send_message.  write_response finds the client by its id.
SendMessage(c) ==
    /\ ~InLoop
    /\ ticket[c] \in publication.left
    /\ Server!Answer(c)
    /\ answer' = <<c, GetMessage(stream[publication.channel],
                                publication.message.mid)>>
    /\ publication' = [publication EXCEPT !.left = @ \ {ticket[c]}]
    /\ wants' = [wants EXCEPT ![c] = <<>>]
    /\ UNCHANGED <<stream, subs>>

\* The rest of publish: the dictionary is cleared, the publisher answered.
PublishEnds ==
    /\ ~InLoop /\ publication.left = {}
    /\ subs' = [subs EXCEPT ![publication.channel] = {}]
    /\ Responds(publication.conn, Plain(200))
    /\ publication' = Nothing
    /\ UNCHANGED <<stream, wants>>

-----------------------------------------------------------------------------
(* The server *)

Connects(c) ==
    /\ InLoop
    /\ Server!Connect(c)
    /\ UNCHANGED <<stream, subs, wants, answer, publication>>

\* A response is written, or a request refused or broken.
Finishes(c) ==
    /\ InLoop
    /\ Server!Finish(c)
    /\ answer' = NoAnswer
    /\ UNCHANGED <<stream, subs, wants, publication>>

Stops ==
    /\ InLoop
    /\ Server!Stop
    /\ UNCHANGED <<stream, subs, wants, answer, publication>>

-----------------------------------------------------------------------------

Modes == {"M", "F", "L", "A", "X"}

\* A request of connection c about channel n, with an id.
Request(c, n, mid) ==
    \/ \E mode \in Modes : SubscribeAnswered(c, n, mode, mid)
    \/ \E p \in Client : SubscribeParked(c, p, n, mid)
    \/ PublishNowhere(c, n, mid)
    \/ \E t \in Content : Publish(c, n, [mid |-> mid, content |-> t])

Connection(c) ==
    \/ Connects(c) \/ Finishes(c) \/ Timeout(c) \/ SendMessage(c)
    \/ SubscribeFails(c)
    \/ \E code \in {400, 500} : PublishFails(c, code)
    \/ \E n \in Channel, mid \in Mid : Request(c, n, mid)

Next ==
    \/ \E c \in Conn : Connection(c)
    \/ PublishEnds
    \/ Stops

Spec == Init /\ [][Next]_vars

-----------------------------------------------------------------------------
(* Properties *)

\* The clients that wait for a message of channel n, and their ids.
Waiters(n) == {c \in Conn : status[c] = "waiting" /\ wants[c][1] = n}
Tickets(n) == {ticket[c] : c \in Waiters(n)}

\* The dictionaries of the application and the registry of the server agree:
\* subscribed to a channel are exactly the clients that wait for it, and the
\* publish handler is about to write to those alone.  Otherwise publish would
\* call write_response with a client the server does not know, which raises
\* and leaves the others unanswered; or a new Client would get the id of one
\* that waits.
SubsAreParked ==
    \A n \in Channel :
        IF ~InLoop /\ publication.channel = n
        THEN publication.left = Tickets(n)
        ELSE subs[n] = Tickets(n)

\* Between handlers nobody waits for a message that is there, or whose place
\* is a hole: he might wait for ever, since it was published already.
NobodyWaitsInVain ==
    InLoop => \A n \in Channel : \A c \in Waiters(n) : ~Has(stream[n], wants[c][2])

\* Every message is in the place of its id, or of a negative one's.
MessagesInPlace ==
    \A n \in Channel : \A i \in DOMAIN stream[n] :
        stream[n][i] # NoMessage => stream[n][i].mid \in {i - 1, -1}

\* When publish returns, every client that waited for the channel when it was
\* called has been answered with that message.
EveryoneIsTold ==
    [][\A c \in Conn :
        ~InLoop /\ status[c] = "waiting" /\ wants[c][1] = publication.channel =>
            /\ publication' # Nothing
            /\ status'[c] # "waiting" =>
                   answer' = <<c, Mesgs(<<publication.message>>)>>]_vars

\* What is published is there: it stays in its channel, for each id, until
\* that id is published again (or -1 in the last place).
PublishedStays ==
    [][\A n \in Channel : \A i \in DOMAIN stream[n] :
        /\ i \in DOMAIN stream'[n]
        /\ stream'[n][i] # stream[n][i] =>
            /\ publication'.channel = n
            /\ stream'[n][i] = publication'.message
            /\ Index(stream[n], publication'.message.mid) = i]_vars

\* front, back and range return the longest stretch they reach to, back also
\* where it is asked for more messages than there are (to 2 * Len(s) and one
\* more: from there on it returns what it returns then).
FetchExact ==
    \A n \in Channel :
        LET s == stream[n]
        IN  /\ \A count \in 0 .. Len(s) + 1 : FirstExact(s, count)
            /\ \A count \in 0 .. 2 * Len(s) + 1 : LastExact(s, count)
            /\ \A i \in 0 .. Len(s) - 1, count \in 0 .. Len(s) + 1 : FromExact(s, i, count)

\* Holes and overwriting displace no message, and whoever fetches a stretch of
\* them gets it in order and up to the first hole: the stretch of the doc
\* strings, save that back asked for more messages than there are returns
\* fewer than there are (Reach), not all of them.
StreamsExact == MessagesInPlace /\ FetchExact

=============================================================================
