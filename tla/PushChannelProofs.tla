--------------------------- MODULE PushChannelProofs ---------------------------
(***************************************************************************)
(* PushChannel for any number of connections, clients, channels and        *)
(* messages: the dictionaries of the application and the registry of the   *)
(* server agree, nobody waits for a message that is there, and a           *)
(* publication reaches everyone who waits.                                 *)
(***************************************************************************)
EXTENDS PushChannel, SequenceTheorems, WellFoundedInduction, TLAPS

Waits(c) == status[c] = "waiting"

\* What the argument needs of the types.
TypeInv ==
    /\ status \in [Conn -> {"none", "request", "waiting", "response"}]
    /\ ticket \in [Conn -> Client \cup {NoClient}]
    /\ stream \in [Channel -> Streams]
    /\ subs \in [Channel -> SUBSET Client]
    /\ wants \in [Conn -> (Channel \X Mid) \cup {<<>>}]
    /\ publication \in Publications \cup {Nothing}
    /\ \A c \in Conn : Waits(c) => ticket[c] \in Client /\ wants[c] \in Channel \X Mid

\* No two of those who wait have one ticket: write_response reaches the right
\* one, and what Timeout removes is its own entry.
OwnTickets ==
    \A c, d \in Conn : Waits(c) /\ Waits(d) /\ ticket[c] = ticket[d] => c = d

\* A channel that is being published to is the exception while it lasts.
Settled(n) == InLoop \/ publication.channel # n
WaitsForNew ==
    \A n \in Channel : Settled(n) =>
        \A c \in Waiters(n) : ~Has(stream[n], wants[c][2])

\* What publish writes to them is what it stored.
StoredFirst ==
    ~InLoop =>
        LET s == stream[publication.channel]
            m == publication.message
        IN  ~IndexError(s, m.mid) /\ s[Index(s, m.mid)] = m

IInv == TypeInv /\ OwnTickets /\ SubsAreParked /\ WaitsForNew /\ StoredFirst

-----------------------------------------------------------------------------

LEMMA PublicationIsNotNothing ==
  ASSUME NEW p \in Publications
  PROVE  p # Nothing
<1>1. "channel" \in DOMAIN p
  BY DEF Publications
<1>2. "channel" \notin DOMAIN Nothing
  BY DEF Nothing
<1> QED
  BY <1>1, <1>2

LEMMA IInvInit == Init => IInv
<1> SUFFICES ASSUME Init  PROVE IInv
  OBVIOUS
<1>1. \A c \in Conn : ~Waits(c)
  BY DEF Init, Server!Init, Waits
<1>2. \A n \in Channel : Waiters(n) = {} /\ Tickets(n) = {}
  BY <1>1 DEF Waiters, Tickets, Waits
<1>3. InLoop
  BY DEF Init, InLoop
<1>4. <<>> \in Streams
  BY EmptySeq DEF Streams
<1>5. TypeInv
  BY <1>1, <1>4 DEF Init, Server!Init, TypeInv
<1>6. SubsAreParked
  BY <1>2, <1>3 DEF Init, SubsAreParked
<1> QED
  BY <1>1, <1>2, <1>3, <1>5, <1>6 DEF IInv, OwnTickets, WaitsForNew, StoredFirst

\* Who waits, for what and under which ticket, stays as it is.
SameWaiters ==
    \A c \in Conn :
        /\ Waits(c)' <=> Waits(c)
        /\ Waits(c) => ticket'[c] = ticket[c] /\ wants'[c] = wants[c]

LEMMA SameWaitersSameTickets ==
  ASSUME SameWaiters, NEW n \in Channel
  PROVE  Waiters(n)' = Waiters(n) /\ Tickets(n)' = Tickets(n)
<1>1. Waiters(n)' = Waiters(n)
  BY DEF SameWaiters, Waiters, Waits
<1>2. \A c \in Waiters(n) : ticket'[c] = ticket[c]
  BY DEF SameWaiters, Waiters, Waits
<1> QED
  BY <1>1, <1>2 DEF Tickets

\* A move between states other than "waiting".
LEMMA MoveElsewhere ==
  ASSUME TypeInv, NEW c \in Conn, UNCHANGED wants,
         NEW from \in {"none", "request", "response"},
         NEW to \in {"none", "request", "response"},
         Server!Move(c, from, to, NoClient)
  PROVE  /\ SameWaiters
         /\ status' \in [Conn -> {"none", "request", "waiting", "response"}]
         /\ ticket' \in [Conn -> Client \cup {NoClient}]
<1>1. status[c] = from /\ status' = [status EXCEPT ![c] = to]
  BY DEF Server!Move
<1>2. ticket' = [ticket EXCEPT ![c] = NoClient]
  BY DEF Server!Move
<1>3. ASSUME NEW d \in Conn
      PROVE  /\ Waits(d)' <=> Waits(d)
             /\ Waits(d) => ticket'[d] = ticket[d] /\ wants'[d] = wants[d]
  BY <1>1, <1>2, <1>3 DEF TypeInv, Waits
<1> QED
  BY <1>1, <1>2, <1>3 DEF SameWaiters, TypeInv

\* A step that leaves the waiters and the application's data alone.
LEMMA NothingWaited ==
  ASSUME IInv, SameWaiters, UNCHANGED <<stream, subs, wants, publication>>,
         status' \in [Conn -> {"none", "request", "waiting", "response"}],
         ticket' \in [Conn -> Client \cup {NoClient}]
  PROVE  IInv'
<1>1. \A n \in Channel : Waiters(n)' = Waiters(n) /\ Tickets(n)' = Tickets(n)
  BY SameWaitersSameTickets
<1>2. TypeInv'
  BY DEF IInv, TypeInv, SameWaiters
<1>3. OwnTickets'
  BY DEF IInv, OwnTickets, SameWaiters
<1>4. SubsAreParked'
  BY <1>1 DEF IInv, SubsAreParked, InLoop
<1>5. WaitsForNew'
  BY <1>1 DEF IInv, WaitsForNew, Settled, InLoop
<1>6. StoredFirst'
  BY DEF IInv, StoredFirst, InLoop
<1> QED
  BY <1>2, <1>3, <1>4, <1>5, <1>6 DEF IInv

\* Requests that are answered at once, connections that come and go.
LEMMA PassingInv ==
  ASSUME IInv, NEW c \in Conn, UNCHANGED <<stream, subs, wants, publication>>,
         Server!Connect(c) \/ Server!Respond(c) \/ Server!Finish(c)
  PROVE  IInv'
<1>1. \E from, to \in {"none", "request", "response"} :
          Server!Move(c, from, to, NoClient)
  BY DEF Server!Connect, Server!Respond, Server!Finish
<1> QED
  BY <1>1, MoveElsewhere, NothingWaited DEF IInv

LEMMA StopsInv ==
  ASSUME IInv, Stops
  PROVE  IInv'
<1>1. SameWaiters
  BY DEF Stops, Server!Stop, SameWaiters, Waits
<1> QED
  BY <1>1, NothingWaited DEF Stops, Server!Stop, IInv, TypeInv

-----------------------------------------------------------------------------
(* Parking, and the timeout *)

\* The id of a new Client is nobody's ticket: subscribed are all who wait.
LEMMA NewTicket ==
  ASSUME IInv, InLoop, NEW p \in Client, NewClient(p), NEW c \in Conn, Waits(c)
  PROVE  ticket[c] # p
<1>1. wants[c][1] \in Channel /\ c \in Waiters(wants[c][1])
  BY DEF IInv, TypeInv, Waiters, Waits
<1>2. ticket[c] \in subs[wants[c][1]]
  BY <1>1 DEF IInv, SubsAreParked, Tickets
<1> QED
  BY <1>1, <1>2 DEF NewClient

LEMMA ParkedInv ==
  ASSUME IInv, NEW c \in Conn, NEW p \in Client, NEW n \in Channel,
         NEW mid \in Mid, SubscribeParked(c, p, n, mid)
  PROVE  IInv'
<1>1. /\ status[c] = "request" /\ status' = [status EXCEPT ![c] = "waiting"]
      /\ ticket' = [ticket EXCEPT ![c] = p]
      /\ wants' = [wants EXCEPT ![c] = <<n, mid>>]
      /\ subs' = [subs EXCEPT ![n] = @ \cup {p}]
      /\ InLoop /\ InLoop'
      /\ UNCHANGED <<stream, publication>>
  BY DEF SubscribeParked, Server!Park, Server!Move, Subscribe, InLoop
<1>2. \A d \in Conn \ {c} :
        /\ Waits(d)' <=> Waits(d)
        /\ ticket'[d] = ticket[d] /\ wants'[d] = wants[d]
  BY <1>1 DEF IInv, TypeInv, Waits
<1>3. Waits(c)' /\ ~Waits(c) /\ ticket'[c] = p /\ wants'[c] = <<n, mid>>
  BY <1>1 DEF IInv, TypeInv, Waits
<1>4. TypeInv'
  <2>1. wants' \in [Conn -> (Channel \X Mid) \cup {<<>>}]
    BY <1>1 DEF IInv, TypeInv
  <2>2. subs' \in [Channel -> SUBSET Client]
    BY <1>1 DEF IInv, TypeInv
  <2>3. ASSUME NEW d \in Conn, Waits(d)'
        PROVE  ticket'[d] \in Client /\ wants'[d] \in Channel \X Mid
    <3>1. CASE d = c
      BY <1>3, <3>1
    <3>2. CASE d # c
      BY <1>2, <2>3, <3>2 DEF IInv, TypeInv
    <3> QED
      BY <3>1, <3>2
  <2> QED
    BY <1>1, <2>1, <2>2, <2>3 DEF IInv, TypeInv
<1>5. OwnTickets'
  <2>1. \A d \in Conn : Waits(d) => ticket[d] # p
    BY <1>1, NewTicket DEF SubscribeParked
  <2> QED
    BY <1>2, <1>3, <2>1 DEF IInv, OwnTickets
<1>6. Waiters(n)' = Waiters(n) \cup {c}
  BY <1>2, <1>3 DEF Waiters, Waits
<1>7. \A m \in Channel \ {n} : Waiters(m)' = Waiters(m)
  BY <1>2, <1>3 DEF Waiters, Waits
<1>8. Tickets(n)' = Tickets(n) \cup {p}
  BY <1>2, <1>3, <1>6 DEF Tickets, Waiters, Waits
<1>9. \A m \in Channel \ {n} : Tickets(m)' = Tickets(m)
  BY <1>2, <1>3, <1>7 DEF Tickets, Waiters, Waits
<1>10. SubsAreParked'
  BY <1>1, <1>8, <1>9 DEF IInv, TypeInv, SubsAreParked
<1>11. WaitsForNew'
  <2>1. ~Has(stream[n], mid)
    BY DEF SubscribeParked, StillToCome
  <2>2. ASSUME NEW m \in Channel, NEW d \in Waiters(m)'
        PROVE  ~Has(stream'[m], wants'[d][2])
    <3>1. CASE d = c
      BY <1>1, <1>3, <1>7, <2>1, <3>1, <2>2 DEF Waiters
    <3>2. CASE d # c
      BY <1>1, <1>2, <1>6, <1>7, <2>2, <3>2 DEF IInv, WaitsForNew, Settled, Waiters
    <3> QED
      BY <3>1, <3>2
  <2> QED
    BY <2>2 DEF WaitsForNew
<1>12. StoredFirst'
  BY <1>1 DEF StoredFirst
<1> QED
  BY <1>4, <1>5, <1>10, <1>11, <1>12 DEF IInv

\* Client c stops waiting, for channel n, and nobody else does anything.
Leaves(c) ==
    /\ ~Waits(c)'
    /\ \A d \in Conn \ {c} :
        /\ Waits(d)' <=> Waits(d)
        /\ ticket'[d] = ticket[d] /\ wants'[d] = wants[d]

LEMMA LeavesTickets ==
  ASSUME IInv, NEW c \in Conn, Waits(c), Leaves(c)
  PROVE  /\ OwnTickets'
         /\ \A n \in Channel :
                /\ Waiters(n)' = Waiters(n) \ {c}
                /\ Tickets(n)' = IF n = wants[c][1] THEN Tickets(n) \ {ticket[c]}
                                 ELSE Tickets(n)
<1>1. OwnTickets'
  BY DEF IInv, OwnTickets, Leaves
<1>2. ASSUME NEW n \in Channel  PROVE Waiters(n)' = Waiters(n) \ {c}
  BY <1>2 DEF Leaves, Waiters, Waits
<1>3. ASSUME NEW n \in Channel, n # wants[c][1]  PROVE Tickets(n)' = Tickets(n)
  BY <1>2, <1>3 DEF Tickets, Waiters, Leaves
<1>4. ASSUME NEW n \in Channel, n = wants[c][1]
      PROVE  Tickets(n)' = Tickets(n) \ {ticket[c]}
  <2>1. \A d \in Waiters(n) \ {c} : ticket'[d] = ticket[d] /\ ticket[d] # ticket[c]
    BY DEF Waiters, Waits, Leaves, IInv, OwnTickets
  <2>2. \A d \in Waiters(n) : d \in Conn
    BY DEF Waiters
  <2> QED
    BY <1>2, <2>1, <2>2 DEF Tickets
<1> QED
  BY <1>1, <1>2, <1>3, <1>4

\* The types, when c is given to from status "waiting".
LEMMA LeavesTypes ==
  ASSUME IInv, NEW c \in Conn, NEW to \in {"none", "response"},
         Server!Move(c, "waiting", to, NoClient),
         wants' = [wants EXCEPT ![c] = <<>>]
  PROVE  /\ Waits(c) /\ Leaves(c)
         /\ status' \in [Conn -> {"none", "request", "waiting", "response"}]
         /\ ticket' \in [Conn -> Client \cup {NoClient}]
         /\ wants' \in [Conn -> (Channel \X Mid) \cup {<<>>}]
         /\ \A d \in Conn : Waits(d)' =>
                ticket'[d] \in Client /\ wants'[d] \in Channel \X Mid
<1>1. /\ status[c] = "waiting" /\ status' = [status EXCEPT ![c] = to]
      /\ ticket' = [ticket EXCEPT ![c] = NoClient]
  BY DEF Server!Move
<1>2. Waits(c) /\ Leaves(c)
  BY <1>1 DEF IInv, TypeInv, Waits, Leaves
<1>3. \A d \in Conn : Waits(d)' =>
        ticket'[d] \in Client /\ wants'[d] \in Channel \X Mid
  BY <1>2 DEF IInv, TypeInv, Leaves
<1> QED
  BY <1>1, <1>2, <1>3 DEF IInv, TypeInv

LEMMA TimeoutInv ==
  ASSUME IInv, NEW c \in Conn, Timeout(c)
  PROVE  IInv'
<1>1. /\ Server!Move(c, "waiting", "none", NoClient)
      /\ wants' = [wants EXCEPT ![c] = <<>>]
      /\ subs' = [subs EXCEPT ![wants[c][1]] = @ \ {ticket[c]}]
      /\ InLoop /\ InLoop'
      /\ UNCHANGED <<stream, publication>>
  BY DEF Timeout, Server!Expire, Unsubscribe, InLoop
<1>2. /\ Waits(c) /\ Leaves(c)
      /\ TypeInv'
  BY <1>1, LeavesTypes DEF IInv, TypeInv
<1>3. wants[c][1] \in Channel
  BY <1>2 DEF IInv, TypeInv
<1>4. SubsAreParked'
  <2>1. ASSUME NEW n \in Channel  PROVE subs'[n] = Tickets(n)'
    <3>1. subs[n] = Tickets(n)
      BY <1>1 DEF IInv, SubsAreParked
    <3>2. Tickets(n)' = IF n = wants[c][1] THEN Tickets(n) \ {ticket[c]}
                        ELSE Tickets(n)
      BY <1>2, LeavesTickets
    <3>3. subs'[n] = IF n = wants[c][1] THEN subs[n] \ {ticket[c]} ELSE subs[n]
      BY <1>1 DEF IInv, TypeInv
    <3> QED
      BY <3>1, <3>2, <3>3
  <2> QED
    BY <1>1, <2>1 DEF SubsAreParked
<1>5. WaitsForNew'
  BY <1>1, <1>2, LeavesTickets DEF IInv, WaitsForNew, Settled, Leaves, Waiters
<1> QED
  BY <1>1, <1>2, <1>4, <1>5, LeavesTickets DEF IInv, StoredFirst

-----------------------------------------------------------------------------
(* Publishing *)

\* What insert does to a list, place by place.
LEMMA InsertIs ==
  ASSUME NEW s \in Streams, NEW m \in Message, ~IndexError(s, m.mid)
  PROVE  LET t == Insert(s, m)
         IN  /\ t \in Streams
             /\ Len(t) = IF m.mid < Len(s) THEN Len(s) ELSE m.mid + 1
             /\ Index(t, m.mid) \in 1 .. Len(t)
             /\ m.mid < Len(s) => Index(t, m.mid) = Index(s, m.mid)
             /\ \A j \in 1 .. Len(t) :
                   t[j] = IF j = Index(t, m.mid) THEN m
                          ELSE IF j <= Len(s) THEN s[j] ELSE NoMessage
<1> DEFINE Elem == Message \cup {NoMessage}
<1>1. m.mid \in Int /\ s \in Seq(Elem) /\ m \in Elem /\ Len(s) \in Nat
  BY LenProperties DEF Message, Streams
<1>2. CASE m.mid < Len(s)
  <2>1. Index(s, m.mid) \in 1 .. Len(s)
    BY <1>1, <1>2 DEF Index, IndexError
  <2>2. Insert(s, m) = [s EXCEPT ![Index(s, m.mid)] = m]
    BY <1>2 DEF Insert
  <2>3. /\ Insert(s, m) \in Seq(Elem) /\ Len(Insert(s, m)) = Len(s)
        /\ \A j \in 1 .. Len(s) :
              Insert(s, m)[j] = IF j = Index(s, m.mid) THEN m ELSE s[j]
    BY <1>1, <2>1, <2>2, ExceptSeq
  <2>4. Index(Insert(s, m), m.mid) = Index(s, m.mid)
    BY <2>3 DEF Index
  <2> QED
    BY <1>1, <1>2, <2>1, <2>3, <2>4 DEF Streams
<1>3. CASE ~(m.mid < Len(s))
  <2> DEFINE k == m.mid - Len(s)
             holes == Holes(k)
             front == s \o holes
  <2>1. k \in Nat /\ m.mid >= 0
    BY <1>1, <1>3
  <2>2. holes \in Seq(Elem) /\ Len(holes) = k /\ \A j \in 1 .. k : holes[j] = NoMessage
    BY <2>1 DEF Holes
  <2>3. /\ front \in Seq(Elem) /\ Len(front) = m.mid
        /\ \A j \in 1 .. m.mid :
              front[j] = IF j <= Len(s) THEN s[j] ELSE NoMessage
    <3> HIDE DEF k, holes
    <3>1. /\ front \in Seq(Elem) /\ Len(front) = Len(s) + Len(holes)
          /\ \A j \in 1 .. Len(s) + Len(holes) :
                front[j] = IF j <= Len(s) THEN s[j] ELSE holes[j - Len(s)]
      BY <1>1, <2>2, ConcatProperties
    <3>2. k = m.mid - Len(s)
      BY DEF k
    <3> QED
      BY <1>1, <2>2, <3>1, <3>2
  <2>4. Insert(s, m) = Append(front, m)
    BY <1>3 DEF Insert
  <2>5. /\ Insert(s, m) \in Seq(Elem) /\ Len(Insert(s, m)) = m.mid + 1
        /\ Insert(s, m)[m.mid + 1] = m
        /\ \A j \in 1 .. m.mid : Insert(s, m)[j] = front[j]
    <3> HIDE DEF front
    <3> QED
      BY <1>1, <2>3, <2>4, AppendProperties
  <2>6. Index(Insert(s, m), m.mid) = m.mid + 1
    BY <1>1, <2>1 DEF Index
  <2>7. \A j \in 1 .. m.mid + 1 :
           Insert(s, m)[j] = IF j = m.mid + 1 THEN m
                             ELSE IF j <= Len(s) THEN s[j] ELSE NoMessage
    <3> HIDE DEF front
    <3> SUFFICES ASSUME NEW j \in 1 .. m.mid + 1
                 PROVE  Insert(s, m)[j] = IF j = m.mid + 1 THEN m
                             ELSE IF j <= Len(s) THEN s[j] ELSE NoMessage
      OBVIOUS
    <3>1. CASE j = m.mid + 1
      BY <2>5, <3>1
    <3>2. CASE j # m.mid + 1
      <4>1. j \in 1 .. m.mid /\ j # m.mid + 1
        BY <1>1, <2>1, <3>2
      <4> QED
        BY <2>3, <2>5, <4>1
    <3> QED
      BY <3>1, <3>2
  <2> QED
    BY <1>1, <1>3, <2>1, <2>5, <2>6, <2>7 DEF Streams
<1> QED
  BY <1>2, <1>3

\* After insert the message is found under its id, behind any holes.
LEMMA InsertStores ==
  ASSUME NEW s \in Streams, NEW m \in Message, ~IndexError(s, m.mid)
  PROVE  /\ Insert(s, m) \in Streams
         /\ ~IndexError(Insert(s, m), m.mid)
         /\ Insert(s, m)[Index(Insert(s, m), m.mid)] = m
  BY InsertIs DEF IndexError

\* It displaces no other message.
LEMMA InsertKeeps ==
  ASSUME NEW s \in Streams, NEW m \in Message, ~IndexError(s, m.mid),
         NEW i \in DOMAIN s
  PROVE  /\ i \in DOMAIN Insert(s, m)
         /\ Insert(s, m)[i] # s[i] => Insert(s, m)[i] = m /\ Index(s, m.mid) = i
<1>1. m.mid \in Int /\ Len(s) \in Nat /\ i \in 1 .. Len(s)
  BY LenProperties DEF Message, Streams
<1>2. /\ Insert(s, m) \in Streams
      /\ Len(Insert(s, m)) = IF m.mid < Len(s) THEN Len(s) ELSE m.mid + 1
      /\ m.mid < Len(s) => Index(Insert(s, m), m.mid) = Index(s, m.mid)
      /\ \A j \in 1 .. Len(Insert(s, m)) :
            Insert(s, m)[j] = IF j = Index(Insert(s, m), m.mid) THEN m
                              ELSE IF j <= Len(s) THEN s[j] ELSE NoMessage
  BY InsertIs
<1>3. DOMAIN Insert(s, m) = 1 .. Len(Insert(s, m)) /\ i \in 1 .. Len(Insert(s, m))
  BY <1>1, <1>2, LenProperties DEF Streams
<1>4. CASE m.mid < Len(s)
  BY <1>1, <1>2, <1>3, <1>4
<1>5. CASE ~(m.mid < Len(s))
  <2>1. Index(Insert(s, m), m.mid) = m.mid + 1 /\ i # m.mid + 1
    BY <1>1, <1>5 DEF Index
  <2> QED
    BY <1>1, <1>2, <1>3, <2>1
<1> QED
  BY <1>4, <1>5

\* A message is stored in the place of its id, -1 anywhere, and the places
\* between are holes.
LEMMA InsertInPlace ==
  ASSUME NEW s \in Streams, NEW m \in Message, ~IndexError(s, m.mid), m.mid >= -1,
         \A i \in DOMAIN s : s[i] # NoMessage => s[i].mid \in {i - 1, -1}
  PROVE  \A i \in DOMAIN Insert(s, m) :
            Insert(s, m)[i] # NoMessage => Insert(s, m)[i].mid \in {i - 1, -1}
<1>1. m.mid \in Int /\ Len(s) \in Nat /\ DOMAIN s = 1 .. Len(s)
  BY LenProperties DEF Message, Streams
<1>2. /\ Insert(s, m) \in Streams
      /\ \A j \in 1 .. Len(Insert(s, m)) :
            Insert(s, m)[j] = IF j = Index(Insert(s, m), m.mid) THEN m
                              ELSE IF j <= Len(s) THEN s[j] ELSE NoMessage
  BY InsertIs
<1>3. DOMAIN Insert(s, m) = 1 .. Len(Insert(s, m))
  BY <1>2, LenProperties DEF Streams
<1>4. m.mid \in {Index(Insert(s, m), m.mid) - 1, -1}
  BY <1>1 DEF Index
<1> QED
  BY <1>1, <1>2, <1>3, <1>4

LEMMA PublishInv ==
  ASSUME IInv, NEW c \in Conn, NEW n \in Channel, NEW m \in Message,
         Publish(c, n, m)
  PROVE  IInv'
<1>1. /\ InLoop
      /\ stream' = [stream EXCEPT ![n] = Insert(@, m)]
      /\ publication' =
            [conn |-> c, channel |-> n, message |-> m, left |-> subs[n]]
      /\ UNCHANGED <<status, ticket, subs, wants>>
      /\ ~IndexError(stream[n], m.mid)
  BY DEF Publish
<1>2. publication' \in Publications /\ ~InLoop'
  <2>1. publication' \in Publications
    BY <1>1 DEF Publications, IInv, TypeInv
  <2> QED
    BY <2>1, PublicationIsNotNothing DEF InLoop, Nothing
<1>3. SameWaiters
  BY <1>1 DEF SameWaiters, Waits
<1>4. \A k \in Channel : Waiters(k)' = Waiters(k) /\ Tickets(k)' = Tickets(k)
  BY <1>3, SameWaitersSameTickets
<1>5. /\ Insert(stream[n], m) \in Streams
      /\ ~IndexError(Insert(stream[n], m), m.mid)
      /\ Insert(stream[n], m)[Index(Insert(stream[n], m), m.mid)] = m
  BY <1>1, InsertStores DEF IInv, TypeInv
<1>6. TypeInv'
  BY <1>1, <1>2, <1>5 DEF IInv, TypeInv, Waits
<1>7. OwnTickets'
  BY <1>1 DEF IInv, OwnTickets, Waits
<1>8. SubsAreParked'
  BY <1>1, <1>2, <1>4 DEF IInv, SubsAreParked
<1>9. WaitsForNew'
  BY <1>1, <1>2, <1>4 DEF IInv, TypeInv, WaitsForNew, Settled
<1>10. StoredFirst'
  BY <1>1, <1>5 DEF IInv, TypeInv, StoredFirst
<1> QED
  BY <1>6, <1>7, <1>8, <1>9, <1>10 DEF IInv

\* Who is written to is one of those who wait for the channel.
LEMMA ReceiverWaits ==
  ASSUME IInv, NEW c \in Conn, SendMessage(c)
  PROVE  /\ publication \in Publications
         /\ publication.channel \in Channel
         /\ wants[c][1] = publication.channel
<1>1. ~InLoop /\ Waits(c) /\ ticket[c] \in publication.left
  BY DEF SendMessage, Server!Answer, Server!Move, Waits
<1>2. publication \in Publications
  BY <1>1 DEF IInv, TypeInv, InLoop
<1>3. publication.channel \in Channel
  BY <1>2 DEF Publications
<1>4. publication.left = Tickets(publication.channel)
  BY <1>1, <1>3 DEF IInv, SubsAreParked
<1>5. PICK d \in Waiters(publication.channel) : ticket[d] = ticket[c]
  BY <1>1, <1>4 DEF Tickets
<1>6. d = c
  BY <1>1, <1>5 DEF IInv, OwnTickets, Waiters, Waits
<1> QED
  BY <1>2, <1>3, <1>5, <1>6 DEF Waiters

LEMMA SendInv ==
  ASSUME IInv, NEW c \in Conn, SendMessage(c)
  PROVE  IInv'
<1>1. /\ Server!Move(c, "waiting", "response", NoClient)
      /\ wants' = [wants EXCEPT ![c] = <<>>]
      /\ publication' = [publication EXCEPT !.left = @ \ {ticket[c]}]
      /\ ~InLoop
      /\ UNCHANGED <<stream, subs>>
  BY DEF SendMessage, Server!Answer
<1>2. Waits(c) /\ Leaves(c)
  BY <1>1, LeavesTypes
<1>3. /\ publication' \in Publications
      /\ publication'.channel = publication.channel
      /\ publication'.message = publication.message
      /\ publication'.left = publication.left \ {ticket[c]}
  BY <1>1, ReceiverWaits DEF Publications
<1>4. ~InLoop'
  BY <1>3, PublicationIsNotNothing DEF InLoop, Nothing
<1>5. TypeInv'
  BY <1>1, <1>3, LeavesTypes DEF IInv, TypeInv
<1>6. SubsAreParked'
  <2>1. ASSUME NEW n \in Channel
        PROVE  IF publication.channel = n THEN publication'.left = Tickets(n)'
               ELSE subs'[n] = Tickets(n)'
    <3>1. Tickets(n)' = IF n = wants[c][1] THEN Tickets(n) \ {ticket[c]}
                        ELSE Tickets(n)
      BY <1>2, LeavesTickets
    <3>2. IF publication.channel = n THEN publication.left = Tickets(n)
          ELSE subs[n] = Tickets(n)
      BY <1>1 DEF IInv, SubsAreParked
    <3>3. wants[c][1] = publication.channel
      BY ReceiverWaits
    <3> QED
      BY <1>1, <1>3, <3>1, <3>2, <3>3
  <2> QED
    BY <1>3, <1>4, <2>1 DEF SubsAreParked
<1>7. WaitsForNew'
  BY <1>1, <1>2, <1>3, <1>4, LeavesTickets
     DEF IInv, WaitsForNew, Settled, Leaves, Waiters
<1>8. StoredFirst'
  BY <1>1, <1>3 DEF IInv, StoredFirst
<1> QED
  BY <1>2, <1>5, <1>6, <1>7, <1>8, LeavesTickets DEF IInv

LEMMA EndsInv ==
  ASSUME IInv, PublishEnds
  PROVE  IInv'
<1>1. /\ ~InLoop /\ publication.left = {} /\ publication' = Nothing
      /\ subs' = [subs EXCEPT ![publication.channel] = {}]
      /\ Server!Move(publication.conn, "request", "response", NoClient)
      /\ UNCHANGED <<stream, wants>>
  BY DEF PublishEnds, Responds, Server!Respond
<1>2. publication \in Publications
  BY <1>1 DEF IInv, TypeInv, InLoop
<1>3. publication.channel \in Channel /\ publication.conn \in Conn
  BY <1>2 DEF Publications
<1>4. /\ SameWaiters
      /\ status' \in [Conn -> {"none", "request", "waiting", "response"}]
      /\ ticket' \in [Conn -> Client \cup {NoClient}]
  BY <1>1, <1>3, MoveElsewhere DEF IInv
<1>5. \A n \in Channel : Waiters(n)' = Waiters(n) /\ Tickets(n)' = Tickets(n)
  BY <1>4, SameWaitersSameTickets
<1>6. InLoop'
  BY <1>1 DEF InLoop, Nothing
<1>7. Tickets(publication.channel) = {} /\ Waiters(publication.channel) = {}
  <2>1. Tickets(publication.channel) = {}
    BY <1>1, <1>3 DEF IInv, SubsAreParked
  <2> QED
    BY <2>1 DEF Tickets
<1>8. TypeInv'
  BY <1>1, <1>3, <1>4 DEF IInv, TypeInv, SameWaiters
<1>9. OwnTickets'
  BY <1>4 DEF IInv, OwnTickets, SameWaiters
<1>10. SubsAreParked'
  BY <1>1, <1>3, <1>5, <1>6, <1>7 DEF IInv, TypeInv, SubsAreParked
<1>11. WaitsForNew'
  BY <1>1, <1>5, <1>7 DEF IInv, WaitsForNew, Settled
<1> QED
  BY <1>6, <1>8, <1>9, <1>10, <1>11 DEF IInv, StoredFirst

-----------------------------------------------------------------------------
LEMMA NextInv ==
  ASSUME IInv, [Next]_vars
  PROVE  IInv'
<1>1. ASSUME NEW c \in Conn,
             Connects(c) \/ Finishes(c) \/ SubscribeFails(c)
      PROVE  IInv'
  BY <1>1, PassingInv DEF Connects, Finishes, SubscribeFails, Responds
<1>2. ASSUME NEW c \in Conn, NEW code \in {400, 500}, PublishFails(c, code)
      PROVE  IInv'
  BY <1>2, PassingInv DEF PublishFails, Responds
<1>3. ASSUME NEW c \in Conn, NEW n \in Channel, NEW mid \in Mid,
             \/ \E mode \in Modes : SubscribeAnswered(c, n, mode, mid)
             \/ PublishNowhere(c, n, mid)
      PROVE  IInv'
  BY <1>3, PassingInv DEF SubscribeAnswered, PublishNowhere, Responds
<1>4. ASSUME NEW c \in Conn, NEW n \in Channel, NEW mid \in Mid,
             NEW t \in Content, Publish(c, n, [mid |-> mid, content |-> t])
      PROVE  IInv'
  <2>1. [mid |-> mid, content |-> t] \in Message
    BY ConstantsAssumption DEF Message, Mid
  <2> QED
    BY <1>4, <2>1, PublishInv
<1>5. ASSUME UNCHANGED vars  PROVE IInv'
  <2>1. SameWaiters
    BY <1>5 DEF vars, SameWaiters, Waits
  <2> QED
    BY <1>5, <2>1, NothingWaited DEF vars, IInv, TypeInv
<1>6. ASSUME NEW c \in Conn, NEW n \in Channel, NEW mid \in Mid,
             \E p \in Client : SubscribeParked(c, p, n, mid)
      PROVE  IInv'
  BY <1>6, ParkedInv
<1>7. ASSUME NEW c \in Conn, Timeout(c) \/ SendMessage(c)  PROVE IInv'
  BY <1>7, TimeoutInv, SendInv
<1>8. CASE PublishEnds \/ Stops
  BY <1>8, EndsInv, StopsInv
<1>9. ASSUME NEW c \in Conn, NEW n \in Channel, NEW mid \in Mid, Request(c, n, mid)
      PROVE  IInv'
  BY <1>3, <1>4, <1>6, <1>9 DEF Request
<1>10. ASSUME NEW c \in Conn, Connection(c)  PROVE IInv'
  BY <1>1, <1>2, <1>7, <1>9, <1>10 DEF Connection
<1> QED
  BY <1>5, <1>8, <1>10 DEF Next

\* While the publish handler runs nothing else does.
LEMMA OnlyPublication ==
  ASSUME Next, ~InLoop
  PROVE  PublishEnds \/ \E c \in Conn : SendMessage(c)
<1>1. ASSUME NEW c \in Conn, NEW n \in Channel, NEW mid \in Mid
      PROVE  ~Request(c, n, mid)
  BY DEF Request, SubscribeAnswered, SubscribeParked, PublishNowhere, Publish
<1>2. ASSUME NEW c \in Conn, Connection(c)
      PROVE  SendMessage(c)
  BY <1>1, <1>2
     DEF Connection, Connects, Finishes, Timeout, SubscribeFails, PublishFails
<1> QED
  BY <1>2 DEF Next, Stops

\* The strengthened invariant holds in every state.
THEOREM Invariance == Spec => []IInv
  BY IInvInit, NextInv, PTL DEF Spec

\* The channel's subscribers are the clients the server has parked for it, and
\* publish writes to those alone.
THEOREM SubscribersAreParked == Spec => []SubsAreParked
<1>1. IInv => SubsAreParked
  BY DEF IInv
<1> QED
  BY <1>1, Invariance, PTL

\* Between handlers nobody waits for a message that is there.
THEOREM NobodyInVain == Spec => []NobodyWaitsInVain
<1>1. IInv => NobodyWaitsInVain
  BY DEF IInv, WaitsForNew, Settled, NobodyWaitsInVain
<1> QED
  BY <1>1, Invariance, PTL

\* A publication reaches everyone who waited for the channel, with its message.
THEOREM EveryoneTold == Spec => EveryoneIsTold
<1> DEFINE Told ==
      \A c \in Conn :
        ~InLoop /\ status[c] = "waiting" /\ wants[c][1] = publication.channel =>
            /\ publication' # Nothing
            /\ status'[c] # "waiting" =>
                   answer' = <<c, Mesgs(<<publication.message>>)>>
<1>1. ASSUME IInv, Next  PROVE Told
  <2>1. SUFFICES ASSUME NEW c \in Conn, ~InLoop, status[c] = "waiting",
                        wants[c][1] = publication.channel
                 PROVE  /\ publication' # Nothing
                        /\ status'[c] # "waiting" =>
                             answer' = <<c, Mesgs(<<publication.message>>)>>
    OBVIOUS
  <2>2. publication \in Publications
    BY <1>1, <2>1 DEF IInv, TypeInv, InLoop
  <2>3. publication.channel \in Channel /\ publication.message \in Message
    BY <2>2 DEF Publications
  <2>4. ticket[c] \in publication.left
    BY <1>1, <2>1, <2>3 DEF IInv, SubsAreParked, Tickets, Waiters
  <2>5. PICK d \in Conn : SendMessage(d)
    <3>1. ~PublishEnds
      BY <2>4 DEF PublishEnds
    <3> QED
      BY <1>1, <2>1, <3>1, OnlyPublication
  <2>6. publication' # Nothing
    <3>1. publication' \in Publications
      BY <2>2, <2>5 DEF SendMessage, Publications
    <3> QED
      BY <3>1, PublicationIsNotNothing
  <2>7. ASSUME status'[c] # "waiting"  PROVE d = c
    BY <1>1, <2>1, <2>5, <2>7 DEF SendMessage, Server!Answer, Server!Move, IInv, TypeInv
  <2>8. GetMessage(stream[publication.channel], publication.message.mid)
          = Mesgs(<<publication.message>>)
    <3>1. publication.message # NoMessage
      BY <2>3, ConstantsAssumption
    <3> QED
      BY <1>1, <2>1, <3>1 DEF IInv, StoredFirst, GetMessage
  <2>9. answer' = <<d, Mesgs(<<publication.message>>)>>
    BY <2>5, <2>8 DEF SendMessage
  <2> QED
    BY <2>6, <2>7, <2>9
<1>2. IInv /\ [Next]_vars => [Told]_vars
  BY <1>1
<1> QED
  BY <1>2, Invariance, PTL DEF Spec, EveryoneIsTold

-----------------------------------------------------------------------------
(* The lists *)

\* Only publish touches a list, and with insert.
LEMMA StreamSteps ==
  ASSUME TypeInv, [Next]_vars
  PROVE  \/ UNCHANGED stream
         \/ \E n \in Channel, m \in Message :
               /\ m.mid \in Mid
               /\ ~IndexError(stream[n], m.mid)
               /\ stream' = [stream EXCEPT ![n] = Insert(@, m)]
               /\ publication'.channel = n /\ publication'.message = m
<1>1. ASSUME NEW c \in Conn, NEW n \in Channel, NEW mid \in Mid,
             Request(c, n, mid), stream' # stream
      PROVE  \E m \in Message :
               /\ m.mid \in Mid
               /\ ~IndexError(stream[n], m.mid)
               /\ stream' = [stream EXCEPT ![n] = Insert(@, m)]
               /\ publication'.channel = n /\ publication'.message = m
  <2>1. PICK t \in Content : Publish(c, n, [mid |-> mid, content |-> t])
    BY <1>1 DEF Request, SubscribeAnswered, SubscribeParked, PublishNowhere
  <2>2. [mid |-> mid, content |-> t] \in Message
    BY ConstantsAssumption DEF Message, Mid
  <2> QED
    BY <2>1, <2>2 DEF Publish
<1>2. ASSUME NEW c \in Conn, Connection(c), stream' # stream
      PROVE  \E n \in Channel, mid \in Mid : Request(c, n, mid)
  BY <1>2 DEF Connection, Connects, Finishes, Timeout, SendMessage,
              SubscribeFails, PublishFails
<1>3. PublishEnds \/ Stops \/ UNCHANGED vars => UNCHANGED stream
  BY DEF PublishEnds, Stops, vars
<1> QED
  BY <1>1, <1>2, <1>3 DEF Next

\* What is published is there: it stays in its channel, for each id, until that
\* id is published again (or -1 in the last place).
THEOREM PublishedKept == Spec => PublishedStays
<1> DEFINE Kept ==
      \A n \in Channel : \A i \in DOMAIN stream[n] :
        /\ i \in DOMAIN stream'[n]
        /\ stream'[n][i] # stream[n][i] =>
            /\ publication'.channel = n
            /\ stream'[n][i] = publication'.message
            /\ Index(stream[n], publication'.message.mid) = i
<1>1. ASSUME IInv, [Next]_vars  PROVE Kept
  <2>1. TypeInv
    BY <1>1 DEF IInv
  <2>2. CASE UNCHANGED stream
    BY <2>2
  <2>3. ASSUME NEW k \in Channel, NEW m \in Message,
               ~IndexError(stream[k], m.mid),
               stream' = [stream EXCEPT ![k] = Insert(@, m)],
               publication'.channel = k, publication'.message = m
        PROVE  Kept
    <3>1. stream[k] \in Streams
      BY <2>1 DEF TypeInv
    <3>2. ASSUME NEW n \in Channel
          PROVE  stream'[n] = IF n = k THEN Insert(stream[k], m) ELSE stream[n]
      BY <2>1, <2>3 DEF TypeInv
    <3> QED
      BY <2>3, <3>1, <3>2, InsertKeeps
  <2> QED
    BY <1>1, <2>1, <2>2, <2>3, StreamSteps
<1>2. IInv /\ [Next]_vars => [Kept]_vars
  BY <1>1
<1> QED
  BY <1>2, Invariance, PTL DEF Spec, PublishedStays

\* Every message is in the place of its id, or of a negative one's.
THEOREM InPlaceAlways == Spec => []MessagesInPlace
<1>1. Init => MessagesInPlace
  BY DEF Init, MessagesInPlace
<1>2. ASSUME IInv, MessagesInPlace, [Next]_vars  PROVE MessagesInPlace'
  <2>1. TypeInv
    BY <1>2 DEF IInv
  <2>2. CASE UNCHANGED stream
    BY <1>2, <2>2 DEF MessagesInPlace
  <2>3. ASSUME NEW k \in Channel, NEW m \in Message, m.mid \in Mid,
               ~IndexError(stream[k], m.mid),
               stream' = [stream EXCEPT ![k] = Insert(@, m)]
        PROVE  MessagesInPlace'
    <3>1. stream[k] \in Streams /\ m.mid >= -1
      BY <2>1, <2>3, ConstantsAssumption DEF TypeInv, Mid
    <3>2. ASSUME NEW n \in Channel
          PROVE  stream'[n] = IF n = k THEN Insert(stream[k], m) ELSE stream[n]
      BY <2>1, <2>3 DEF TypeInv
    <3>3. \A i \in DOMAIN stream[k] :
            stream[k][i] # NoMessage => stream[k][i].mid \in {i - 1, -1}
      BY <1>2 DEF MessagesInPlace
    <3>4. \A i \in DOMAIN Insert(stream[k], m) :
            Insert(stream[k], m)[i] # NoMessage
              => Insert(stream[k], m)[i].mid \in {i - 1, -1}
      BY <2>3, <3>1, <3>3, InsertInPlace
    <3> QED
      BY <1>2, <3>2, <3>4 DEF MessagesInPlace
  <2> QED
    BY <1>2, <2>1, <2>2, <2>3, StreamSteps
<1> QED
  BY <1>1, <1>2, Invariance, PTL DEF Spec

-----------------------------------------------------------------------------
(* front, back and range *)

\* A set of natural numbers has a least element.
LEMMA LeastNatural ==
  ASSUME NEW T \in SUBSET Nat, T # {}
  PROVE  \E x \in T : \A y \in T : x <= y
<1> DEFINE R == OpToRel(<, Nat)
<1>1. IsWellFoundedOn(R, Nat)
  BY NatLessThanWellFounded
<1>2. PICK x \in T : \A y \in T : <<y, x>> \notin R
  <2> HIDE DEF R
  <2> QED
    BY <1>1, WFMin
<1>3. \A y \in T : ~(y < x)
  BY <1>2 DEF OpToRel
<1> QED
  BY <1>3

LEMMA MinOfTwo ==
  ASSUME NEW a \in Int, NEW b \in Int
  PROVE  Min({a, b}) = IF a < b THEN a ELSE b
  BY DEF Min

LEMMA MaxOfTwo ==
  ASSUME NEW a \in Int, NEW b \in Int
  PROVE  Max({a, b}) = IF a < b THEN b ELSE a
  BY DEF Max

\* takewhile stops at the first hole, or at the end.
LEMMA BeforeHoleIs ==
  ASSUME NEW t \in Streams
  PROVE  \E n \in 0 .. Len(t) :
            /\ BeforeHole(t) = SubSeq(t, 1, n)
            /\ \A i \in 1 .. n : t[i] # NoMessage
            /\ n < Len(t) => t[n + 1] = NoMessage
<1> DEFINE H == {i \in DOMAIN t : t[i] = NoMessage}
<1>1. Len(t) \in Nat /\ DOMAIN t = 1 .. Len(t) /\ H \in SUBSET Nat
  BY LenProperties DEF Streams
<1>2. CASE Contains(t, NoMessage)
  <2>1. H # {}
    BY <1>1, <1>2 DEF Contains
  <2>2. PICK h \in H : h = Min(H) /\ \A i \in H : h <= i
    <3> HIDE DEF H
    <3> QED
      BY <1>1, <2>1, LeastNatural DEF Min
  <2>3. BeforeHole(t) = SubSeq(t, 1, h - 1)
    BY <1>2, <2>2 DEF BeforeHole
  <2>4. h \in 1 .. Len(t) /\ t[h] = NoMessage
    BY <1>1
  <2>5. h - 1 \in 0 .. Len(t) /\ (h - 1) + 1 = h
    BY <1>1, <2>4
  <2>6. ASSUME NEW i \in 1 .. h - 1  PROVE t[i] # NoMessage
    <3>1. i \in DOMAIN t /\ ~(h <= i)
      BY <1>1, <2>4
    <3>2. i \notin H
      BY <2>2, <3>1
    <3> QED
      BY <3>1, <3>2
  <2>7. PICK n \in 0 .. Len(t) : n = h - 1 /\ n + 1 = h
    BY <2>5
  <2> HIDE DEF H
  <2> QED
    BY <2>3, <2>4, <2>6, <2>7
<1>3. CASE ~Contains(t, NoMessage)
  <2>1. \A i \in 1 .. Len(t) : t[i] # NoMessage
    BY <1>3 DEF Contains
  <2>2. BeforeHole(t) = SubSeq(t, 1, Len(t))
    BY <1>3, SubSeqFull DEF BeforeHole, Streams
  <2>3. Len(t) \in 0 .. Len(t) /\ ~(Len(t) < Len(t))
    BY <1>1
  <2> HIDE DEF H
  <2> QED
    BY <2>1, <2>2, <2>3, Zenon
<1> QED
  BY <1>2, <1>3

\* A slice between places that are no negative ones.
LEMMA SliceIs ==
  ASSUME NEW s \in Streams, NEW a \in 0 .. Len(s), NEW b \in Nat, a <= b
  PROVE  LET l == (IF Len(s) < b THEN Len(s) ELSE b) - a
         IN  /\ Slice(s, a, b) \in Streams
             /\ l \in Nat
             /\ Len(Slice(s, a, b)) = l
             /\ \A i \in 1 .. l : Slice(s, a, b)[i] = s[a + i]
<1> DEFINE e == IF Len(s) < b THEN Len(s) ELSE b
           Elem == Message \cup {NoMessage}
<1>1. Len(s) \in Nat /\ s \in [1 .. Len(s) -> Elem]
  BY LenProperties DEF Streams
<1>2. Min({Len(s), a}) = a /\ Min({Len(s), b}) = e
  BY <1>1, MinOfTwo
<1>3. Slice(s, a, b) = SubSeq(s, a + 1, e)
  <2>1. Slice(s, a, b) =
          SubSeq(s, (IF a < 0 THEN Max({0, Len(s) + a}) ELSE Min({Len(s), a})) + 1,
                    IF b < 0 THEN Max({0, Len(s) + b}) ELSE Min({Len(s), b}))
    BY DEF Slice
  <2>2. ~(a < 0) /\ ~(b < 0)
    BY <1>1
  <2> HIDE DEF e
  <2> QED
    BY <1>2, <2>1, <2>2
<1>4. e \in Nat /\ e - a \in Nat /\ e <= Len(s)
  BY <1>1
<1>5. \A i \in a + 1 .. e : s[i] \in Elem
  BY <1>1, <1>4
<1>6. /\ SubSeq(s, a + 1, e) \in Seq(Elem)
      /\ Len(SubSeq(s, a + 1, e)) = IF a + 1 <= e THEN e - (a + 1) + 1 ELSE 0
      /\ \A i \in 1 .. e - (a + 1) + 1 : SubSeq(s, a + 1, e)[i] = s[a + 1 + i - 1]
  <2> HIDE DEF e, Elem
  <2>1. a + 1 \in Int /\ e \in Int
    BY <1>4
  <2> QED
    BY <1>5, <2>1, SubSeqProperties
<1>7. \A i \in 1 .. e - a : SubSeq(s, a + 1, e)[i] = s[a + i]
  BY <1>1, <1>4, <1>6
<1>8. Len(SubSeq(s, a + 1, e)) = e - a
  BY <1>1, <1>4, <1>6
<1> QED
  BY <1>3, <1>4, <1>6, <1>7, <1>8 DEF Streams

\* What range and front return: the longest stretch from a place on.
LEMMA StretchFrom ==
  ASSUME NEW s \in Streams, NEW a \in 0 .. Len(s), NEW count \in Nat
  PROVE  \E n \in 0 .. Min({count, Len(s) - a}) :
            /\ BeforeHole(Slice(s, a, a + count)) = SubSeq(s, a + 1, a + n)
            /\ Stretch(s, a + 1, a + n)
            /\ n < count => ~Stretch(s, a + 1, a + n + 1)
<1> DEFINE t == Slice(s, a, a + count)
           l == (IF Len(s) < a + count THEN Len(s) ELSE a + count) - a
           Elem == Message \cup {NoMessage}
<1>1. Len(s) \in Nat /\ s \in [1 .. Len(s) -> Elem]
  BY LenProperties DEF Streams
<1>2. /\ t \in Streams
      /\ l \in Nat
      /\ Len(t) = l
      /\ \A i \in 1 .. l : t[i] = s[a + i]
  <2>1. PICK b \in Nat : b = a + count /\ a <= b
    BY <1>1
  <2> QED
    BY <2>1, SliceIs
<1>3. l = Min({count, Len(s) - a}) /\ a + l <= Len(s) /\ l <= count
  <2>1. Min({count, Len(s) - a}) = IF count < Len(s) - a THEN count ELSE Len(s) - a
    BY <1>1, MinOfTwo
  <2> QED
    BY <1>1, <2>1
<1>4. l < count => a + l = Len(s)
  <2>1. Len(s) \in Nat /\ a \in Nat /\ count \in Nat /\ a <= Len(s)
    BY <1>1
  <2> QED
    BY <2>1
<1> HIDE DEF t, l
<1>5. PICK n \in 0 .. l :
         /\ BeforeHole(t) = SubSeq(t, 1, n)
         /\ \A i \in 1 .. n : t[i] # NoMessage
         /\ n < l => t[n + 1] = NoMessage
  BY <1>2, BeforeHoleIs
<1>6. SubSeq(t, 1, n) = SubSeq(s, a + 1, a + n)
  <2>1. ASSUME NEW i \in 1 .. n  PROVE t[i] = s[a + i] /\ t[i] \in Elem
    <3>1. i \in 1 .. l /\ a + i \in 1 .. Len(s)
      BY <1>1, <1>2, <1>3, <1>5
    <3> QED
      BY <1>1, <1>2, <3>1
  <2>2. /\ SubSeq(t, 1, n) \in Seq(Elem)
        /\ Len(SubSeq(t, 1, n)) = IF 1 <= n THEN n - 1 + 1 ELSE 0
        /\ \A i \in 1 .. n - 1 + 1 : SubSeq(t, 1, n)[i] = t[1 + i - 1]
    <3> HIDE DEF Elem
    <3> QED
      BY <2>1, SubSeqProperties
  <2>3. ASSUME NEW i \in a + 1 .. a + n  PROVE s[i] \in Elem
    <3>1. i \in 1 .. Len(s)
      BY <1>1, <1>2, <1>3, <1>5
    <3> HIDE DEF Elem
    <3> QED
      BY <1>1, <3>1
  <2>4. /\ SubSeq(s, a + 1, a + n) \in Seq(Elem)
        /\ Len(SubSeq(s, a + 1, a + n))
             = IF a + 1 <= a + n THEN a + n - (a + 1) + 1 ELSE 0
        /\ \A i \in 1 .. a + n - (a + 1) + 1 :
              SubSeq(s, a + 1, a + n)[i] = s[a + 1 + i - 1]
    <3>1. a + 1 \in Int /\ a + n \in Int
      BY <1>2, <1>5
    <3> HIDE DEF Elem
    <3> QED
      BY <2>3, <3>1, SubSeqProperties
  <2>5. /\ Len(SubSeq(t, 1, n)) = n /\ Len(SubSeq(s, a + 1, a + n)) = n
        /\ \A i \in 1 .. n : SubSeq(t, 1, n)[i] = t[i]
        /\ \A i \in 1 .. n : SubSeq(s, a + 1, a + n)[i] = s[a + i]
    BY <2>2, <2>4
  <2> QED
    BY <2>1, <2>2, <2>4, <2>5, SeqEqual
<1>7. Stretch(s, a + 1, a + n)
  <2>1. ASSUME NEW i \in a + 1 .. a + n  PROVE s[i] # NoMessage
    <3>1. i - a \in 1 .. n /\ a + (i - a) = i /\ i - a \in 1 .. l
      BY <1>2, <1>5
    <3> QED
      BY <1>2, <1>5, <3>1
  <2> QED
    BY <1>1, <1>2, <1>3, <1>5, <2>1 DEF Stretch
<1>8. ASSUME n < count  PROVE ~Stretch(s, a + 1, a + n + 1)
  <2>1. CASE n < l
    <3>1. s[a + n + 1] = NoMessage
      <4>1. n + 1 \in 1 .. l /\ a + (n + 1) = a + n + 1
        BY <1>2, <1>5, <2>1
      <4> QED
        BY <1>2, <1>5, <2>1, <4>1
    <3> QED
      BY <1>5, <3>1 DEF Stretch
  <2>2. CASE n = l
    BY <1>1, <1>2, <1>4, <1>8, <2>2 DEF Stretch
  <2> QED
    BY <1>2, <1>5, <2>1, <2>2
<1>9. n \in 0 .. Min({count, Len(s) - a})
  BY <1>3, <1>5
<1>10. BeforeHole(Slice(s, a, a + count)) = SubSeq(s, a + 1, a + n)
  BY <1>5, <1>6 DEF t
<1> QED
  BY <1>7, <1>8, <1>9, <1>10

LEMMA ReverseIs ==
  ASSUME NEW S, NEW t \in Seq(S)
  PROVE  /\ Reverse(t) \in Seq(S)
         /\ Len(Reverse(t)) = Len(t)
         /\ \A i \in 1 .. Len(t) : Reverse(t)[i] = t[Len(t) - i + 1]
<1>1. Len(t) \in Nat /\ t \in [1 .. Len(t) -> S]
  BY LenProperties
<1>2. \A i \in 1 .. Len(t) : t[Len(t) - i + 1] \in S
  BY <1>1
<1> QED
  BY <1>1, <1>2 DEF Reverse

\* What back returns: the longest stretch that ends with the list.
LEMMA StretchBack ==
  ASSUME NEW s \in Streams, NEW count \in 0 .. Len(s)
  PROVE  \E n \in 0 .. count :
            /\ LastOnes(s, count) = SubSeq(s, Len(s) - n + 1, Len(s))
            /\ Stretch(s, Len(s) - n + 1, Len(s))
            /\ n < count => ~Stretch(s, Len(s) - n, Len(s))
<1> DEFINE Elem == Message \cup {NoMessage}
           a == Len(s) - count
           t == Slice(s, a, Len(s))
           u == Reverse(t)
<1>1. /\ Len(s) \in Nat /\ s \in [1 .. Len(s) -> Elem]
      /\ a \in 0 .. Len(s) /\ Len(s) - a = count
  <2>1. Len(s) \in Nat /\ s \in [1 .. Len(s) -> Elem]
    BY LenProperties DEF Streams
  <2> QED
    BY <2>1
<1>2. /\ t \in Streams /\ Len(t) = count
      /\ \A i \in 1 .. count : t[i] = s[a + i]
  <2>1. Len(s) \in Nat /\ a <= Len(s) /\ Len(s) - a = count
        /\ a \in 0 .. Len(s) /\ ~(Len(s) < Len(s))
    BY <1>1
  <2> HIDE DEF a
  <2> QED
    BY <2>1, SliceIs
<1>3. /\ u \in Streams /\ Len(u) = count
      /\ \A i \in 1 .. count : u[i] = s[Len(s) - i + 1]
  <2> HIDE DEF t
  <2>1. /\ u \in Seq(Elem) /\ Len(u) = Len(t)
        /\ \A i \in 1 .. Len(t) : u[i] = t[Len(t) - i + 1]
    BY <1>2, ReverseIs DEF Streams
  <2>2. ASSUME NEW i \in 1 .. count  PROVE u[i] = s[Len(s) - i + 1]
    <3>1. count - i + 1 \in 1 .. count /\ a + (count - i + 1) = Len(s) - i + 1
      BY <1>1
    <3> QED
      BY <1>2, <2>1, <3>1
  <2> QED
    BY <1>2, <2>1, <2>2 DEF Streams
<1> HIDE DEF t, u
<1>4. PICK n \in 0 .. count :
         /\ BeforeHole(u) = SubSeq(u, 1, n)
         /\ \A i \in 1 .. n : u[i] # NoMessage
         /\ n < count => u[n + 1] = NoMessage
  BY <1>3, BeforeHoleIs
<1>5. Reverse(SubSeq(u, 1, n)) = SubSeq(s, Len(s) - n + 1, Len(s))
  <2> DEFINE v == SubSeq(u, 1, n)
             b == Len(s) - n + 1
             w == SubSeq(s, b, Len(s))
  <2>1. ASSUME NEW i \in 1 .. n  PROVE u[i] = s[Len(s) - i + 1] /\ u[i] \in Elem
    <3>1. i \in 1 .. count /\ Len(s) - i + 1 \in 1 .. Len(s)
      BY <1>1
    <3> QED
      BY <1>1, <1>3, <3>1
  <2>2. /\ v \in Seq(Elem)
        /\ Len(v) = IF 1 <= n THEN n - 1 + 1 ELSE 0
        /\ \A i \in 1 .. n - 1 + 1 : v[i] = u[1 + i - 1]
    <3> HIDE DEF Elem
    <3> QED
      BY <2>1, SubSeqProperties
  <2>3. v \in Seq(Elem) /\ Len(v) = n /\ \A i \in 1 .. n : v[i] = u[i]
    BY <2>2
  <2>4. /\ Reverse(v) \in Seq(Elem) /\ Len(Reverse(v)) = n
        /\ \A i \in 1 .. n : Reverse(v)[i] = v[n - i + 1]
    <3> HIDE DEF v, Elem
    <3> QED
      BY <2>3, ReverseIs
  <2>5. b \in Int /\ Len(s) \in Int /\ \A i \in b .. Len(s) : s[i] \in Elem
    BY <1>1
  <2>6. /\ w \in Seq(Elem)
        /\ Len(w) = IF b <= Len(s) THEN Len(s) - b + 1 ELSE 0
        /\ \A i \in 1 .. Len(s) - b + 1 : w[i] = s[b + i - 1]
    <3> HIDE DEF b, Elem
    <3> QED
      BY <2>5, SubSeqProperties
  <2>7. Len(w) = n /\ \A i \in 1 .. n : w[i] = s[Len(s) - n + i]
    BY <1>1, <2>6
  <2>8. ASSUME NEW i \in 1 .. n  PROVE Reverse(v)[i] = w[i]
    <3>1. n - i + 1 \in 1 .. n /\ Len(s) - (n - i + 1) + 1 = Len(s) - n + i
      BY <1>1
    <3> HIDE DEF v, w
    <3>2. Reverse(v)[i] = v[n - i + 1] /\ w[i] = s[Len(s) - n + i]
      BY <2>4, <2>7
    <3>3. v[n - i + 1] = u[n - i + 1]
      BY <2>3, <3>1
    <3>4. u[n - i + 1] = s[Len(s) - (n - i + 1) + 1]
      BY <2>1, <3>1
    <3> QED
      BY <3>1, <3>2, <3>3, <3>4, Zenon
  <2> HIDE DEF v, w
  <2>9. Reverse(v) = w
    BY <2>4, <2>6, <2>7, <2>8, SeqEqual
  <2> QED
    BY <2>9 DEF v, w
<1>6. Stretch(s, Len(s) - n + 1, Len(s))
  <2>1. ASSUME NEW i \in Len(s) - n + 1 .. Len(s)  PROVE s[i] # NoMessage
    <3>1. Len(s) - i + 1 \in 1 .. n /\ Len(s) - (Len(s) - i + 1) + 1 = i
          /\ Len(s) - i + 1 \in 1 .. count
      BY <1>1
    <3> QED
      BY <1>3, <1>4, <3>1
  <2> QED
    BY <1>1, <2>1 DEF Stretch
<1>7. ASSUME n < count  PROVE ~Stretch(s, Len(s) - n, Len(s))
  <2>1. n + 1 \in 1 .. count /\ Len(s) - (n + 1) + 1 = Len(s) - n
    BY <1>1, <1>7
  <2>2. s[Len(s) - n] = NoMessage
    BY <1>3, <1>4, <1>7, <2>1
  <2>3. Len(s) - n \in Len(s) - n .. Len(s)
    BY <1>1
  <2> QED
    BY <2>2, <2>3 DEF Stretch
<1>8. LastOnes(s, count) = SubSeq(s, Len(s) - n + 1, Len(s))
  BY <1>4, <1>5 DEF LastOnes, t, u
<1> QED
  BY <1>4, <1>6, <1>7, <1>8

\* A negative start counts from the end, and no further than to the first place.
LEMMA BackBeyond ==
  ASSUME NEW s \in Streams, NEW count \in Nat, Len(s) < count,
         NEW d \in 0 .. Len(s), d = Min({count - Len(s), Len(s)})
  PROVE  LastOnes(s, count) = LastOnes(s, d)
<1> DEFINE l == Len(s)
<1>1. l \in Nat
  BY LenProperties DEF Streams
<1>2. l \in Int /\ count - l \in Int /\ l + (l - count) \in Int
      /\ l - d \in Int /\ l - count < 0 /\ ~(l - d < 0)
  BY <1>1
<1> HIDE DEF l
<1>3. d = IF count - l < l THEN count - l ELSE l
  BY <1>2, MinOfTwo DEF l
<1>4. Max({0, l + (l - count)}) = IF 0 < l + (l - count) THEN l + (l - count) ELSE 0
  BY <1>2, MaxOfTwo
<1>5. Min({l, l - d}) = IF l < l - d THEN l ELSE l - d
  BY <1>2, MinOfTwo
<1>6. Max({0, l + (l - count)}) = Min({l, l - d})
  <2>1. l \in Nat /\ count \in Nat /\ d \in Nat
    BY <1>1 DEF l
  <2> QED
    BY <1>3, <1>4, <1>5, <2>1
<1>7. Slice(s, l - count, l) = Slice(s, l - d, l)
  BY <1>2, <1>6 DEF Slice, l
<1> QED
  BY <1>7 DEF LastOnes, l

\* What back returns, whatever it is asked for.
LEMMA BackReaches ==
  ASSUME NEW s \in Streams, NEW count \in Nat
  PROVE  LastExact(s, count)
<1>1. Len(s) \in Nat
  BY LenProperties DEF Streams
<1>2. CASE count <= Len(s)
  <2>1. Reach(s, count) = count /\ count \in 0 .. Len(s)
    BY <1>1, <1>2 DEF Reach
  <2>2. Min({Reach(s, count), Len(s)}) = count
    BY <1>1, <2>1, MinOfTwo
  <2> QED
    BY <2>1, <2>2, StretchBack DEF LastExact
<1>3. CASE Len(s) < count
  <2>1. Reach(s, count) = count - Len(s) /\ Reach(s, count) \in Nat
    BY <1>1, <1>3 DEF Reach
  <2>2. PICK d \in 0 .. Len(s) :
            /\ d = Min({Reach(s, count), Len(s)})
            /\ d <= Reach(s, count)
            /\ d = Reach(s, count) \/ d = Len(s)
    <3>1. Min({Reach(s, count), Len(s)}) =
             IF Reach(s, count) < Len(s) THEN Reach(s, count) ELSE Len(s)
      BY <1>1, <2>1, MinOfTwo
    <3> QED
      BY <1>1, <2>1, <3>1
  <2>3. LastOnes(s, count) = LastOnes(s, d)
    BY <1>3, <2>1, <2>2, BackBeyond
  <2>4. PICK n \in 0 .. d :
            /\ LastOnes(s, d) = SubSeq(s, Len(s) - n + 1, Len(s))
            /\ Stretch(s, Len(s) - n + 1, Len(s))
            /\ n < d => ~Stretch(s, Len(s) - n, Len(s))
    BY StretchBack
  <2>5. ASSUME n < Reach(s, count)  PROVE ~Stretch(s, Len(s) - n, Len(s))
    <3>1. CASE n < d
      BY <2>4, <3>1
    <3>2. CASE n = Len(s)
      <4>1. ~(Len(s) - n >= 1)
        BY <1>1, <3>2
      <4> QED
        BY <4>1 DEF Stretch
    <3>3. n < d \/ n = Len(s)
      BY <1>1, <2>1, <2>2, <2>4, <2>5
    <3> QED
      BY <3>1, <3>2, <3>3
  <2> QED
    BY <2>2, <2>3, <2>4, <2>5 DEF LastExact
<1> QED
  BY <1>1, <1>2, <1>3

LEMMA FetchesExact ==
  ASSUME NEW s \in Streams
  PROVE  /\ \A count \in 0 .. Len(s) + 1 : FirstExact(s, count)
         /\ \A count \in 0 .. 2 * Len(s) + 1 : LastExact(s, count)
         /\ \A i \in 0 .. Len(s) - 1, count \in 0 .. Len(s) + 1 : FromExact(s, i, count)
<1>1. Len(s) \in Nat
  BY LenProperties DEF Streams
<1>2. ASSUME NEW count \in 0 .. Len(s) + 1  PROVE FirstExact(s, count)
  <2>1. count \in Nat /\ 0 \in 0 .. Len(s) /\ 0 + count = count /\ Len(s) - 0 = Len(s)
    BY <1>1
  <2>2. PICK n \in 0 .. Min({count, Len(s) - 0}) :
            /\ BeforeHole(Slice(s, 0, 0 + count)) = SubSeq(s, 0 + 1, 0 + n)
            /\ Stretch(s, 0 + 1, 0 + n)
            /\ n < count => ~Stretch(s, 0 + 1, 0 + n + 1)
    BY <2>1, StretchFrom
  <2>3. 0 + 1 = 1 /\ 0 + n = n /\ 0 + n + 1 = n + 1
    BY <2>1, <2>2
  <2> QED
    BY <2>1, <2>2, <2>3 DEF FirstExact, FirstOnes
<1>3. ASSUME NEW i \in 0 .. Len(s) - 1, NEW count \in 0 .. Len(s) + 1
      PROVE  FromExact(s, i, count)
  <2>1. count \in Nat /\ i \in 0 .. Len(s)
    BY <1>1
  <2> QED
    BY <2>1, StretchFrom DEF FromExact, FromMid
<1>4. ASSUME NEW count \in 0 .. 2 * Len(s) + 1  PROVE LastExact(s, count)
  <2>1. count \in Nat
    BY <1>1
  <2> QED
    BY <2>1, BackReaches
<1> QED
  BY <1>2, <1>3, <1>4

\* Holes and overwriting displace no message, and front, back and range return
\* the longest stretch without a hole they reach to, for lists of any length:
\* what their doc strings promise, save that back asked for more messages than
\* there are does not return all of them.
THEOREM StreamsAreExact == Spec => []StreamsExact
<1>1. IInv => FetchExact
  BY FetchesExact DEF IInv, TypeInv, FetchExact
<1> QED
  BY <1>1, Invariance, InPlaceAlways, PTL DEF StreamsExact
=============================================================================
