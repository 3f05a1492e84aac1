------------------------------- MODULE Sessions -------------------------------
(***************************************************************************)
(* contrib/sessions.py: Session wraps a record of the application's        *)
(* storage; it gives the record an id and a date of expiry, and hides its  *)
(* data after that date.  Who loads and saves records is a session manager *)
(* of the application; the one modelled is that of Session's doc string:   *)
(* it loads a copy of the record its cookie names, or makes a new one, and *)
(* saves it with every change.                                             *)
(*                                                                         *)
(* The single calls are atomic, but a request may be answered piece by     *)
(* piece, or be parked, so requests overlap, those of one browser too.     *)
(* Time is counted in ticks, Second of them to a second: a date is written *)
(* with seconds, now() is compared with all its digits.                    *)
(***************************************************************************)
EXTENDS Integers

CONSTANTS
    Browser,    \* clients that keep a cookie
    Request,    \* bound: requests open at a time
    Id,         \* session ids; bound: those in use at a time
    NoId,       \* no session id: no cookie, or an empty record
    Key,        \* keys of the session's dictionary
    Value,      \* values an application stores
    NoValue,    \* get's default
    MaxAge,     \* max_age, in seconds
    Second,     \* ticks in a second
    MaxTime     \* bound of the clock

ASSUME ConstantsAssumption ==
    /\ NoId \notin Id /\ NoValue \notin Value
    /\ MaxAge \in Nat \ {0} /\ Second \in Nat \ {0} /\ MaxTime \in Nat

VARIABLES
    now,        \* the clock, in ticks
    cookie,     \* cookie[b]: the session id browser b sends
    storage,    \* storage[i]: the record saved under id i
    open,       \* open[r]: the browser and the manager's record of request r
    got,        \* what the last get returned, and to whom
    written,    \* history: written[b][k]: what b's requests set last
    mixed       \* history: the browsers whose requests have overlapped

vars == <<now, cookie, storage, open, got, written, mixed>>

\* What is stored is a pair of a browser and a value, to tell whose it is.
NoData == [k \in Key |-> NoValue]

\* A record: sessionid, expiration_date (0 is None) and strdata; born is
\* history, the time its date of expiry was set.
NoRecord == [id |-> NoId, exp |-> 0, data |-> NoData, born |-> 0]
Closed == <<>>

Init ==
    /\ now = 0
    /\ cookie = [b \in Browser |-> NoId]
    /\ storage = [i \in Id |-> NoRecord]
    /\ open = [r \in Request |-> Closed]
    /\ got = <<>>
    /\ written = [b \in Browser |-> NoData]
    /\ mixed = {}

-----------------------------------------------------------------------------
(* Session *)

IsOpen(r) == open[r] # Closed
Opened == {r \in Request : IsOpen(r)}
Owner(r) == open[r].browser
Record(r) == open[r].record

InUse == {storage[i].id : i \in Id} \cup {cookie[b] : b \in Browser}
             \cup {Record(r).id : r \in Opened}

\* Mutant: an id may be that of another session.
NewIdTaken(i) == i \in Id

\* newid: 12 random bytes, never those of another session.
NewId(i) == i \in Id \ InUse

\* update_expdate and _getexpdate, when there is no date: strftime drops
\* the fraction of a second.
ExpDate(rec) ==
    IF rec.exp # 0 THEN rec
    ELSE [rec EXCEPT !.exp = ((now + MaxAge * Second) \div Second) * Second,
                     !.born = now]

\* Session(sessdb) with i for the id of a record that has none.
Session(rec, i) == [ExpDate(rec) EXCEPT !.id = IF @ = NoId THEN i ELSE @]

\* The ids Session may take.
IdFor(rec, i) == IF rec.id = NoId THEN NewId(i) ELSE i = rec.id

\* Mutants: the second of expiry belongs to the session; a second is missing.
GetDataLong(rec) == IF rec.exp + Second < now THEN NoData ELSE rec.data
GetDataShort(rec) == IF rec.exp - Second < now THEN NoData ELSE rec.data

\* getdata or {}; a record without data is one with strdata None or '', or,
\* if it is new, without the key: see Raises.
GetData(rec) == IF rec.exp < now THEN NoData ELSE rec.data

\* setdata: pickled, thus a copy.  The date of expiry stays.
SetData(rec, data) == [rec EXCEPT !.data = data]

-----------------------------------------------------------------------------
(* The session manager of the doc string *)

\* SessionMgr.__init__: the record of the cookie, or an empty one.
Arrives(r, b) ==
    /\ ~IsOpen(r)
    /\ open' = [open EXCEPT ![r] =
                 [browser |-> b,
                  record |-> IF cookie[b] = NoId THEN NoRecord
                             ELSE storage[cookie[b]]]]
    /\ mixed' = mixed \cup {Owner(o) : o \in {x \in Opened : Owner(x) = b}}
    /\ UNCHANGED <<now, cookie, storage, got, written>>

\* get; a new record gets an id, but is not saved.
Get(r, k) ==
    /\ IsOpen(r)
    /\ \E i \in Id :
        /\ IdFor(Record(r), i)
        /\ LET rec == Session(Record(r), i)
           IN  /\ open' = [open EXCEPT ![r].record = rec]
               /\ got' = [browser |-> Owner(r), key |-> k, at |-> now,
                          born |-> rec.born, value |-> GetData(rec)[k]]
    /\ UNCHANGED <<now, cookie, storage, written, mixed>>

\* set and delete, of which the latter stores NoValue.
Store(r, k, v) ==
    /\ IsOpen(r)
    /\ \E i \in Id :
        /\ IdFor(Record(r), i)
        /\ LET rec == Session(Record(r), i)
               new == SetData(rec, [GetData(rec) EXCEPT ![k] = v])
           IN  /\ open' = [open EXCEPT ![r].record = new]
               /\ storage' = [storage EXCEPT ![new.id] = new]
    /\ written' = [written EXCEPT ![Owner(r)][k] = v]
    /\ got' = <<>>
    /\ UNCHANGED <<now, cookie, mixed>>

Set(r, k, v) == Store(r, k, <<Owner(r), v>>)
Delete(r, k) == Store(r, k, NoValue)

\* newid, for a session that is to go on under another id, and the save.
Renew(r) ==
    /\ IsOpen(r)
    /\ Record(r).id # NoId
    /\ \E i \in Id :
        /\ NewId(i)
        /\ LET rec == [Record(r) EXCEPT !.id = i]
           IN  /\ open' = [open EXCEPT ![r].record = rec]
               /\ storage' = [storage EXCEPT ![i] = rec]
    /\ UNCHANGED <<now, cookie, got, written, mixed>>

\* The response sets the cookie; parse_cookies finds it in the next request.
Ends(r) ==
    /\ IsOpen(r)
    /\ open' = [open EXCEPT ![r] = Closed]
    /\ cookie' = IF Record(r).id = NoId THEN cookie
                 ELSE [cookie EXCEPT ![Owner(r)] = Record(r).id]
    /\ got' = <<>>
    /\ UNCHANGED <<now, storage, written, mixed>>

\* getdata of a record that is a bare {} (the doc string's "empty" one, if it
\* has no key "strdata"): KeyError.  The id and date just put into it are lost
\* with the request, and the answer sets no cookie.
Raises(r) == IsOpen(r) /\ Record(r) = NoRecord /\ Ends(r)

\* A browser forgets its cookie between two requests.
Forgets(b) ==
    /\ \A r \in Opened : Owner(r) # b
    /\ cookie' = [cookie EXCEPT ![b] = NoId]
    /\ written' = [written EXCEPT ![b] = NoData]
    /\ got' = <<>>
    /\ UNCHANGED <<now, storage, open, mixed>>

Tick ==
    /\ now < MaxTime
    /\ now' = now + 1
    /\ got' = <<>>
    /\ UNCHANGED <<cookie, storage, open, written, mixed>>

Next ==
    \/ \E r \in Request :
        \/ \E b \in Browser : Arrives(r, b)
        \/ \E k \in Key :
            \/ Get(r, k)
            \/ \E v \in Value : Set(r, k, v)
            \/ Delete(r, k)
        \/ Renew(r) \/ Ends(r) \/ Raises(r)
    \/ \E b \in Browser : Forgets(b)
    \/ Tick

Spec == Init /\ [][Next]_vars

-----------------------------------------------------------------------------
(* Properties *)

\* A session returns what its own browser stored, and that of no other:
\* through cookies, saved records and requests in any order.
OwnDataOnly ==
    got # <<>> => got.value \in ({got.browser} \X Value) \cup {NoValue}

\* "After expiration the associated date will be lost": whatever was stored
\* since, and however often, nothing is seen more than MaxAge seconds after
\* the session began.
NothingAfterExpiry ==
    got # <<>> /\ got.at > got.born + MaxAge * Second => got.value = NoValue

\* Before the last second of that time, a browser whose requests come one
\* after the other reads what it stored last, also under a renewed id.
ReadsLastWrite ==
    got # <<>> /\ got.browser \notin mixed
        /\ got.at <= got.born + (MaxAge - 1) * Second =>
            got.value = written[got.browser][got.key]

=============================================================================
