---------------------------- MODULE SessionsProofs ----------------------------
(***************************************************************************)
(* Sessions for any number of browsers, overlapping requests, keys and     *)
(* values: a session returns nothing that another browser stored and       *)
(* nothing that is too old, and what a browser stored last if its requests *)
(* do not overlap.                                                         *)
(***************************************************************************)
EXTENDS Sessions, TLAPS

\* What a browser may see.
DataOf(b) == [Key -> ({b} \X Value) \cup {NoValue}]

\* Who holds an id: in his cookie, or in a request that is open.
Holds(b, i) ==
    \/ cookie[b] = i
    \/ \E r \in Request : IsOpen(r) /\ Owner(r) = b /\ Record(r).id = i

\* What is needed of the types.  A record is saved under its own id.
Shape(rec) ==
    DOMAIN rec = {"id", "exp", "data", "born"} /\ rec.id \in Id \cup {NoId}

TypeInv ==
    /\ cookie \in [Browser -> Id \cup {NoId}]
    /\ DOMAIN storage = Id
    /\ DOMAIN open = Request
    /\ \A i \in Id : storage[i] = NoRecord \/ (Shape(storage[i]) /\ storage[i].id = i)
    /\ \A r \in Request : IsOpen(r) =>
        /\ DOMAIN open[r] = {"browser", "record"}
        /\ Owner(r) \in Browser
        /\ Shape(Record(r))

\* No two browsers hold one id.
OneHolder ==
    \A i \in Id : \A b, c \in Browser : Holds(b, i) /\ Holds(c, i) => b = c

\* What is saved under an id is its holder's, and so is an open record.
SavedIsOwn == \A i \in Id : \A b \in Browser : Holds(b, i) => storage[i].data \in DataOf(b)
OpenIsOwn == \A r \in Request : IsOpen(r) => Record(r).data \in DataOf(Owner(r))

IInv == TypeInv /\ OneHolder /\ SavedIsOwn /\ OpenIsOwn /\ OwnDataOnly

LEMMA NoDataIsAnyones ==
  ASSUME NEW b
  PROVE  NoData \in DataOf(b)
  BY DEF NoData, DataOf

LEMMA InitIInv == Init => IInv
<1> SUFFICES ASSUME Init  PROVE IInv
  OBVIOUS
<1>1. \A r \in Request : ~IsOpen(r)
  BY DEF Init, IsOpen
<1>2. TypeInv
  BY <1>1 DEF Init, TypeInv, NoRecord
<1>3. \A i \in Id : \A b \in Browser : ~Holds(b, i)
  BY <1>1, ConstantsAssumption DEF Init, Holds
<1> QED
  BY <1>1, <1>2, <1>3 DEF Init, IInv, OneHolder, SavedIsOwn, OpenIsOwn, OwnDataOnly

-----------------------------------------------------------------------------
(* Session *)

LEMMA NoRecordShape == Shape(NoRecord) /\ NoRecord.id = NoId /\ NoRecord.data = NoData
  BY DEF Shape, NoRecord

\* Giving a record its date and its id leaves the data.
LEMMA SessionShape ==
  ASSUME NEW rec, Shape(rec), NEW i \in Id
  PROVE  /\ Shape(Session(rec, i))
         /\ Session(rec, i).data = rec.data
         /\ Session(rec, i).id = IF rec.id = NoId THEN i ELSE rec.id
<1>1. /\ DOMAIN ExpDate(rec) = {"id", "exp", "data", "born"}
      /\ ExpDate(rec).id = rec.id /\ ExpDate(rec).data = rec.data
  BY DEF ExpDate, Shape
<1> QED
  BY <1>1 DEF Session, Shape

\* A request's record takes a date, data and, if it is to, an id that nobody
\* holds, and may be saved under it.
LEMMA RecordStep ==
  ASSUME IInv, NEW r \in Request, IsOpen(r),
         NEW i \in Id, Record(r).id = i \/ NewId(i),
         NEW rec, Shape(rec), rec.id = i, rec.data \in DataOf(Owner(r)),
         open' = [open EXCEPT ![r].record = rec],
         storage' = storage \/ storage' = [storage EXCEPT ![i] = rec],
         UNCHANGED cookie
  PROVE  TypeInv' /\ OneHolder' /\ SavedIsOwn' /\ OpenIsOwn'
<1>1. /\ DOMAIN open'[r] = {"browser", "record"}
      /\ Owner(r)' = Owner(r) /\ Record(r)' = rec
      /\ IsOpen(r)'
  <2>1. /\ DOMAIN open'[r] = {"browser", "record"}
        /\ open'[r].browser = open[r].browser /\ open'[r].record = rec
    BY DEF IInv, TypeInv
  <2>2. open'[r] # Closed
    <3>1. DOMAIN Closed = {}
      BY DEF Closed
    <3> QED
      BY <2>1, <3>1
  <2> QED
    BY <2>1, <2>2 DEF Owner, Record, IsOpen
<1>2. \A s \in Request \ {r} : open'[s] = open[s]
  BY DEF IInv, TypeInv
<1>3. \A s \in Request \ {r} :
        (IsOpen(s)' <=> IsOpen(s)) /\ Owner(s)' = Owner(s) /\ Record(s)' = Record(s)
  BY <1>2 DEF IsOpen, Owner, Record
<1>4. TypeInv'
  <2>1. ASSUME NEW j \in Id
        PROVE  storage'[j] = NoRecord \/ (Shape(storage'[j]) /\ storage'[j].id = j)
    BY <2>1 DEF IInv, TypeInv
  <2>2. ASSUME NEW s \in Request, IsOpen(s)'
        PROVE  /\ DOMAIN open'[s] = {"browser", "record"}
               /\ Owner(s)' \in Browser /\ Shape(Record(s)')
    BY <1>1, <1>2, <1>3, <2>2 DEF IInv, TypeInv
  <2>3. DOMAIN storage' = Id /\ DOMAIN open' = Request
    BY DEF IInv, TypeInv
  <2> QED
    BY <2>1, <2>2, <2>3 DEF IInv, TypeInv, Shape
<1>5. ASSUME NEW b \in Browser, NEW j \in Id, Holds(b, j)'
      PROVE  Holds(b, j) \/ (b = Owner(r) /\ j = i)
  BY <1>1, <1>3, <1>5 DEF Holds
<1>6. ASSUME NEW b \in Browser, Holds(b, i)  PROVE b = Owner(r)
  <2>1. CASE Record(r).id = i
    BY <1>6, <2>1 DEF IInv, TypeInv, OneHolder, Holds
  <2>2. CASE NewId(i)
    BY <1>6, <2>2 DEF NewId, InUse, Holds, Opened
  <2> QED
    BY <2>1, <2>2
<1>7. OneHolder'
  BY <1>5, <1>6 DEF IInv, OneHolder
<1>8. SavedIsOwn'
  <2>1. ASSUME NEW b \in Browser, NEW j \in Id, j # i, Holds(b, j)'
        PROVE  storage'[j].data \in DataOf(b)
    <3>1. storage'[j] = storage[j]
      BY <2>1 DEF IInv, TypeInv
    <3> QED
      BY <1>5, <2>1, <3>1 DEF IInv, SavedIsOwn
  <2>2. ASSUME NEW b \in Browser, Holds(b, i)'
        PROVE  storage'[i].data \in DataOf(b)
    <3>1. b = Owner(r)
      BY <1>5, <1>6, <2>2
    <3>2. CASE storage' = [storage EXCEPT ![i] = rec]
      BY <3>1, <3>2 DEF IInv, TypeInv
    <3>3. CASE storage' = storage /\ Record(r).id = i
      BY <3>1, <3>3 DEF IInv, SavedIsOwn, Holds, TypeInv
    <3>4. CASE storage' = storage /\ NewId(i)
      <4>1. storage[i].id # i
        BY <3>4 DEF NewId, InUse
      <4>2. storage[i] = NoRecord
        BY <4>1 DEF IInv, TypeInv
      <4> QED
        BY <3>4, <4>2, NoRecordShape, NoDataIsAnyones
    <3> QED
      BY <3>2, <3>3, <3>4
  <2> QED
    BY <2>1, <2>2 DEF SavedIsOwn
<1>9. OpenIsOwn'
  BY <1>1, <1>3 DEF IInv, OpenIsOwn
<1> QED
  BY <1>4, <1>7, <1>8, <1>9

LEMMA GetInv ==
  ASSUME IInv, NEW r \in Request, NEW k \in Key, Get(r, k)
  PROVE  IInv'
<1>1. PICK i \in Id :
        /\ IdFor(Record(r), i)
        /\ open' = [open EXCEPT ![r].record = Session(Record(r), i)]
        /\ got' = [browser |-> Owner(r), key |-> k, at |-> now,
                   born |-> Session(Record(r), i).born,
                   value |-> GetData(Session(Record(r), i))[k]]
  BY DEF Get
<1> DEFINE rec == Session(Record(r), i)
<1>2. IsOpen(r) /\ UNCHANGED <<storage, cookie>>
  BY DEF Get
<1>3. Shape(rec) /\ rec.id = i /\ rec.data \in DataOf(Owner(r))
  BY <1>1, <1>2, SessionShape DEF IInv, TypeInv, OpenIsOwn, IdFor
<1>4. Record(r).id = i \/ NewId(i)
  BY <1>1 DEF IdFor
<1>5. TypeInv' /\ OneHolder' /\ SavedIsOwn' /\ OpenIsOwn'
  <2> HIDE DEF rec
  <2>1. open' = [open EXCEPT ![r].record = rec]
    BY <1>1 DEF rec
  <2> QED
    BY <1>2, <1>3, <1>4, <2>1, RecordStep
<1>6. OwnDataOnly'
  <2>1. GetData(rec) \in DataOf(Owner(r))
    BY <1>3, NoDataIsAnyones DEF GetData
  <2>2. GetData(rec)[k] \in ({Owner(r)} \X Value) \cup {NoValue}
    BY <2>1 DEF DataOf
  <2>3. got'.browser = Owner(r) /\ got'.value = GetData(rec)[k]
    BY <1>1
  <2> QED
    BY <2>2, <2>3 DEF OwnDataOnly
<1> QED
  BY <1>5, <1>6 DEF IInv

LEMMA StoreInv ==
  ASSUME IInv, NEW r \in Request, NEW k \in Key,
         NEW v \in ({Owner(r)} \X Value) \cup {NoValue}, Store(r, k, v)
  PROVE  IInv'
<1>1. PICK i \in Id :
        LET rec == Session(Record(r), i)
            new == SetData(rec, [GetData(rec) EXCEPT ![k] = v])
        IN  /\ IdFor(Record(r), i)
            /\ open' = [open EXCEPT ![r].record = new]
            /\ storage' = [storage EXCEPT ![new.id] = new]
  BY DEF Store
<1> DEFINE rec == Session(Record(r), i)
           new == SetData(rec, [GetData(rec) EXCEPT ![k] = v])
<1>2. IsOpen(r) /\ UNCHANGED cookie /\ got' = <<>>
  BY DEF Store
<1>3. Shape(rec) /\ rec.id = i /\ rec.data \in DataOf(Owner(r))
  BY <1>1, <1>2, SessionShape DEF IInv, TypeInv, OpenIsOwn, IdFor
<1>4. GetData(rec) \in DataOf(Owner(r))
  BY <1>3, NoDataIsAnyones DEF GetData
<1>5. Shape(new) /\ new.id = i /\ new.data \in DataOf(Owner(r))
  <2> HIDE DEF rec
  <2>1. [GetData(rec) EXCEPT ![k] = v] \in DataOf(Owner(r))
    BY <1>4 DEF DataOf
  <2> QED
    BY <1>3, <2>1 DEF SetData, Shape
<1>6. Record(r).id = i \/ NewId(i)
  BY <1>1 DEF IdFor
<1>7. TypeInv' /\ OneHolder' /\ SavedIsOwn' /\ OpenIsOwn'
  <2>1. open' = [open EXCEPT ![r].record = new] /\ storage' = [storage EXCEPT ![i] = new]
    BY <1>1, <1>5
  <2> HIDE DEF new
  <2> QED
    BY <1>2, <1>5, <1>6, <2>1, RecordStep
<1> QED
  BY <1>2, <1>7 DEF IInv, OwnDataOnly

LEMMA RenewInv ==
  ASSUME IInv, NEW r \in Request, Renew(r)
  PROVE  IInv'
<1>1. PICK i \in Id :
        /\ NewId(i)
        /\ open' = [open EXCEPT ![r].record = [Record(r) EXCEPT !.id = i]]
        /\ storage' = [storage EXCEPT ![i] = [Record(r) EXCEPT !.id = i]]
  BY DEF Renew
<1> DEFINE rec == [Record(r) EXCEPT !.id = i]
<1>2. IsOpen(r) /\ UNCHANGED <<cookie, got>>
  BY DEF Renew
<1>3. Shape(rec) /\ rec.id = i /\ rec.data \in DataOf(Owner(r))
  BY <1>2 DEF IInv, TypeInv, OpenIsOwn, Shape
<1>4. TypeInv' /\ OneHolder' /\ SavedIsOwn' /\ OpenIsOwn'
  <2>1. open' = [open EXCEPT ![r].record = rec] /\ storage' = [storage EXCEPT ![i] = rec]
    BY <1>1
  <2> HIDE DEF rec
  <2> QED
    BY <1>1, <1>2, <1>3, <2>1, RecordStep
<1> QED
  BY <1>2, <1>4 DEF IInv, OwnDataOnly

-----------------------------------------------------------------------------
(* Requests and browsers *)

LEMMA ArrivesInv ==
  ASSUME IInv, NEW r \in Request, NEW b \in Browser, Arrives(r, b)
  PROVE  IInv'
<1> DEFINE rec == IF cookie[b] = NoId THEN NoRecord ELSE storage[cookie[b]]
<1>1. /\ ~IsOpen(r) /\ UNCHANGED <<cookie, storage, got>>
      /\ open' = [open EXCEPT ![r] = [browser |-> b, record |-> rec]]
  BY DEF Arrives
<1>2. /\ Shape(rec) /\ rec.data \in DataOf(b)
      /\ rec.id \in {NoId, cookie[b]}
  <2>1. CASE cookie[b] = NoId
    BY <2>1, NoRecordShape, NoDataIsAnyones
  <2>2. CASE cookie[b] # NoId
    <3>1. cookie[b] \in Id
      BY <2>2 DEF IInv, TypeInv
    <3>2. storage[cookie[b]] = NoRecord
            \/ (Shape(storage[cookie[b]]) /\ storage[cookie[b]].id = cookie[b])
      BY <3>1 DEF IInv, TypeInv
    <3>3. storage[cookie[b]].data \in DataOf(b)
      BY <3>1 DEF IInv, SavedIsOwn, Holds
    <3> QED
      BY <2>2, <3>2, <3>3, NoRecordShape
  <2> QED
    BY <2>1, <2>2
<1> HIDE DEF rec
<1>3. /\ open'[r] = [browser |-> b, record |-> rec]
      /\ \A s \in Request \ {r} : open'[s] = open[s]
  BY <1>1 DEF IInv, TypeInv
<1>4. Owner(r)' = b /\ Record(r)' = rec /\ DOMAIN open'[r] = {"browser", "record"}
  BY <1>3 DEF Owner, Record
<1>5. \A s \in Request \ {r} :
        (IsOpen(s)' <=> IsOpen(s)) /\ Owner(s)' = Owner(s) /\ Record(s)' = Record(s)
  BY <1>3 DEF IsOpen, Owner, Record
<1>6. TypeInv'
  <2>1. ASSUME NEW s \in Request, IsOpen(s)'
        PROVE  /\ DOMAIN open'[s] = {"browser", "record"}
               /\ Owner(s)' \in Browser /\ Shape(Record(s)')
    BY <1>2, <1>3, <1>4, <1>5, <2>1 DEF IInv, TypeInv
  <2> QED
    BY <1>1, <2>1 DEF IInv, TypeInv, Shape
<1>7. ASSUME NEW c \in Browser, NEW i \in Id, Holds(c, i)'  PROVE Holds(c, i)
  <2>1. CASE cookie[c] = i
    BY <2>1 DEF Holds
  <2>2. CASE cookie[c] # i
    <3>1. PICK s \in Request : IsOpen(s)' /\ Owner(s)' = c /\ Record(s)'.id = i
      BY <1>1, <1>7, <2>2 DEF Holds
    <3>2. CASE s = r
      BY <1>2, <1>4, <2>2, <3>1, <3>2, ConstantsAssumption
    <3>3. CASE s # r
      BY <1>5, <3>1, <3>3 DEF Holds
    <3> QED
      BY <3>2, <3>3
  <2> QED
    BY <2>1, <2>2
<1>8. OneHolder'
  BY <1>7 DEF IInv, OneHolder
<1>9. SavedIsOwn'
  BY <1>1, <1>7 DEF IInv, SavedIsOwn
<1>10. OpenIsOwn'
  BY <1>2, <1>4, <1>5 DEF IInv, OpenIsOwn
<1> QED
  BY <1>1, <1>6, <1>8, <1>9, <1>10 DEF IInv, OwnDataOnly

\* The cookie a response sets is that of its own request.
LEMMA EndsInv ==
  ASSUME IInv, NEW r \in Request, Ends(r)
  PROVE  IInv'
<1>1. /\ IsOpen(r) /\ UNCHANGED storage /\ got' = <<>>
      /\ open' = [open EXCEPT ![r] = Closed]
      /\ cookie' = IF Record(r).id = NoId THEN cookie
                   ELSE [cookie EXCEPT ![Owner(r)] = Record(r).id]
  BY DEF Ends
<1>2. ~IsOpen(r)' /\ \A s \in Request \ {r} :
        /\ open'[s] = open[s]
        /\ IsOpen(s)' <=> IsOpen(s)
        /\ Owner(s)' = Owner(s) /\ Record(s)' = Record(s)
  BY <1>1 DEF IInv, TypeInv, IsOpen, Owner, Record
<1>3. TypeInv'
  <2>1. cookie' \in [Browser -> Id \cup {NoId}]
    BY <1>1 DEF IInv, TypeInv, Shape
  <2>2. ASSUME NEW s \in Request, IsOpen(s)'
        PROVE  /\ DOMAIN open'[s] = {"browser", "record"}
               /\ Owner(s)' \in Browser /\ Shape(Record(s)')
    BY <1>2, <2>2 DEF IInv, TypeInv
  <2> QED
    BY <1>1, <2>1, <2>2 DEF IInv, TypeInv, Shape
<1>4. ASSUME NEW c \in Browser, NEW i \in Id, Holds(c, i)'  PROVE Holds(c, i)
  <2>1. CASE cookie'[c] = i
    <3>1. cookie[c] = i \/ (c = Owner(r) /\ Record(r).id = i)
      BY <1>1, <2>1 DEF IInv, TypeInv
    <3> QED
      BY <1>1, <3>1 DEF Holds
  <2>2. CASE cookie'[c] # i
    BY <1>2, <1>4, <2>2 DEF Holds
  <2> QED
    BY <2>1, <2>2
<1>5. OneHolder'
  BY <1>4 DEF IInv, OneHolder
<1>6. SavedIsOwn'
  BY <1>1, <1>4 DEF IInv, SavedIsOwn
<1>7. OpenIsOwn'
  BY <1>2 DEF IInv, OpenIsOwn
<1> QED
  BY <1>1, <1>3, <1>5, <1>6, <1>7 DEF IInv, OwnDataOnly

LEMMA ForgetsInv ==
  ASSUME IInv, NEW b \in Browser, Forgets(b)
  PROVE  IInv'
<1>1. /\ cookie' = [cookie EXCEPT ![b] = NoId] /\ got' = <<>>
      /\ UNCHANGED <<storage, open>>
  BY DEF Forgets
<1>2. ASSUME NEW c \in Browser, NEW i \in Id, Holds(c, i)'  PROVE Holds(c, i)
  BY <1>1, <1>2, ConstantsAssumption DEF IInv, TypeInv, Holds, IsOpen, Owner, Record
<1>3. TypeInv'
  BY <1>1 DEF IInv, TypeInv, IsOpen, Owner, Record, Shape
<1> QED
  BY <1>1, <1>2, <1>3 DEF IInv, OneHolder, SavedIsOwn, OpenIsOwn, OwnDataOnly,
     IsOpen, Owner, Record

LEMMA NextInv ==
  ASSUME IInv, [Next]_vars
  PROVE  IInv'
<1>1. ASSUME NEW r \in Request, NEW b \in Browser, Arrives(r, b)  PROVE IInv'
  BY <1>1, ArrivesInv
<1>2. ASSUME NEW r \in Request, NEW k \in Key, Get(r, k)  PROVE IInv'
  BY <1>2, GetInv
<1>3. ASSUME NEW r \in Request, NEW k \in Key,
             Delete(r, k) \/ \E v \in Value : Set(r, k, v)
      PROVE  IInv'
  BY <1>3, StoreInv DEF Set, Delete
<1>4. ASSUME NEW r \in Request, Renew(r) \/ Ends(r) \/ Raises(r)  PROVE IInv'
  BY <1>4, RenewInv, EndsInv DEF Raises
<1>5. ASSUME NEW b \in Browser, Forgets(b)  PROVE IInv'
  BY <1>5, ForgetsInv
<1>6. ASSUME UNCHANGED <<cookie, storage, open>>, got' \in {got, <<>>}  PROVE IInv'
  <2>1. TypeInv' /\ OneHolder' /\ SavedIsOwn' /\ OpenIsOwn'
    BY <1>6 DEF IInv, TypeInv, OneHolder, SavedIsOwn, OpenIsOwn, Holds, IsOpen,
       Owner, Record, Shape
  <2> QED
    BY <1>6, <2>1 DEF IInv, OwnDataOnly
<1>7. CASE Tick \/ UNCHANGED vars
  BY <1>6, <1>7 DEF Tick, vars
<1> QED
  BY <1>1, <1>2, <1>3, <1>4, <1>5, <1>7 DEF Next

\* The strengthened invariant holds in every state.
THEOREM Invariance == Spec => []IInv
  BY InitIInv, NextInv, PTL DEF Spec

\* Whatever requests overlap, whatever expires or is renewed: a session
\* returns what its own browser stored, or nothing.
THEOREM OwnDataAlways == Spec => []OwnDataOnly
<1>1. IInv => OwnDataOnly
  BY DEF IInv
<1> QED
  BY <1>1, Invariance, PTL

-----------------------------------------------------------------------------
(* Time *)

\* How long a session is seen at least, and at most.
Short == (MaxAge - 1) * Second
Long == MaxAge * Second

\* A record got its date of expiry when it got its id, and keeps both.
Dated(rec) ==
    /\ rec.born \in Nat /\ rec.exp \in Nat
    /\ rec.born + Short < rec.exp /\ rec.exp <= rec.born + Long

Sound(rec) ==
    rec # NoRecord =>
        /\ rec = [id |-> rec.id, exp |-> rec.exp, data |-> rec.data, born |-> rec.born]
        /\ rec.id \in Id /\ Dated(rec)

DatesInv ==
    /\ now \in Nat
    /\ \A i \in Id : Sound(storage[i])
    /\ \A r \in Request : IsOpen(r) => Sound(Record(r))

\* In a browser that has one request at a time, what is saved and what the
\* request works on are the same, or nothing was ever saved; it is what was
\* written, as long as the record is live.
Live(rec) == now <= rec.born + Short
Shows(rec, b) == IF rec = NoRecord THEN written[b] = NoData
                 ELSE Live(rec) => rec.data = written[b]
Saved(i, b) == storage[i] = NoRecord /\ written[b] = NoData

Alone(b) ==
    /\ \A r, s \in Opened : Owner(r) = b /\ Owner(s) = b => r = s
    /\ \A r \in Opened : Owner(r) = b =>
        /\ Shows(Record(r), b)
        /\ Record(r).id # NoId =>
               storage[Record(r).id] = Record(r) \/ Saved(Record(r).id, b)
        /\ Record(r).id = NoId /\ cookie[b] # NoId => storage[cookie[b]] = NoRecord
    /\ (\A r \in Opened : Owner(r) # b) =>
        IF cookie[b] = NoId THEN written[b] = NoData ELSE Shows(storage[cookie[b]], b)

HistoryInv ==
    /\ DOMAIN written = Browser
    /\ \A b \in Browser : DOMAIN written[b] = Key
    /\ \A b \in Browser \ mixed : Alone(b)

GotInv == NothingAfterExpiry /\ ReadsLastWrite

TimeInv == IInv /\ DatesInv /\ HistoryInv /\ GotInv

LEMMA Periods == Short \in Nat /\ Long \in Nat /\ Long = Short + Second
<1>1. MaxAge \in Nat /\ MaxAge >= 1 /\ Second \in Nat /\ MaxAge - 1 \in Nat
  BY ConstantsAssumption
<1>2. (MaxAge - 1) * Second + Second = MaxAge * Second
  BY <1>1
<1> QED
  BY <1>1, <1>2 DEF Short, Long

\* Cutting a fraction off loses less than a second.
LEMMA CutOff ==
  ASSUME NEW t \in Nat
  PROVE  /\ (t \div Second) * Second \in Nat
         /\ (t \div Second) * Second <= t
         /\ t < (t \div Second) * Second + Second
  BY ConstantsAssumption

\* Session makes a record sound, and leaves alone one that is.
LEMMA SessionSound ==
  ASSUME now \in Nat, NEW rec, Sound(rec), Shape(rec), NEW i \in Id
  PROVE  /\ Sound(Session(rec, i)) /\ Dated(Session(rec, i))
         /\ rec = NoRecord => Live(Session(rec, i)) /\ Session(rec, i).data = NoData
         /\ rec # NoRecord /\ i = rec.id => Session(rec, i) = rec
<1>1. CASE rec = NoRecord
  <2> DEFINE t == now + Long
             e == (t \div Second) * Second
  <2>1. t \in Nat
    BY Periods
  <2>2. ExpDate(rec) = [id |-> NoId, exp |-> e, data |-> NoData, born |-> now]
    BY <1>1 DEF ExpDate, NoRecord, Long
  <2> HIDE DEF e, t
  <2>3. e \in Nat /\ e <= t /\ t < e + Second
    BY <2>1, CutOff DEF e
  <2>4. e \in Nat /\ e <= now + Long /\ now + Short < e
    BY <2>3, Periods, ConstantsAssumption DEF t
  <2>5. Session(rec, i) = [id |-> i, exp |-> e, data |-> NoData, born |-> now]
    BY <2>2 DEF Session
  <2> QED
    BY <1>1, <2>4, <2>5, Periods DEF Sound, Dated, Live
<1>2. CASE rec # NoRecord
  <2>1. /\ rec = [id |-> rec.id, exp |-> rec.exp, data |-> rec.data, born |-> rec.born]
        /\ rec.id \in Id /\ Dated(rec) /\ rec.id # NoId
    BY <1>2, ConstantsAssumption DEF Sound
  <2>2. rec.exp # 0
    BY <2>1, Periods DEF Dated
  <2>3. ExpDate(rec) = rec
    BY <2>2 DEF ExpDate
  <2>4. Session(rec, i) = [rec EXCEPT !.id = rec.id]
    BY <2>1, <2>3 DEF Session
  <2>5. [rec EXCEPT !.id = rec.id] = rec
    BY <2>1
  <2> QED
    BY <1>2, <2>1, <2>4, <2>5 DEF Sound
<1> QED
  BY <1>1, <1>2

-----------------------------------------------------------------------------
(* One lemma per action, and one for what those on records share. *)

\* What a step that changes the record of one open request does to open.
LEMMA OpenAfter ==
  ASSUME TypeInv, NEW r \in Request, IsOpen(r), NEW rec,
         open' = [open EXCEPT ![r].record = rec]
  PROVE  /\ \A s \in Request : (IsOpen(s)' <=> IsOpen(s)) /\ Owner(s)' = Owner(s)
         /\ Record(r)' = rec
         /\ \A s \in Request \ {r} : Record(s)' = Record(s)
         /\ Opened' = Opened
<1>1. /\ DOMAIN open'[r] = {"browser", "record"}
      /\ open'[r].browser = open[r].browser /\ open'[r].record = rec
  BY DEF TypeInv
<1>2. open'[r] # Closed
  <2>1. DOMAIN Closed = {}
    BY DEF Closed
  <2> QED
    BY <1>1, <2>1
<1>3. \A s \in Request \ {r} : open'[s] = open[s]
  BY DEF TypeInv
<1> QED
  BY <1>1, <1>2, <1>3 DEF IsOpen, Owner, Record, Opened

\* Only its holder works on an id.
LEMMA HolderOnly ==
  ASSUME IInv, NEW r \in Request, IsOpen(r), NEW i \in Id,
         Record(r).id = i \/ NewId(i),
         NEW b \in Browser, Holds(b, i)
  PROVE  b = Owner(r)
<1>1. CASE Record(r).id = i
  BY <1>1 DEF IInv, TypeInv, OneHolder, Holds
<1>2. CASE NewId(i)
  BY <1>2 DEF NewId, InUse, Holds, Opened
<1> QED
  BY <1>1, <1>2

\* A record that stays sound, saved or not, leaves the others so.
LEMMA RecordDates ==
  ASSUME IInv, DatesInv, NEW r \in Request, IsOpen(r), NEW i \in Id,
         NEW rec, Sound(rec),
         open' = [open EXCEPT ![r].record = rec],
         storage' = storage \/ storage' = [storage EXCEPT ![i] = rec],
         UNCHANGED now
  PROVE  DatesInv'
<1>1. \A s \in Request : (IsOpen(s)' <=> IsOpen(s)) /\ Record(s)' \in {Record(s), rec}
  BY OpenAfter DEF IInv
<1>2. \A j \in Id : storage'[j] \in {storage[j], rec}
  BY DEF IInv, TypeInv
<1> QED
  BY <1>1, <1>2 DEF DatesInv, Sound, Dated

\* The request's record becomes rec.
Keeps(r, rec) == open' = [open EXCEPT ![r].record = rec]

\* A record that shows what its browser wrote, and is that which is saved
\* if one is, leaves the other browsers alone.
LEMMA RecordHistory ==
  ASSUME IInv, HistoryInv, NEW r \in Request, IsOpen(r), NEW i \in Id,
         Record(r).id = i \/ NewId(i),
         NEW o \in Browser, o = Owner(r), NEW rec, rec.id = i, rec # NoRecord,
         Keeps(r, rec),
         storage' = storage \/ storage' = [storage EXCEPT ![i] = rec],
         UNCHANGED <<now, cookie, mixed>>,
         DOMAIN written' = Browser,
         \A b \in Browser : DOMAIN written'[b] = Key,
         \A b \in Browser : b # o => written'[b] = written[b],
         o \notin mixed =>
             /\ Live(rec) => rec.data = written'[o]
             /\ storage'[i] = rec \/ (storage'[i] = NoRecord /\ written'[o] = NoData)
  PROVE  HistoryInv'
<1>1. /\ \A s \in Request : (IsOpen(s)' <=> IsOpen(s)) /\ Owner(s)' = Owner(s)
      /\ Record(r)' = rec
      /\ \A s \in Request \ {r} : Record(s)' = Record(s)
      /\ Opened' = Opened
  BY OpenAfter DEF IInv, Keeps
<1>2. r \in Opened /\ Opened \subseteq Request
  BY DEF Opened
<1>3. \A j \in Id : j # i => storage'[j] = storage[j]
  BY DEF IInv, TypeInv
<1> SUFFICES ASSUME NEW b \in Browser, b \notin mixed  PROVE Alone(b)'
  BY DEF HistoryInv
<1>4. Alone(b)
  BY DEF HistoryInv
<1>5. CASE b = Owner(r)
  <2>1. \A s \in Opened : Owner(s) = b => s = r
    BY <1>2, <1>4, <1>5 DEF Alone
  <2>2. Shows(Record(r), b)'
    BY <1>1, <1>5 DEF Shows, Live
  <2>3. storage[Record(r).id]' = Record(r)' \/ Saved(Record(r).id, b)'
    BY <1>1, <1>5 DEF Saved
  <2>4. Record(r)'.id # NoId
    BY <1>1, ConstantsAssumption
  <2> QED
    BY <1>1, <1>2, <1>5, <2>1, <2>2, <2>3, <2>4 DEF Alone
<1>6. CASE b # Owner(r)
  <2>1. ~Holds(b, i) /\ written'[b] = written[b]
    BY <1>6, HolderOnly
  <2>2. ASSUME NEW s \in Opened, Owner(s) = b
        PROVE  /\ Record(s)' = Record(s) /\ Record(s).id # i
               /\ Record(s).id \in Id \cup {NoId}
    BY <1>1, <1>2, <1>6, <2>1, <2>2 DEF Holds, Opened, IInv, TypeInv, Shape
  <2>3. ASSUME NEW s \in Opened, Owner(s) = b
        PROVE  /\ Shows(Record(s), b)'
               /\ Record(s)'.id # NoId =>
                      storage[Record(s).id]' = Record(s)' \/ Saved(Record(s).id, b)'
               /\ Record(s)'.id = NoId /\ cookie'[b] # NoId =>
                      storage'[cookie'[b]] = NoRecord
    <3>1. cookie[b] # NoId => cookie[b] \in Id /\ cookie[b] # i
      BY <2>1 DEF Holds, IInv, TypeInv
    <3> QED
      BY <1>3, <1>4, <2>1, <2>2, <2>3, <3>1 DEF Alone, Shows, Live, Saved
  <2>4. ASSUME \A s \in Opened : Owner(s) # b
        PROVE  IF cookie'[b] = NoId THEN written'[b] = NoData
               ELSE Shows(storage[cookie[b]], b)'
    <3>1. CASE cookie[b] = NoId
      BY <1>4, <2>1, <2>4, <3>1 DEF Alone
    <3>2. CASE cookie[b] # NoId
      <4>1. cookie[b] \in Id /\ cookie[b] # i
        BY <2>1, <3>2 DEF Holds, IInv, TypeInv
      <4> QED
        BY <1>3, <1>4, <2>1, <2>4, <3>2, <4>1 DEF Alone, Shows, Live
    <3> QED
      BY <3>1, <3>2
  <2>5. \A s, t \in Opened : Owner(s) = b /\ Owner(t) = b => s = t
    BY <1>4 DEF Alone
  <2> QED
    BY <1>1, <1>2, <2>3, <2>4, <2>5 DEF Alone
<1> QED
  BY <1>5, <1>6

\* What the record of an open request is, and becomes when it is a session.
LEMMA OpenSession ==
  ASSUME TimeInv, NEW r \in Request, IsOpen(r), NEW i \in Id, IdFor(Record(r), i),
         NEW o \in Browser, o = Owner(r)
  PROVE  LET rec == Session(Record(r), i)
         IN  /\ Sound(rec) /\ Dated(rec) /\ Shape(rec) /\ rec.id = i /\ rec # NoRecord
             /\ Record(r).id = i \/ NewId(i)
             /\ o \notin mixed =>
                    /\ Live(rec) => rec.data = written[o] /\ GetData(rec) = written[o]
                    /\ storage[i] = rec \/ Saved(i, o)
<1> DEFINE old == Record(r)
           rec == Session(old, i)
<1>1. Shape(old) /\ Sound(old) /\ now \in Nat
  BY DEF TimeInv, IInv, TypeInv, DatesInv
<1>2. /\ Sound(rec) /\ Dated(rec) /\ Shape(rec) /\ rec.id = i
      /\ old = NoRecord => rec.data = NoData
      /\ old # NoRecord /\ i = old.id => rec = old
  BY <1>1, SessionShape, SessionSound DEF IdFor
<1>3. old.id = i \/ NewId(i)
  BY DEF IdFor
<1>4. rec # NoRecord
  BY <1>2, NoRecordShape, ConstantsAssumption
<1>5. ASSUME o \notin mixed
      PROVE  /\ Live(rec) => rec.data = written[o] /\ GetData(rec) = written[o]
             /\ storage[i] = rec \/ Saved(i, o)
  <2>1. /\ Shows(old, o)
        /\ old.id # NoId => storage[old.id] = old \/ Saved(old.id, o)
    BY <1>5 DEF TimeInv, HistoryInv, Alone, Opened
  <2>2. Live(rec) => ~(rec.exp < now)
    BY <1>1, <1>2, Periods DEF Live, Dated
  <2>3. Live(rec) => GetData(rec) = rec.data
    BY <2>2 DEF GetData
  <2>4. CASE old = NoRecord
    <3>1. NewId(i)
      BY <2>4, NoRecordShape DEF IdFor
    <3>2. storage[i] = NoRecord
      BY <3>1 DEF NewId, InUse, TimeInv, IInv, TypeInv
    <3> QED
      BY <1>2, <2>1, <2>3, <2>4, <3>2 DEF Shows, Saved
  <2>5. CASE old # NoRecord
    <3>1. old.id = i /\ i # NoId
      BY <1>1, <2>5, ConstantsAssumption DEF Sound, IdFor
    <3>2. rec = old
      BY <1>2, <2>5, <3>1
    <3> QED
      BY <2>1, <2>3, <2>5, <3>1, <3>2 DEF Shows, Saved
  <2> QED
    BY <2>4, <2>5
<1> HIDE DEF old, rec
<1>6. /\ Sound(rec) /\ Dated(rec) /\ Shape(rec) /\ rec.id = i /\ rec # NoRecord
      /\ old.id = i \/ NewId(i)
      /\ o \notin mixed =>
             /\ Live(rec) => rec.data = written[o] /\ GetData(rec) = written[o]
             /\ storage[i] = rec \/ Saved(i, o)
  BY <1>2, <1>3, <1>4, <1>5
<1> QED
  BY <1>6 DEF old, rec

LEMMA GetTime ==
  ASSUME TimeInv, NEW r \in Request, NEW k \in Key, Get(r, k)
  PROVE  DatesInv' /\ HistoryInv' /\ GotInv'
<1>1. PICK i \in Id :
        /\ IdFor(Record(r), i)
        /\ open' = [open EXCEPT ![r].record = Session(Record(r), i)]
        /\ got' = [browser |-> Owner(r), key |-> k, at |-> now,
                   born |-> Session(Record(r), i).born,
                   value |-> GetData(Session(Record(r), i))[k]]
  BY DEF Get
<1> DEFINE rec == Session(Record(r), i)
<1>2. IsOpen(r) /\ UNCHANGED <<now, storage, cookie, written, mixed>>
  BY DEF Get
<1> PICK o \in Browser : o = Owner(r)
  BY <1>2 DEF TimeInv, IInv, TypeInv
<1>3. /\ Sound(rec) /\ Dated(rec) /\ rec.id = i /\ rec # NoRecord
      /\ Record(r).id = i \/ NewId(i)
      /\ o \notin mixed =>
             /\ Live(rec) => rec.data = written[o] /\ GetData(rec) = written[o]
             /\ storage[i] = rec \/ Saved(i, o)
  BY <1>1, <1>2, OpenSession
<1>4. open' = [open EXCEPT ![r].record = rec]
  BY <1>1
<1>5. got' = [browser |-> Owner(r), key |-> k, at |-> now, born |-> rec.born,
              value |-> GetData(rec)[k]]
  BY <1>1
<1> HIDE DEF rec
<1>6. IInv /\ DatesInv /\ HistoryInv /\ now \in Nat /\ Owner(r) \in Browser
  BY <1>2 DEF TimeInv, DatesInv, IInv, TypeInv
<1>7. DatesInv'
  BY <1>2, <1>3, <1>4, <1>6, RecordDates
<1>8. HistoryInv'
  <2>1. DOMAIN written' = Browser /\ \A b \in Browser : DOMAIN written'[b] = Key
    BY <1>2, <1>6 DEF HistoryInv
  <2>2. o \notin mixed =>
          /\ Live(rec) => rec.data = written'[o]
          /\ storage'[i] = rec \/ (storage'[i] = NoRecord /\ written'[o] = NoData)
    BY <1>2, <1>3 DEF Saved
  <2>3. Keeps(r, rec)
    BY <1>4 DEF Keeps
  <2> QED
    BY <1>2, <1>3, <1>6, <2>1, <2>2, <2>3, RecordHistory
<1>9. GotInv'
  <2>1. rec.exp < now => GetData(rec)[k] = NoValue
    BY DEF GetData, NoData
  <2>2. now > rec.born + Long => rec.exp < now
    BY <1>3, <1>6, Periods DEF Dated
  <2>3. now <= rec.born + Short /\ o \notin mixed => GetData(rec) = written[o]
    BY <1>3 DEF Live
  <2> QED
    BY <1>2, <1>5, <2>1, <2>2, <2>3
       DEF GotInv, NothingAfterExpiry, ReadsLastWrite, Short, Long
<1> QED
  BY <1>7, <1>8, <1>9

LEMMA StoreTime ==
  ASSUME TimeInv, NEW r \in Request, NEW k \in Key, NEW v, Store(r, k, v)
  PROVE  DatesInv' /\ HistoryInv' /\ GotInv'
<1>1. PICK i \in Id :
        LET rec == Session(Record(r), i)
            new == SetData(rec, [GetData(rec) EXCEPT ![k] = v])
        IN  /\ IdFor(Record(r), i)
            /\ open' = [open EXCEPT ![r].record = new]
            /\ storage' = [storage EXCEPT ![new.id] = new]
  BY DEF Store
<1> DEFINE rec == Session(Record(r), i)
           new == SetData(rec, [GetData(rec) EXCEPT ![k] = v])
<1>0. open' = [open EXCEPT ![r].record = new] /\ storage' = [storage EXCEPT ![new.id] = new]
  BY <1>1
<1>2. /\ IsOpen(r) /\ UNCHANGED <<now, cookie, mixed>> /\ got' = <<>>
      /\ written' = [written EXCEPT ![Owner(r)][k] = v]
  BY DEF Store
<1> PICK o \in Browser : o = Owner(r)
  BY <1>2 DEF TimeInv, IInv, TypeInv
<1>3. /\ Sound(rec) /\ Dated(rec) /\ Shape(rec) /\ rec.id = i /\ rec # NoRecord
      /\ Record(r).id = i \/ NewId(i)
      /\ o \notin mixed /\ Live(rec) => GetData(rec) = written[o]
  BY <1>1, <1>2, OpenSession
<1> HIDE DEF rec
<1>4. /\ new = [id |-> i, exp |-> rec.exp, born |-> rec.born,
                data |-> [GetData(rec) EXCEPT ![k] = v]]
      /\ i # NoId
  BY <1>3, ConstantsAssumption DEF SetData, Sound
<1> HIDE DEF new
<1>5. open' = [open EXCEPT ![r].record = new] /\ storage' = [storage EXCEPT ![i] = new]
  BY <1>0, <1>4
<1>6. Sound(new) /\ new # NoRecord /\ new.id = i
  BY <1>3, <1>4, NoRecordShape DEF Sound, Dated
<1>7. IInv /\ DatesInv /\ HistoryInv /\ Owner(r) \in Browser
  BY <1>2 DEF TimeInv, IInv, TypeInv
<1>8. /\ DOMAIN written' = Browser
      /\ \A b \in Browser : DOMAIN written'[b] = Key
      /\ \A b \in Browser : b # o => written'[b] = written[b]
      /\ written'[o] = [written[o] EXCEPT ![k] = v]
  BY <1>2, <1>7 DEF HistoryInv
<1>9. storage'[i] = new
  BY <1>5, <1>7 DEF IInv, TypeInv
<1>10. ASSUME o \notin mixed, Live(new)
       PROVE  new.data = written'[o]
  <2>1. Live(rec) /\ new.data = [GetData(rec) EXCEPT ![k] = v]
    BY <1>4, <1>10 DEF Live
  <2> QED
    BY <1>3, <1>8, <1>10, <2>1
<1>11. DatesInv'
  BY <1>2, <1>5, <1>6, <1>7, RecordDates
<1>12. HistoryInv'
  <2>1. o \notin mixed =>
          /\ Live(new) => new.data = written'[o]
          /\ storage'[i] = new \/ (storage'[i] = NoRecord /\ written'[o] = NoData)
    BY <1>9, <1>10
  <2>2. Keeps(r, new)
    BY <1>5 DEF Keeps
  <2>3. storage' = storage \/ storage' = [storage EXCEPT ![i] = new]
    BY <1>5
  <2>4. /\ IsOpen(r) /\ UNCHANGED <<now, cookie, mixed>>
        /\ DOMAIN written' = Browser
        /\ \A b \in Browser : DOMAIN written'[b] = Key
        /\ \A b \in Browser : b # o => written'[b] = written[b]
    BY <1>2, <1>8
  <2> QED
    BY <1>3, <1>6, <1>7, <2>1, <2>2, <2>3, <2>4, RecordHistory
<1> QED
  BY <1>2, <1>11, <1>12 DEF GotInv, NothingAfterExpiry, ReadsLastWrite

LEMMA RenewTime ==
  ASSUME TimeInv, NEW r \in Request, Renew(r)
  PROVE  DatesInv' /\ HistoryInv' /\ GotInv'
<1>1. PICK i \in Id :
        /\ NewId(i)
        /\ open' = [open EXCEPT ![r].record = [Record(r) EXCEPT !.id = i]]
        /\ storage' = [storage EXCEPT ![i] = [Record(r) EXCEPT !.id = i]]
  BY DEF Renew
<1> DEFINE old == Record(r)
           rec == [old EXCEPT !.id = i]
<1>2. /\ IsOpen(r) /\ old.id # NoId
      /\ UNCHANGED <<now, cookie, got, written, mixed>>
  BY DEF Renew
<1> PICK o \in Browser : o = Owner(r)
  BY <1>2 DEF TimeInv, IInv, TypeInv
<1>3. /\ IInv /\ DatesInv /\ HistoryInv /\ GotInv /\ Owner(r) \in Browser
      /\ Sound(old) /\ old # NoRecord
  BY <1>2, NoRecordShape DEF TimeInv, DatesInv, IInv, TypeInv
<1> HIDE DEF old
<1>4. /\ rec = [id |-> i, exp |-> old.exp, data |-> old.data, born |-> old.born]
      /\ i # NoId /\ Dated(old)
  BY <1>3, ConstantsAssumption DEF Sound
<1>5. Sound(rec) /\ rec # NoRecord /\ rec.id = i
  BY <1>4, NoRecordShape DEF Sound, Dated
<1>6. open' = [open EXCEPT ![r].record = rec] /\ storage' = [storage EXCEPT ![i] = rec]
  BY <1>1 DEF old
<1>7. storage'[i] = rec
  BY <1>3, <1>6 DEF IInv, TypeInv
<1>8. ASSUME o \notin mixed, Live(rec)
      PROVE  rec.data = written'[o]
  <2>1. Shows(old, o)
    BY <1>2, <1>3, <1>8 DEF HistoryInv, Alone, Opened, old
  <2> QED
    BY <1>2, <1>3, <1>4, <1>8, <2>1 DEF Shows, Live
<1> HIDE DEF rec
<1>9. DatesInv'
  BY <1>2, <1>3, <1>5, <1>6, RecordDates
<1>10. HistoryInv'
  <2>1. DOMAIN written' = Browser /\ \A b \in Browser : DOMAIN written'[b] = Key
    BY <1>2, <1>3 DEF HistoryInv
  <2>2. o \notin mixed =>
          /\ Live(rec) => rec.data = written'[o]
          /\ storage'[i] = rec \/ (storage'[i] = NoRecord /\ written'[o] = NoData)
    BY <1>7, <1>8
  <2>3. Keeps(r, rec)
    BY <1>6 DEF Keeps
  <2>4. storage' = storage \/ storage' = [storage EXCEPT ![i] = rec]
    BY <1>6
  <2>5. /\ IsOpen(r) /\ NewId(i) /\ UNCHANGED <<now, cookie, mixed>>
        /\ \A b \in Browser : b # o => written'[b] = written[b]
    BY <1>1, <1>2
  <2> QED
    BY <1>3, <1>5, <2>1, <2>2, <2>3, <2>4, <2>5, RecordHistory
<1> QED
  BY <1>2, <1>3, <1>9, <1>10 DEF GotInv, NothingAfterExpiry, ReadsLastWrite

\* A request of a browser that has no other one sees what is saved; one of
\* a browser that has makes it mixed.
LEMMA ArrivesTime ==
  ASSUME TimeInv, NEW r \in Request, NEW b \in Browser, Arrives(r, b)
  PROVE  DatesInv' /\ HistoryInv' /\ GotInv'
<1> DEFINE rec == IF cookie[b] = NoId THEN NoRecord ELSE storage[cookie[b]]
<1>1. /\ ~IsOpen(r) /\ UNCHANGED <<now, cookie, storage, got, written>>
      /\ open' = [open EXCEPT ![r] = [browser |-> b, record |-> rec]]
      /\ mixed' = mixed \cup {Owner(o) : o \in {x \in Opened : Owner(x) = b}}
  BY DEF Arrives
<1>2. cookie[b] = NoId \/ cookie[b] \in Id
  BY DEF TimeInv, IInv, TypeInv
<1>3. Sound(rec)
  BY <1>2 DEF TimeInv, DatesInv, Sound
<1>4. rec # NoRecord => rec.id = cookie[b] /\ rec = storage[cookie[b]] /\ cookie[b] # NoId
  BY <1>2 DEF TimeInv, IInv, TypeInv
<1>5. ASSUME b \notin mixed, \A s \in Opened : Owner(s) # b  PROVE Shows(rec, b)
  BY <1>5 DEF TimeInv, HistoryInv, Alone, Shows
<1> HIDE DEF rec
<1>6. /\ open'[r] = [browser |-> b, record |-> rec]
      /\ \A s \in Request \ {r} : open'[s] = open[s]
  BY <1>1 DEF TimeInv, IInv, TypeInv
<1>7. /\ \A s \in Request \ {r} :
            (IsOpen(s)' <=> IsOpen(s)) /\ Owner(s)' = Owner(s) /\ Record(s)' = Record(s)
      /\ Owner(r)' = b /\ Record(r)' = rec
  BY <1>6 DEF IsOpen, Owner, Record
<1>8. DatesInv'
  <2>1. ASSUME NEW s \in Request, IsOpen(s)'  PROVE Sound(Record(s))'
    <3>1. Sound(Record(s)') 
      BY <1>3, <1>7, <2>1 DEF TimeInv, DatesInv
    <3> QED
      BY <3>1 DEF Sound, Dated
  <2> QED
    BY <1>1, <2>1 DEF TimeInv, DatesInv, Sound, Dated
<1>9. HistoryInv'
  <2>1. DOMAIN written' = Browser /\ \A c \in Browser : DOMAIN written'[c] = Key
    BY <1>1 DEF TimeInv, HistoryInv
  <2> SUFFICES ASSUME NEW c \in Browser, c \notin mixed'  PROVE Alone(c)'
    BY <2>1 DEF HistoryInv
  <2>2. c \notin mixed /\ Alone(c)
    BY <1>1 DEF TimeInv, HistoryInv
  <2>3. CASE c # b
    <3>1. \A s \in Request : s \in Opened' /\ Owner(s)' = c <=> s \in Opened /\ Owner(s) = c
      BY <1>1, <1>7, <2>3 DEF Opened
    <3>2. \A s \in Opened : Owner(s) = c => s # r /\ s \in Request /\ Record(s)' = Record(s)
      BY <1>1, <1>7 DEF Opened
    <3>3. Opened \subseteq Request /\ Opened' \subseteq Request
      BY DEF Opened
    <3>4. \A s \in Opened : Owner(s) = c =>
            /\ Shows(Record(s), c)'
            /\ Record(s)'.id # NoId =>
                   storage'[Record(s)'.id] = Record(s)' \/ Saved(Record(s).id, c)'
            /\ Record(s)'.id = NoId /\ cookie'[c] # NoId => storage'[cookie'[c]] = NoRecord
      BY <1>1, <2>2, <3>2 DEF Alone, Shows, Live, Saved
    <3>5. (\A s \in Opened : Owner(s) # c) =>
            IF cookie'[c] = NoId THEN written'[c] = NoData ELSE Shows(storage[cookie[c]], c)'
      BY <1>1, <2>2 DEF Alone, Shows, Live
    <3>6. \A s, t \in Opened' : Owner(s)' = c /\ Owner(t)' = c => s = t
      BY <2>2, <3>1, <3>3 DEF Alone
    <3> QED
      BY <3>1, <3>3, <3>4, <3>5, <3>6 DEF Alone
  <2>4. CASE c = b
    <3>1. \A s \in Opened : Owner(s) # b
      BY <1>1, <2>4
    <3>2. \A s \in Opened' : Owner(s)' = b => s = r
      BY <1>7, <3>1 DEF Opened
    <3>3. Shows(Record(r), b)'
      BY <1>1, <1>5, <1>7, <2>2, <2>4, <3>1 DEF Shows, Live
    <3>4. rec.id # NoId => storage'[rec.id] = rec
      BY <1>1, <1>4, NoRecordShape
    <3>5. rec.id = NoId /\ cookie[b] # NoId => storage[cookie[b]] = NoRecord
      BY <1>4 DEF rec
    <3>6. r \in Opened'
      <4>1. DOMAIN open'[r] = {"browser", "record"} /\ DOMAIN Closed = {}
        BY <1>6 DEF Closed
      <4> QED
        BY <4>1 DEF Opened, IsOpen
    <3> QED
      BY <1>1, <1>7, <2>4, <3>2, <3>3, <3>4, <3>5, <3>6 DEF Alone
  <2> QED
    BY <2>3, <2>4
<1>10. GotInv'
  BY <1>1 DEF TimeInv, GotInv, NothingAfterExpiry, ReadsLastWrite
<1> QED
  BY <1>8, <1>9, <1>10

\* The cookie names the record the request worked on, saved or not.
LEMMA EndsTime ==
  ASSUME TimeInv, NEW r \in Request, Ends(r)
  PROVE  DatesInv' /\ HistoryInv' /\ GotInv'
<1>1. /\ IsOpen(r) /\ UNCHANGED <<now, storage, written, mixed>> /\ got' = <<>>
      /\ open' = [open EXCEPT ![r] = Closed]
      /\ cookie' = IF Record(r).id = NoId THEN cookie
                   ELSE [cookie EXCEPT ![Owner(r)] = Record(r).id]
  BY DEF Ends
<1>2. /\ ~IsOpen(r)'
      /\ \A s \in Request \ {r} : /\ IsOpen(s)' <=> IsOpen(s)
                                  /\ Owner(s)' = Owner(s) /\ Record(s)' = Record(s)
  BY <1>1 DEF TimeInv, IInv, TypeInv, IsOpen, Owner, Record
<1>3. Opened' = Opened \ {r} /\ r \in Opened /\ Opened \subseteq Request
  BY <1>1, <1>2 DEF Opened
<1>4. DatesInv'
  BY <1>1, <1>2 DEF TimeInv, DatesInv, Sound, Dated
<1>5. HistoryInv'
  <2>1. DOMAIN written' = Browser /\ \A b \in Browser : DOMAIN written'[b] = Key
    BY <1>1 DEF TimeInv, HistoryInv
  <2> SUFFICES ASSUME NEW b \in Browser, b \notin mixed'  PROVE Alone(b)'
    BY <2>1 DEF HistoryInv
  <2>2. Alone(b)
    BY <1>1 DEF TimeInv, HistoryInv
  <2>3. \A s, t \in Opened' : Owner(s)' = b /\ Owner(t)' = b => s = t
    BY <1>2, <1>3, <2>2 DEF Alone
  <2>4. \A s \in Opened' : Owner(s)' = b =>
            /\ Shows(Record(s), b)'
            /\ Record(s)'.id # NoId =>
                   storage'[Record(s)'.id] = Record(s)' \/ Saved(Record(s).id, b)'
            /\ Record(s)'.id = NoId /\ cookie'[b] # NoId => storage'[cookie'[b]] = NoRecord
    <3>1. ASSUME NEW s \in Opened', Owner(s)' = b  PROVE cookie'[b] = cookie[b]
      <4>1. s # r /\ s \in Opened /\ Owner(s) = b
        BY <1>2, <1>3, <3>1
      <4>2. Owner(r) # b
        BY <1>3, <2>2, <4>1 DEF Alone
      <4> QED
        BY <1>1, <4>2 DEF TimeInv, IInv, TypeInv
    <3> QED
      BY <1>1, <1>2, <1>3, <2>2, <3>1 DEF Alone, Shows, Live, Saved
  <2>5. ASSUME \A s \in Opened' : Owner(s)' # b
        PROVE  IF cookie'[b] = NoId THEN written'[b] = NoData
               ELSE Shows(storage[cookie[b]], b)'
    <3>1. CASE Owner(r) = b
      <4>1. CASE Record(r).id = NoId
        <5>1. Record(r) = NoRecord /\ cookie' = cookie
          BY <1>1, <4>1, ConstantsAssumption DEF TimeInv, DatesInv, Sound
        <5>2. written[b] = NoData
          BY <1>3, <2>2, <3>1, <5>1 DEF Alone, Shows
        <5>3. cookie[b] # NoId => storage[cookie[b]] = NoRecord
          BY <1>3, <2>2, <3>1, <4>1 DEF Alone
        <5> QED
          BY <1>1, <5>1, <5>2, <5>3 DEF Shows
      <4>2. CASE Record(r).id # NoId
        <5>1. cookie'[b] = Record(r).id
          BY <1>1, <3>1, <4>2 DEF TimeInv, IInv, TypeInv
        <5>2. storage[Record(r).id] = Record(r) \/ Saved(Record(r).id, b)
          BY <1>3, <2>2, <3>1, <4>2 DEF Alone
        <5>3. Shows(Record(r), b)
          BY <1>3, <2>2, <3>1 DEF Alone
        <5> QED
          BY <1>1, <4>2, <5>1, <5>2, <5>3 DEF Shows, Saved, Live
      <4> QED
        BY <4>1, <4>2
    <3>2. CASE Owner(r) # b
      <4>1. cookie'[b] = cookie[b]
        BY <1>1, <3>2 DEF TimeInv, IInv, TypeInv
      <4>2. \A s \in Opened : Owner(s) # b
        BY <1>2, <1>3, <2>5, <3>2
      <4> QED
        BY <1>1, <2>2, <4>1, <4>2 DEF Alone, Shows, Live
    <3> QED
      BY <3>1, <3>2
  <2> QED
    BY <2>3, <2>4, <2>5 DEF Alone
<1> QED
  BY <1>1, <1>4, <1>5 DEF GotInv, NothingAfterExpiry, ReadsLastWrite

LEMMA ForgetsTime ==
  ASSUME TimeInv, NEW b \in Browser, Forgets(b)
  PROVE  DatesInv' /\ HistoryInv' /\ GotInv'
<1>1. /\ cookie' = [cookie EXCEPT ![b] = NoId] /\ got' = <<>>
      /\ written' = [written EXCEPT ![b] = NoData]
      /\ UNCHANGED <<now, storage, open, mixed>>
      /\ \A r \in Opened : Owner(r) # b
  BY DEF Forgets
<1>2. Opened' = Opened /\ \A r \in Request :
        (IsOpen(r)' <=> IsOpen(r)) /\ Owner(r)' = Owner(r) /\ Record(r)' = Record(r)
  BY <1>1 DEF Opened, IsOpen, Owner, Record
<1>3. DatesInv'
  BY <1>1, <1>2 DEF TimeInv, DatesInv, Sound, Dated
<1>4. HistoryInv'
  <2>1. /\ DOMAIN written' = Browser
        /\ \A c \in Browser : DOMAIN written'[c] = Key
        /\ written'[b] = NoData /\ cookie'[b] = NoId
        /\ \A c \in Browser : c # b => written'[c] = written[c] /\ cookie'[c] = cookie[c]
    BY <1>1 DEF TimeInv, HistoryInv, NoData, IInv, TypeInv
  <2> SUFFICES ASSUME NEW c \in Browser, c \notin mixed'  PROVE Alone(c)'
    BY <2>1 DEF HistoryInv
  <2>2. Alone(c) /\ Opened \subseteq Request
    BY <1>1 DEF TimeInv, HistoryInv, Opened
  <2>3. CASE c = b
    BY <1>1, <1>2, <2>1, <2>2, <2>3 DEF Alone
  <2>4. CASE c # b
    BY <1>1, <1>2, <2>1, <2>2, <2>4 DEF Alone, Shows, Live, Saved
  <2> QED
    BY <2>3, <2>4
<1> QED
  BY <1>1, <1>3, <1>4 DEF GotInv, NothingAfterExpiry, ReadsLastWrite

\* Time only ends the life of a record.
LEMMA TickTime ==
  ASSUME TimeInv, Tick \/ UNCHANGED vars
  PROVE  DatesInv' /\ HistoryInv' /\ GotInv'
<1>1. /\ now' \in Nat /\ now <= now' /\ got' \in {got, <<>>}
      /\ UNCHANGED <<cookie, storage, open, written, mixed>>
  BY DEF Tick, vars, TimeInv, DatesInv
<1>2. Opened' = Opened /\ \A r \in Request :
        (IsOpen(r)' <=> IsOpen(r)) /\ Owner(r)' = Owner(r) /\ Record(r)' = Record(r)
  BY <1>1 DEF Opened, IsOpen, Owner, Record
<1>3. DatesInv'
  BY <1>1, <1>2 DEF TimeInv, DatesInv, Sound, Dated
<1>4. ASSUME NEW rec, Sound(rec), NEW b, Shows(rec, b)
      PROVE  rec = NoRecord \/ (now' <= rec.born + Short => rec.data = written'[b])
  BY <1>1, <1>4, Periods DEF TimeInv, DatesInv, Shows, Sound, Dated, Live
<1>5. ASSUME NEW b \in Browser, Alone(b)  PROVE Alone(b)'
  <2>1. ASSUME NEW r \in Opened, Owner(r) = b  PROVE Shows(Record(r), b)'
    <3>1. Sound(Record(r)) /\ Shows(Record(r), b) /\ r \in Request
      BY <1>5, <2>1 DEF TimeInv, DatesInv, Opened, Alone
    <3> QED
      BY <1>1, <1>2, <1>4, <3>1 DEF Shows, Live
  <2>2. ASSUME \A r \in Opened : Owner(r) # b
        PROVE  IF cookie'[b] = NoId THEN written'[b] = NoData
               ELSE Shows(storage[cookie[b]], b)'
    <3>1. cookie[b] # NoId => cookie[b] \in Id
      BY DEF TimeInv, IInv, TypeInv
    <3>2. cookie[b] # NoId => Sound(storage[cookie[b]]) /\ Shows(storage[cookie[b]], b)
      BY <1>5, <2>2, <3>1 DEF TimeInv, DatesInv, Alone
    <3> QED
      BY <1>1, <1>4, <1>5, <2>2, <3>2 DEF Alone, Shows, Live
  <2>3. Opened \subseteq Request
    BY DEF Opened
  <2> QED
    BY <1>1, <1>2, <1>5, <2>1, <2>2, <2>3 DEF Alone, Saved
<1>6. HistoryInv'
  BY <1>1, <1>5 DEF TimeInv, HistoryInv
<1>7. GotInv'
  BY <1>1 DEF TimeInv, GotInv, NothingAfterExpiry, ReadsLastWrite
<1> QED
  BY <1>3, <1>6, <1>7

\* Before the first request.
LEMMA InitTime == Init => TimeInv
<1> SUFFICES ASSUME Init  PROVE TimeInv
  OBVIOUS
<1>1. Opened = {} /\ \A r \in Request : ~IsOpen(r)
  BY DEF Init, IsOpen, Opened
<1>2. DatesInv
  BY <1>1 DEF Init, DatesInv, Sound
<1>3. HistoryInv
  BY <1>1 DEF Init, HistoryInv, Alone, NoData
<1> QED
  BY <1>2, <1>3, InitIInv DEF Init, TimeInv, GotInv, NothingAfterExpiry, ReadsLastWrite

LEMMA NextTime ==
  ASSUME TimeInv, [Next]_vars
  PROVE  TimeInv'
<1>1. IInv'
  BY NextInv DEF TimeInv
<1>2. ASSUME NEW r \in Request, NEW b \in Browser, Arrives(r, b)  PROVE TimeInv'
  BY <1>1, <1>2, ArrivesTime DEF TimeInv
<1>3. ASSUME NEW r \in Request, NEW k \in Key, Get(r, k)  PROVE TimeInv'
  BY <1>1, <1>3, GetTime DEF TimeInv
<1>4. ASSUME NEW r \in Request, NEW k \in Key,
             Delete(r, k) \/ \E v \in Value : Set(r, k, v)
      PROVE  TimeInv'
  <2>1. PICK v : Store(r, k, v)
    BY <1>4 DEF Set, Delete
  <2> QED
    BY <1>1, <2>1, StoreTime DEF TimeInv
<1>5. ASSUME NEW r \in Request, Renew(r) \/ Ends(r) \/ Raises(r)  PROVE TimeInv'
  BY <1>1, <1>5, RenewTime, EndsTime DEF TimeInv, Raises
<1>6. ASSUME NEW b \in Browser, Forgets(b)  PROVE TimeInv'
  BY <1>1, <1>6, ForgetsTime DEF TimeInv
<1>7. CASE Tick \/ UNCHANGED vars
  BY <1>1, <1>7, TickTime DEF TimeInv
<1> QED
  BY <1>2, <1>3, <1>4, <1>5, <1>6, <1>7 DEF Next

\* The rules about time are inductive together with those about owners.
THEOREM TimeInvariance == Spec => []TimeInv
  BY InitTime, NextTime, PTL DEF Spec

\* No access, renewal or save prolongs a session: what was stored in it is
\* not seen when MaxAge seconds have passed since it began.
THEOREM ExpiredForEver == Spec => []NothingAfterExpiry
<1>1. TimeInv => NothingAfterExpiry
  BY DEF TimeInv, GotInv
<1> QED
  BY <1>1, TimeInvariance, PTL

\* A browser with one request at a time reads what it wrote last, however
\* many others there are, until the last second of the session.
THEOREM LastWriteRead == Spec => []ReadsLastWrite
<1>1. TimeInv => ReadsLastWrite
  BY DEF TimeInv, GotInv
<1> QED
  BY <1>1, TimeInvariance, PTL

=============================================================================
