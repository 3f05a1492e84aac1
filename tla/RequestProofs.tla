----------------------------- MODULE RequestProofs -----------------------------
(***************************************************************************)
(* What becomes of a request, for all values of the constants: its framing *)
(* is right for every size of read, header and body (RequestReader); its   *)
(* header lines come back as the entries of a dictionary (HeaderParser);   *)
(* the application is called with the path, the query and the parameters   *)
(* that were sent, by a route that stays (Dispatch); and a multipart body  *)
(* comes apart as it was put together, on a disk where no file is          *)
(* overwritten (Multipart).                                                *)
(* The four share no variable; a theorem is about the steps of one.        *)
(***************************************************************************)
EXTENDS RequestReader, HeaderParser, Multipart, Dispatch, SequenceTheorems,
        FiniteSetTheorems, WellFoundedInduction, TLAPS

-----------------------------------------------------------------------------
(* RequestReader *)

\* When connection_cb handed over a request whose length it saw, all of it
\* was there.
WritingInv ==
    LengthSeen /\ req.declared # Null /\ ~cutOff /\ phase \in {"writing", "served"} =>
        BodyEnd <= pos /\ bodyAt = BodyStart

\* What was copied is what input_body pointed to.
ServedInv ==
    phase = "served" /\ req.post =>
        req.declared # Null /\ input = [from |-> bodyAt, len |-> req.declared]

\* The inductive invariant.
IInv == TypeOK /\ Sendable /\ CompleteIsAnswered /\ WritingInv /\ ServedInv

LEMMA Typing == ASSUME TypeOK
                PROVE /\ req.headLen \in Int /\ req.declared \in Int /\ req.more \in Int
                      /\ req.headLen >= 1 /\ req.declared >= -1 /\ req.more >= 0
                      /\ req.post \in BOOLEAN
                      /\ Declared \in Int /\ Declared >= 0
                      /\ req.declared # Null => Declared = req.declared
                      /\ req.declared <= MaxBody
                      /\ pos \in Int
                      /\ req.found.at \in Int /\ req.found.end \in Int
                      /\ req.found.says \in Int
                      /\ req.found.end >= 1 => req.found # NoLength
<1>1. req \in Requests /\ pos \in 0 .. Total
  BY DEF TypeOK
<1>2. /\ req.post \in BOOLEAN /\ req.headLen \in 1 .. MaxHead
      /\ req.declared \in Null .. MaxBody /\ req.more \in 0 .. MaxBody
      /\ req.found \in LengthTexts \cup {NoLength}
  BY <1>1 DEF Requests
<1> HIDE DEF Requests
<1>3. req.found.at \in Int /\ req.found.end \in Int /\ req.found.says \in Int
  BY <1>2 DEF LengthTexts, NoLength, Null
<1>4. req.found.end >= 1 => req.found # NoLength
  BY DEF NoLength, Null
<1>5. /\ req.headLen \in Int /\ req.headLen >= 1 /\ req.more \in Int /\ req.more >= 0
      /\ req.declared \in Int /\ req.declared >= -1 /\ req.declared <= MaxBody
  BY <1>2, ConstantsAssumption DEF Null
<1>6. Declared \in Int /\ Declared >= 0 /\ (req.declared # Null => Declared = req.declared)
  BY <1>5 DEF Declared, Null
<1>7. pos \in Int
  BY <1>1
<1> QED BY <1>2, <1>3, <1>4, <1>5, <1>6, <1>7

\* A read that completes no request leaves a length to be waited for, which
\* is not above what the text that was found says.
LEMMA StillReading ==
    ASSUME TypeOK, NEW n \in Int, NEW skip, ReadToSkipping(n, skip),
           phase' = "reading", BodyStart <= n
    PROVE  req.found # NoLength /\ n - BodyStart < req.found.says
<1>1. PICK bodylength \in Seen(n) : ~BodyArrived(n, bodylength)
  BY DEF ReadToSkipping, BodyStart, CrLf2, TypeOK, Requests
<1>2. req.found # NoLength /\ bodylength \in Int /\ bodylength <= req.found.says
  BY <1>1, Typing DEF Seen
<1> QED BY <1>1, <1>2, Typing DEF BodyArrived, BodyStart, CrLf2

\* The invariant holds in every state, for all sizes.
THEOREM Invariance == Spec => []IInv
<1>1. Init => IInv
  <2> SUFFICES ASSUME Init PROVE IInv
    OBVIOUS
  <2>1. TypeOK
    <3>1. req \in Requests /\ bodyAt \in {Null, req.headLen, BodyStart}
          /\ phase \in {"reading", "writing", "served", "refused"} /\ cutOff \in BOOLEAN
      BY DEF Init
    <3>2. pos \in 0 .. Total
      BY <3>1, ConstantsAssumption DEF Init, Requests, Null, Total, BodyEnd, BodyStart,
         Declared, CrLf2
    <3>3. input \in [from : {Null, req.headLen, BodyStart}, len : 0 .. MaxBody]
      BY ConstantsAssumption DEF Init, NoInput, Null
    <3> QED BY <3>1, <3>2, <3>3 DEF TypeOK
  <2>2. Sendable /\ CompleteIsAnswered /\ WritingInv /\ ServedInv
    BY <2>1, Typing DEF Init, CompleteIsAnswered, WritingInv, ServedInv, Null,
       BodyEnd, BodyStart, CrLf2
  <2> QED BY <2>1, <2>2 DEF IInv
<1>2. IInv /\ [Next]_vars => IInv'
  <2> SUFFICES ASSUME IInv, [Next]_vars PROVE IInv'
    OBVIOUS
  <2> USE DEF IInv
  <2>0. TypeOK
    OBVIOUS
  <2>6. Sendable'
    BY DEF Next, vars, Read, Eof, Refuse, Serve, Sendable, LengthSeen, Total, BodyEnd,
       BodyStart, Declared
  <2>1. CASE Read
    <3>1. PICK r \in 1 .. MaxBuff : pos + r <= Total /\ pos' = pos + r /\ ReadTo(pos + r)
      BY <2>1 DEF Read
    <3>2. req' = req /\ input' = input /\ cutOff' = cutOff /\ phase = "reading"
      BY <2>1 DEF Read
    <3>3. r \in Int /\ r >= 1
      BY ConstantsAssumption
    <3>4. TypeOK'
      BY <2>0, <3>1, <3>2, <3>3, Typing DEF TypeOK, ReadTo, ReadToSkipping, Total, BodyEnd, BodyStart,
         Declared, CrLf2
    <3>5. CompleteIsAnswered'
      <4> SUFFICES ASSUME phase' = "reading", BodyEnd <= pos'
                   PROVE  req.found # NoLength /\ Declared < req.found.says
        BY <3>2 DEF CompleteIsAnswered, BodyEnd, BodyStart, Declared
      <4>1. pos' \in Int /\ ReadTo(pos') /\ BodyStart \in Int
        BY <2>0, <3>1, <3>3, Typing DEF BodyStart, CrLf2
      <4>2. BodyStart <= pos'
        BY <2>0, <4>1, Typing DEF BodyEnd
      <4>3. req.found # NoLength /\ pos' - BodyStart < req.found.says
        BY <2>0, <4>1, <4>2, StillReading DEF ReadTo
      <4> QED BY <2>0, <4>1, <4>3, Typing DEF BodyEnd
    <3>6. WritingInv'
      <4> SUFFICES ASSUME LengthSeen, req.declared # Null, phase' = "writing"
                   PROVE  BodyEnd <= pos' /\ bodyAt' = BodyStart
        BY <3>1, <3>2 DEF WritingInv, LengthSeen, ReadTo, ReadToSkipping, BodyEnd, BodyStart,
           Declared
      <4>1. /\ req.found # NoLength /\ req.found.says = req.declared
            /\ req.found.end \in 1 .. req.headLen
        BY <2>0, Typing DEF LengthSeen
      <4>2. pos' \in Int /\ ReadTo(pos') /\ BodyStart <= pos'
        BY <2>0, <3>1, <3>3, Typing DEF ReadTo, ReadToSkipping
      <4>3. req.found.at < req.found.end
        BY <4>1 DEF Sendable
      <4>4. Seen(pos') = {req.declared}
        BY <2>0, <4>1, <4>2, <4>3, Typing DEF Seen, BodyStart, CrLf2
      <4>5. BodyArrived(pos', req.declared) /\ bodyAt' = req.headLen + CrLf2
        BY <4>2, <4>4 DEF ReadTo, ReadToSkipping
      <4> QED BY <2>0, <4>2, <4>5, Typing DEF BodyArrived, BodyEnd, BodyStart, CrLf2
    <3>7. ServedInv'
      BY <3>1, <3>2 DEF ServedInv, ReadTo, ReadToSkipping
    <3> QED BY <2>6, <3>4, <3>5, <3>6, <3>7
  <2>2. CASE Eof
    <3>1. TypeOK' /\ ServedInv' /\ CompleteIsAnswered'
      BY <2>2 DEF Eof, TypeOK, ServedInv, CompleteIsAnswered, Total, BodyEnd, BodyStart, Declared
    <3>2. LengthSeen /\ req.declared # Null => pos < BodyEnd
      BY <2>0, <2>2, Typing DEF Eof, LengthSeen, CompleteIsAnswered, BodyEnd, BodyStart, CrLf2
    <3>3. WritingInv'
      BY <2>2, <3>2 DEF Eof, WritingInv, LengthSeen, BodyEnd, BodyStart, Declared
    <3> QED BY <2>6, <3>1, <3>3
  <2>3. CASE Refuse
    BY <2>3, <2>6 DEF Refuse, TypeOK, CompleteIsAnswered, WritingInv, ServedInv, LengthSeen, Total,
       BodyEnd, BodyStart, Declared
  <2>4. CASE Serve
    <3>1. TypeOK'
      <4>1. input' \in [from : {Null, req.headLen, BodyStart}, len : 0 .. MaxBody]
        BY <2>0, <2>4, ConstantsAssumption, Typing DEF Serve, TypeOK, NoInput, Null
      <4> QED BY <2>0, <2>4, <4>1 DEF Serve, TypeOK, Total, BodyEnd, BodyStart, Declared
    <3>2. CompleteIsAnswered'
      BY <2>4 DEF Serve, CompleteIsAnswered
    <3>3. WritingInv'
      BY <2>4 DEF Serve, WritingInv, LengthSeen, BodyEnd, BodyStart, Declared
    <3>4. ServedInv'
      BY <2>4 DEF Serve, ServedInv
    <3> QED BY <2>6, <3>1, <3>2, <3>3, <3>4
  <2>5. CASE UNCHANGED vars
    BY <2>5, <2>6 DEF vars, TypeOK, CompleteIsAnswered, WritingInv, ServedInv, LengthSeen, Total,
       BodyEnd, BodyStart, Declared
  <2> QED BY <2>1, <2>2, <2>3, <2>4, <2>5 DEF Next
<1> QED BY <1>1, <1>2, PTL DEF Spec

\* From a client whose Content-Length connection_cb finds, and who sends all it
\* declared, wsgi.input gets exactly the body, whatever the reads return.
THEOREM BodyExactAlways == Spec => []BodyExact
<1>1. IInv => BodyExact
  BY Typing DEF IInv, WritingInv, ServedInv, BodyExact, BodyEnd,
     BodyStart, CrLf2, Declared
<1> QED BY <1>1, Invariance, PTL

\* Whatever the clients do, and wherever a text "Content-Length: " stands in
\* what they send, a request that arrived is waited for only when the first
\* such text claims more bytes than the client declared.
THEOREM CompleteAnswered == Spec => []CompleteIsAnswered
<1>1. IInv => CompleteIsAnswered
  BY DEF IInv
<1> QED BY <1>1, Invariance, PTL

\* Type correctness; in particular input_pos is never past the request.
THEOREM TypeCorrect == Spec => []TypeOK
<1>1. IInv => TypeOK
  BY DEF IInv
<1> QED BY <1>1, Invariance, PTL

-----------------------------------------------------------------------------
(* A set of natural numbers has a least element. *)
LEMMA LeastNatural ==
  ASSUME NEW T \in SUBSET Nat, T # {}
  PROVE  \E x \in T : \A y \in T : x <= y
<1> DEFINE R == OpToRel(<, Nat)
<1>1. IsWellFoundedOn(R, Nat)
  BY NatLessThanWellFounded
<1>2. PICK x \in T : \A y \in T : <<y, x>> \notin R
  <2> HIDE DEF R
  <2> QED
    BY <1>1, WFMin
<1>3. \A y \in T : ~(y < x)
  BY <1>2 DEF OpToRel
<1> QED
  BY <1>3

-----------------------------------------------------------------------------
(* Multipart: the disk *)

\* What the argument needs of the types.
DiskInv ==
    /\ IsFiniteSet(DOMAIN disk)
    /\ disk = [p \in DOMAIN disk |-> disk[p]]
    /\ part \in Parts \cup {NoPart}

\* The names files get: their versions have no bound.
FilePaths == [name : File \cup {NoFile}, version : Int]

\* Among so many versions, one is free.
LEMMA FreeVersion ==
  ASSUME NEW D, IsFiniteSet(D), NEW name, NEW a \in Nat
  PROVE  \E v \in a .. a + Cardinality(D) : Path(name, v) \notin D
<1> DEFINE b == a + Cardinality(D)
           V == a .. b
           f == [v \in V |-> Path(name, v)]
<1>1. SUFFICES ASSUME \A v \in V : Path(name, v) \in D
               PROVE  FALSE
  OBVIOUS
<1>2. Cardinality(D) \in Nat
  BY FS_CardinalityType
<1>3. IsFiniteSet(V) /\ Cardinality(V) = Cardinality(D) + 1
  <2>1. a \in Int /\ b \in Int /\ ~(a > b) /\ b - a + 1 = Cardinality(D) + 1
    BY <1>2
  <2>2. IsFiniteSet(V) /\ Cardinality(V) = IF a > b THEN 0 ELSE b - a + 1
    <3> HIDE DEF b
    <3> QED
      BY <2>1, FS_Interval
  <2> HIDE DEF V, b
  <2> QED
    BY <2>1, <2>2
<1>4. f \in [V -> D]
  BY <1>1
<1>5. PICK v \in V, w \in V : v # w /\ f[v] = f[w]
  <2> HIDE DEF V, f
  <2> QED
    BY <1>2, <1>3, <1>4, FS_PigeonHole
<1>6. Path(name, v) = Path(name, w)
  BY <1>5
<1> QED
  BY <1>5, <1>6 DEF Path

\* _definefilename finds a name no file has, and changes its version alone.
LEMMA NameIsNew ==
  ASSUME DiskInv, NEW p \in Paths, ~NoVersion(p), p \in DOMAIN disk
  PROVE  LET d == DefineFileName(p)
         IN  d \notin DOMAIN disk /\ d.name = p.name /\ d.version >= p.version
             /\ d.version \in Nat /\ p.version \in Nat /\ d \in FilePaths
<1> DEFINE V == {v \in p.version .. p.version + Cardinality(DOMAIN disk) :
                   Path(p.name, v) \notin DOMAIN disk}
<1>1. p.version \in Nat
  BY DEF Paths, Versions, NoVersion, Word
<1>2. V \in SUBSET Nat /\ V # {}
  <2>1. IsFiniteSet(DOMAIN disk) /\ Cardinality(DOMAIN disk) \in Nat
    BY FS_CardinalityType DEF DiskInv
  <2>2. \E v \in p.version .. p.version + Cardinality(DOMAIN disk) :
           Path(p.name, v) \notin DOMAIN disk
    BY <1>1, <2>1, FreeVersion
  <2> QED
    BY <1>1, <2>1, <2>2
<1>3. Min(V) \in V
  <2> HIDE DEF V
  <2> QED
    BY <1>2, LeastNatural DEF Min
<1>4. DefineFileName(p) = Path(p.name, Min(V))
  BY DEF DefineFileName
<1>5. Min(V) >= p.version /\ Min(V) \in Nat
      /\ Path(p.name, Min(V)) \notin DOMAIN disk
  BY <1>1, <1>2, <1>3, FS_CardinalityType DEF DiskInv
<1> HIDE DEF V
<1>6. p.name \in File
  BY DEF Paths
<1>7. Path(p.name, Min(V)) \in FilePaths
  BY <1>5, <1>6 DEF Path, FilePaths
<1> QED
  BY <1>1, <1>4, <1>5, <1>7 DEF Path

\* The file Content-Disposition opens is a new one.
LEMMA OpensNewFile ==
  ASSUME DiskInv, Disposition \/ DispositionCut, IsFile(part)
  PROVE  /\ fpath' \notin DOMAIN disk /\ OpenFile(fpath')
         /\ fpath' # NoPath /\ fpath'.name = part.path.name
         /\ fpath' \in FilePaths
<1> DEFINE path == IF part.path \in DOMAIN disk THEN DefineFileName(part.path)
                                               ELSE part.path
<1>1. OpenFile(path) /\ fpath' = path
  BY DEF Disposition, DispositionCut, OpenFile, Versioned
<1>2. part.path \in Paths /\ part.path # NoPath
  BY DEF DiskInv, IsFile, Parts, NoPart
<1>3. CASE part.path \in DOMAIN disk
  <2>1. ~NoVersion(part.path)
    BY DEF Disposition, DispositionCut
  <2>2. path = DefineFileName(part.path)
    BY <1>3
  <2>3. /\ path \notin DOMAIN disk /\ path.name = part.path.name
        /\ path.version >= part.path.version
        /\ path.version \in Nat /\ part.path.version \in Nat
        /\ path \in FilePaths
    BY <1>2, <1>3, <2>1, <2>2, NameIsNew
  <2>4. path # NoPath
    <3>1. SUFFICES ASSUME path = NoPath  PROVE FALSE
      OBVIOUS
    <3>2. path.name = NoFile /\ path.version = 0
      BY <3>1 DEF NoPath, Path
    <3>3. part.path.name = NoFile /\ part.path.version = 0
      BY <2>3, <3>2
    <3> QED
      BY <1>2, <3>3 DEF Paths, NoPath, Path
  <2> HIDE DEF path
  <2> QED
    BY <1>1, <2>3, <2>4
<1>4. CASE part.path \notin DOMAIN disk
  <2>1. part.path \in FilePaths
    BY <1>2 DEF Paths, Versions, Word, FilePaths
  <2> QED
    BY <1>1, <1>2, <1>4, <2>1
<1> QED
  BY <1>3, <1>4

LEMMA DiskInit == MultipartInit => DiskInv
  BY FS_EmptySet DEF MultipartInit, DiskInv, NoFiles

LEMMA DiskNext ==
  ASSUME DiskInv, [MultipartNext]_multipartVars
  PROVE  DiskInv'
<1>1. CASE Disposition \/ DispositionCut
  <2>1. part' = part
    BY <1>1 DEF Disposition, DispositionCut, NextLine
  <2>2. CASE IsFile(part)
    <3>1. disk' = [p \in DOMAIN disk \cup {fpath'} |->
                     IF p = fpath' THEN <<>> ELSE disk[p]]
      BY <1>1, <2>2, OpensNewFile DEF OpenFile
    <3>2. DOMAIN disk' = DOMAIN disk \cup {fpath'}
          /\ disk' = [p \in DOMAIN disk' |-> disk'[p]]
      BY <3>1
    <3> QED
      BY <2>1, <3>2, FS_AddElement DEF DiskInv
  <2>3. CASE ~IsFile(part)
    BY <1>1, <2>1, <2>3 DEF DiskInv, Disposition, DispositionCut
  <2> QED
    BY <2>2, <2>3
<1>2. ASSUME NEW line, Content(line)  PROVE DiskInv'
  <2>1. part' = part /\ (disk' = disk \/ disk' = [disk EXCEPT ![fpath] = Append(@, line)])
    BY <1>2 DEF Content, NextLine
  <2> QED
    BY <2>1 DEF DiskInv
<1>3. CASE DispositionRaises \/ Attribute \/ EmptyLine
  BY <1>3 DEF DispositionRaises, Attribute, EmptyLine, NextLine, DiskInv
<1>4. ASSUME NEW next \in Parts \cup {NoPart},
             Request(next) \/ Boundary(next)
      PROVE  DiskInv'
  BY <1>4 DEF Request, Boundary, EndPart, Sends, DiskInv
<1>5. CASE UNCHANGED multipartVars
  BY <1>5 DEF multipartVars, DiskInv
<1>6. ASSUME NEW line, HeaderRaises(line)  PROVE DiskInv'
  BY <1>6 DEF HeaderRaises, NextLine, DiskInv
<1> QED
  BY <1>1, <1>2, <1>3, <1>4, <1>5, <1>6 DEF MultipartNext

\* A file that is not being written never changes and never goes, whatever
\* clients upload and under whatever names.
THEOREM NothingOverwritten == MultipartSpec => NeverOverwrites
<1> DEFINE Kept == \A p \in DOMAIN disk \ {fpath} :
                      p \in DOMAIN disk' /\ disk'[p] = disk[p]
<1>1. ASSUME DiskInv, [MultipartNext]_multipartVars  PROVE Kept
  <2>1. CASE Disposition \/ DispositionCut
    <3>1. CASE IsFile(part)
      BY <1>1, <2>1, <3>1, OpensNewFile DEF OpenFile
    <3>2. CASE ~IsFile(part)
      BY <2>1, <3>2 DEF Disposition, DispositionCut
    <3> QED
      BY <3>1, <3>2
  <2>2. ASSUME NEW line, Content(line)  PROVE Kept
    BY <1>1, <2>2 DEF Content, DiskInv
  <2>3. CASE UNCHANGED disk
    BY <2>3
  <2> HIDE DEF Kept
  <2> QED
    BY <1>1, <2>1, <2>2, <2>3
       DEF MultipartNext, DispositionRaises, HeaderRaises, Attribute,
           EmptyLine, Request, Boundary, EndPart, multipartVars
<1>2. DiskInv /\ [MultipartNext]_multipartVars => [Kept]_multipartVars
  BY <1>1
<1>3. MultipartSpec => []DiskInv
  BY DiskInit, DiskNext, PTL DEF MultipartSpec
<1> QED
  BY <1>2, <1>3, PTL DEF MultipartSpec, NeverOverwrites

-----------------------------------------------------------------------------
(* Multipart: the lines of a part *)

Line == {"disposition", "type", "blank", "text"}

\* The text of a part starts after so many lines.
HeadLines(p) == IF p.type THEN 3 ELSE 2

LEMMA LinesOf ==
  ASSUME NEW p \in Parts
  PROVE  LET rows == Lines(p)
             h == HeadLines(p)
         IN  /\ p.text \in Seq(Line) /\ Len(p.text) \in Nat \ {0}
             /\ rows \in Seq(Line) /\ Len(rows) = h + Len(p.text)
             /\ h \in {2, 3} /\ p.type \in BOOLEAN /\ (h = 3 <=> p.type)
             /\ rows[1] = "disposition"
             /\ p.type => rows[2] = "type"
             /\ rows[h] = "blank"
             /\ \A n \in 1 .. Len(p.text) :
                   rows[h + n] = p.text[n] /\ p.text[n] \in {"blank", "text"}
<1> DEFINE h == HeadLines(p)
           type == IF p.type THEN <<"type">> ELSE <<>>
           one == <<"disposition">> \o type
           head == one \o <<"blank">>
<1>1. p.type \in BOOLEAN /\ h \in {2, 3} /\ (h = 3 <=> p.type)
  BY DEF Parts, HeadLines
<1>2. /\ p.text \in Seq(Line) /\ Len(p.text) \in Nat \ {0}
      /\ \A n \in 1 .. Len(p.text) : p.text[n] \in {"blank", "text"}
  <2>1. p.text = <<"blank">> \/ p.text = <<"blank", "text">>
    BY DEF Parts, Texts
  <2>2. ASSUME NEW s, s = <<"blank">>
        PROVE  /\ s \in Seq(Line) /\ Len(s) \in Nat \ {0}
               /\ \A n \in 1 .. Len(s) : s[n] \in {"blank", "text"}
    BY <2>2 DEF Line
  <2>3. ASSUME NEW s, s = <<"blank", "text">>
        PROVE  /\ s \in Seq(Line) /\ Len(s) \in Nat \ {0}
               /\ \A n \in 1 .. Len(s) : s[n] \in {"blank", "text"}
    BY <2>3 DEF Line
  <2> QED
    BY <2>1, <2>2, <2>3
<1>3. Lines(p) = head \o p.text
  BY DEF Lines
<1>4. /\ type \in Seq(Line) /\ Len(type) = h - 2
      /\ p.type => type[1] = "type"
      /\ <<"disposition">> \in Seq(Line) /\ Len(<<"disposition">>) = 1
      /\ <<"disposition">>[1] = "disposition"
      /\ <<"blank">> \in Seq(Line) /\ Len(<<"blank">>) = 1 /\ <<"blank">>[1] = "blank"
  <2>1. CASE p.type
    <3>1. h = 3 /\ type = <<"type">>
      BY <2>1 DEF HeadLines
    <3> HIDE DEF type, h
    <3> QED
      BY <2>1, <3>1 DEF Line
  <2>2. CASE ~p.type
    <3>1. h = 2 /\ type = <<>>
      BY <2>2 DEF HeadLines
    <3> HIDE DEF type, h
    <3> QED
      BY <2>2, <3>1 DEF Line
  <2> QED
    BY <2>1, <2>2
<1>5. /\ one \in Seq(Line) /\ Len(one) = h - 1
      /\ one[1] = "disposition"
      /\ p.type => one[2] = "type"
  <2> DEFINE d == <<"disposition">>
  <2> HIDE DEF type, d
  <2>1. d \in Seq(Line) /\ Len(d) = 1 /\ d[1] = "disposition" /\ one = d \o type
    BY <1>4 DEF d
  <2>2. /\ d \o type \in Seq(Line) /\ Len(d \o type) = Len(d) + Len(type)
        /\ \A n \in 1 .. Len(d) + Len(type) :
              (d \o type)[n] = IF n <= Len(d) THEN d[n] ELSE type[n - Len(d)]
    BY <1>4, <2>1, ConcatProperties
  <2> HIDE DEF one
  <2> QED
    BY <1>1, <1>4, <2>1, <2>2
<1>6. /\ head \in Seq(Line) /\ Len(head) = h
      /\ head[1] = "disposition"
      /\ p.type => head[2] = "type"
      /\ head[h] = "blank"
  <2> DEFINE b == <<"blank">>
  <2> HIDE DEF one, b
  <2>1. b \in Seq(Line) /\ Len(b) = 1 /\ b[1] = "blank" /\ head = one \o b
    BY <1>4 DEF b
  <2>2. /\ one \o b \in Seq(Line) /\ Len(one \o b) = Len(one) + Len(b)
        /\ \A n \in 1 .. Len(one) + Len(b) :
              (one \o b)[n] = IF n <= Len(one) THEN one[n] ELSE b[n - Len(one)]
    BY <1>5, <2>1, ConcatProperties
  <2> HIDE DEF head
  <2> QED
    BY <1>1, <1>5, <2>1, <2>2
<1>7. /\ head \o p.text \in Seq(Line) /\ Len(head \o p.text) = Len(head) + Len(p.text)
      /\ \A n \in 1 .. Len(head) + Len(p.text) :
            (head \o p.text)[n] = IF n <= Len(head) THEN head[n] ELSE p.text[n - Len(head)]
  <2> HIDE DEF head
  <2>1. p.text \in Seq(Line) /\ head \in Seq(Line)
    BY <1>2, <1>6
  <2>2. ASSUME NEW t \in Seq(Line)
        PROVE  /\ head \o t \in Seq(Line) /\ Len(head \o t) = Len(head) + Len(t)
               /\ \A n \in 1 .. Len(head) + Len(t) :
                     (head \o t)[n] = IF n <= Len(head) THEN head[n] ELSE t[n - Len(head)]
    BY <2>1, ConcatProperties
  <2> QED
    BY <2>1, <2>2
<1> HIDE DEF head, h
<1>8. \A n \in 1 .. Len(p.text) : (head \o p.text)[h + n] = p.text[n]
  BY <1>1, <1>2, <1>6, <1>7
<1>9. /\ (head \o p.text)[1] = "disposition"
      /\ p.type => (head \o p.text)[2] = "type"
      /\ (head \o p.text)[h] = "blank"
  BY <1>1, <1>2, <1>6, <1>7
<1>10. Len(head \o p.text) = h + Len(p.text)
  BY <1>6, <1>7
<1> QED
  BY <1>1, <1>2, <1>3, <1>7, <1>8, <1>9, <1>10 DEF h

\* Where the lines that are no text are.
LEMMA HeadLinesOf ==
  ASSUME NEW p \in Parts, NEW k \in Nat, k < Len(Lines(p))
  PROVE  LET line == Lines(p)[k + 1]
         IN  /\ line = "disposition" => k = 0
             /\ line = "type" => k = 1 /\ p.type = TRUE /\ HeadLines(p) = 3
             /\ line = "blank" /\ k < HeadLines(p) => k + 1 = HeadLines(p)
<1> DEFINE h == HeadLines(p)
           rows == Lines(p)
           At(line) == rows[k + 1] = line
<1>1. /\ h \in {2, 3} /\ p.type \in BOOLEAN /\ (h = 3 <=> p.type)
      /\ Len(p.text) \in Nat /\ Len(rows) = h + Len(p.text)
      /\ rows[1] = "disposition" /\ rows[h] = "blank"
      /\ p.type => rows[2] = "type"
  BY LinesOf
<1>2. \A n \in 1 .. Len(p.text) : rows[h + n] \in {"blank", "text"}
  BY LinesOf
<1> HIDE DEF h, rows
<1>3. CASE k >= h
  <2>1. k + 1 - h \in 1 .. Len(p.text) /\ h + (k + 1 - h) = k + 1
    BY <1>1, <1>3 DEF rows
  <2>2. ~At("disposition") /\ ~At("type")
    BY <1>2, <2>1
  <2>3. ~(k < h)
    BY <1>1, <1>3
  <2> QED
    BY <2>2, <2>3 DEF h, rows
<1>4. CASE k = 0
  <2>1. At("disposition") /\ ~At("type") /\ ~At("blank")
    BY <1>1, <1>4
  <2> QED
    BY <1>4, <2>1 DEF h, rows
<1>5. CASE k + 1 = h
  <2>1. At("blank") /\ ~At("disposition") /\ ~At("type")
    BY <1>1, <1>5
  <2> QED
    BY <1>5, <2>1 DEF h, rows
<1>6. CASE k = 1 /\ h = 3
  <2>1. At("type") /\ ~At("disposition") /\ ~At("blank") /\ p.type = TRUE
    BY <1>1, <1>6
  <2> QED
    BY <1>6, <2>1 DEF h, rows
<1>7. k >= h \/ k = 0 \/ k + 1 = h \/ (k = 1 /\ h = 3)
  BY <1>1
<1> QED
  BY <1>3, <1>4, <1>5, <1>6, <1>7

\* What write has seen of the text of p after k lines.
TextSeen(p, k) == SubSeq(p.text, 1, k - HeadLines(p))

LEMMA TextSeenGrows ==
  ASSUME NEW p \in Parts, NEW k \in Nat, k < Len(Lines(p))
  PROVE  /\ k < HeadLines(p) => TextSeen(p, k) = <<>> /\ TextSeen(p, k + 1) = <<>>
         /\ k >= HeadLines(p) =>
              TextSeen(p, k + 1) = Append(TextSeen(p, k), Lines(p)[k + 1])
<1> DEFINE h == HeadLines(p)
           m == k - h
<1>1. /\ p.text \in Seq(Line) /\ Len(p.text) \in Nat \ {0} /\ h \in {2, 3}
      /\ Len(Lines(p)) = h + Len(p.text)
      /\ \A n \in 1 .. Len(p.text) : Lines(p)[h + n] = p.text[n]
  BY LinesOf
<1>2. h \in Int /\ m \in Int /\ k + 1 - h = m + 1 /\ m + 1 \in Int
  BY <1>1
<1>3. TextSeen(p, k) = SubSeq(p.text, 1, m) /\ TextSeen(p, k + 1) = SubSeq(p.text, 1, m + 1)
  BY <1>2 DEF TextSeen
<1>4. CASE k < h
  <2>1. m < 1 /\ m + 1 < 1 /\ ~(k >= h)
    BY <1>1, <1>4
  <2> QED
    BY <1>2, <1>3, <1>4, <2>1, SubSeqEmpty
<1>5. CASE k >= h
  <2>1. m + 1 \in 1 .. Len(p.text) /\ m \in 0 .. Len(p.text) /\ h + (m + 1) = k + 1
        /\ (m + 1) - 1 = m /\ 1 \in 1 .. Len(p.text) /\ ~(k < h)
    <3>1. PICK l \in Nat \ {0} : l = Len(p.text)
      BY <1>1
    <3>2. k < h + l /\ h \in Nat /\ k \in Nat
      BY <1>1, <3>1
    <3> HIDE DEF h
    <3>3. m + 1 \in 1 .. l /\ m \in 0 .. l /\ h + (m + 1) = k + 1
          /\ (m + 1) - 1 = m /\ 1 \in 1 .. l /\ ~(k < h)
      BY <1>5, <3>2
    <3> QED
      BY <3>1, <3>3
  <2>2. SubSeq(p.text, 1, m + 1) = SubSeq(p.text, 1, m) \o <<p.text[m + 1]>>
    <3> HIDE DEF m
    <3> QED
      BY <1>1, <2>1, SubSeqRecursiveSecond
  <2>3. \A n \in 1 .. m : p.text[n] \in Line
    BY <1>1, <2>1, ElementOfSeq
  <2>4. SubSeq(p.text, 1, m) \in Seq(Line) /\ p.text[m + 1] \in Line
    <3> HIDE DEF m
    <3>1. SubSeq(p.text, 1, m) \in Seq(Line)
      BY <1>2, <2>3, SubSeqProperties
    <3>2. p.text[m + 1] \in Line
      BY <1>1, <2>1, ElementOfSeq
    <3> QED
      BY <3>1, <3>2
  <2>5. Append(SubSeq(p.text, 1, m), p.text[m + 1])
          = SubSeq(p.text, 1, m) \o <<p.text[m + 1]>>
    BY <2>4, AppendIsConcat
  <2>6. Lines(p)[k + 1] = p.text[m + 1]
    <3> HIDE DEF m, h
    <3> QED
      BY <1>1, <2>1
  <2>7. TextSeen(p, k + 1) = Append(TextSeen(p, k), Lines(p)[k + 1])
    <3> HIDE DEF m, h
    <3> QED
      BY <1>3, <2>2, <2>5, <2>6
  <2> QED
    BY <1>2, <1>5, <2>7
<1>6. k < h \/ k >= h
  BY <1>2
<1> QED
  BY <1>4, <1>5, <1>6, Zenon

LEMMA TextSeenAll ==
  ASSUME NEW p \in Parts
  PROVE  TextSeen(p, Len(Lines(p))) = p.text
<1>1. /\ p.text \in Seq(Line) /\ Len(p.text) \in Nat /\ HeadLines(p) \in Nat
      /\ Len(Lines(p)) = HeadLines(p) + Len(p.text)
  BY LinesOf
<1>2. Len(Lines(p)) - HeadLines(p) = Len(p.text)
  BY <1>1
<1> QED
  BY <1>1, <1>2, SubSeqFull DEF TextSeen

-----------------------------------------------------------------------------
(* Multipart: the inductive invariant.  While a part is written, the model *)
(* has seen its first k lines for some k: with k, all write knows of the   *)
(* part follows, and the parts before it are in results already.           *)

\* write has seen k lines of the part: what it has stored, and what it knows.
Stored(k) ==
    IF k > 0 /\ IsFile(part)
    THEN /\ fpath \in DOMAIN disk \ before /\ fpath \in FilePaths
         /\ fpath # NoPath /\ fpath.name = part.path.name
         /\ content = <<>> /\ disk[fpath] = TextSeen(part, k)
    ELSE fpath = NoPath /\ content = TextSeen(part, k)

InPart(k) ==
    /\ todo = SubSeq(Lines(part), k + 1, Len(Lines(part)))
    /\ inHeader <=> k < HeadLines(part)
    /\ paramattr = IF k >= 2 THEN part.type ELSE FALSE
    /\ k > 0 => paramkey = part.key
    /\ paramvalue = fpath
    /\ Stored(k)

\* The parts before the one that is written are in results.
PartInv ==
    stage = "writing" =>
        /\ sent # <<>> /\ part = sent[Len(sent)]
        /\ \E k \in 0 .. Len(Lines(part)) : InPart(k)
        /\ \A q \in Key : RecordedFor(q, 1 .. Len(sent) - 1)

\* Between requests all of them are.
IdleInv ==
    stage = "idle" =>
        fpath = NoPath /\ \A q \in Key : RecordedFor(q, DOMAIN sent)

\* The files of the entries are closed.
Entries == [text : Seq(Line), path : FilePaths, type : BOOLEAN, size : Nat]
EntriesInv ==
    /\ sent \in Seq(Parts)
    /\ before \subseteq DOMAIN disk
    /\ results \in [Key -> Seq(Entries)]
    /\ \A q \in Key : \A n \in DOMAIN results[q] :
          results[q][n].path # NoPath =>
              results[q][n].path \in DOMAIN disk /\ results[q][n].path # fpath

BodyInv == DiskInv /\ EntriesInv /\ PartInv /\ IdleInv

\* What is recorded stays so while the files of its entries do.
LEMMA RecordedKept ==
  ASSUME NEW q \in Key, NEW ns, RecordedFor(q, ns),
         results' = results, before' = before,
         \A n \in ns : sent'[n] = sent[n],
         \A m \in DOMAIN results[q] : results[q][m].path \in DOMAIN disk =>
            /\ results[q][m].path \in DOMAIN disk'
            /\ disk'[results[q][m].path] = disk[results[q][m].path]
  PROVE  RecordedFor(q, ns)'
<1>1. PICK which \in [DOMAIN results[q] -> ns] :
         /\ \A m, k \in DOMAIN results[q] : m < k => which[m] < which[k]
         /\ \A n \in ns : sent[n].key = q => \E m \in DOMAIN results[q] : which[m] = n
         /\ \A m \in DOMAIN results[q] :
               /\ sent[which[m]].key = q
               /\ Received(results[q][m], sent[which[m]])
  BY DEF RecordedFor
<1>2. which \in [DOMAIN results'[q] -> ns]
  OBVIOUS
<1>3. \A n \in ns : sent'[n].key = q => \E m \in DOMAIN results'[q] : which[m] = n
  BY <1>1
<1>4. ASSUME NEW m \in DOMAIN results'[q]
      PROVE  /\ sent'[which[m]].key = q
             /\ Received(results[q][m], sent[which[m]])'
  <2>1. which[m] \in ns /\ sent'[which[m]] = sent[which[m]]
    OBVIOUS
  <2>2. sent[which[m]].key = q /\ Received(results[q][m], sent[which[m]])
    BY <1>1
  <2> QED
    BY <2>1, <2>2 DEF Received
<1>5. \A m, k \in DOMAIN results'[q] : m < k => which[m] < which[k]
  BY <1>1
<1> QED
  BY <1>2, <1>3, <1>4, <1>5 DEF RecordedFor

LEMMA NotLast ==
  ASSUME NEW l \in Nat
  PROVE  \A m \in 1 .. l + 1 : m # l + 1 => m \in 1 .. l
  OBVIOUS

\* The end of part n adds it.
LEMMA RecordedMore ==
  ASSUME NEW n \in Nat \ {0}, NEW p \in Parts, NEW e \in Entries,
         results \in [Key -> Seq(Entries)],
         Received(e, p), p = sent[n],
         results' = [results EXCEPT ![p.key] = Append(@, e)],
         before' = before, disk' = disk, \A m \in 1 .. n : sent'[m] = sent[m],
         NEW q \in Key, RecordedFor(q, 1 .. n - 1)
  PROVE  RecordedFor(q, 1 .. n)'
<1>1. PICK which \in [DOMAIN results[q] -> 1 .. n - 1] :
         /\ \A k, o \in DOMAIN results[q] : k < o => which[k] < which[o]
         /\ \A m \in 1 .. n - 1 :
               sent[m].key = q => \E k \in DOMAIN results[q] : which[k] = m
         /\ \A k \in DOMAIN results[q] :
               /\ sent[which[k]].key = q
               /\ Received(results[q][k], sent[which[k]])
  BY DEF RecordedFor
<1>2. p.key \in Key
  BY DEF Parts
<1>4. CASE q # p.key
  <2>1. results'[q] = results[q]
    BY <1>2, <1>4
  <2>2. which \in [DOMAIN results'[q] -> 1 .. n]
    BY <2>1
  <2>3. ASSUME NEW m \in 1 .. n, sent'[m].key = q
        PROVE  \E k \in DOMAIN results'[q] : which[k] = m
    <3>1. m # n /\ sent[m].key = q
      BY <1>4, <2>3
    <3>2. m \in 1 .. n - 1
      BY <3>1
    <3> QED
      BY <1>1, <2>1, <3>1, <3>2
  <2>4. ASSUME NEW k \in DOMAIN results'[q]
        PROVE  /\ sent'[which[k]].key = q
               /\ Received(results[q][k], sent[which[k]])'
    <3>1. which[k] \in 1 .. n /\ sent'[which[k]] = sent[which[k]]
      BY <2>1
    <3>2. /\ sent[which[k]].key = q
          /\ Received(results[q][k], sent[which[k]])
      BY <1>1, <2>1
    <3> QED
      BY <2>1, <3>1, <3>2 DEF Received
  <2>5. \A k, o \in DOMAIN results'[q] : k < o => which[k] < which[o]
    BY <1>1, <2>1
  <2> QED
    BY <2>2, <2>3, <2>4, <2>5 DEF RecordedFor
<1>5. CASE q = p.key
  <2>0. Len(results[q]) \in Nat
    BY LenProperties
  <2> PICK l \in Nat : l = Len(results[q])
    BY <2>0
  <2> DEFINE more == [k \in 1 .. l + 1 |-> IF k = l + 1 THEN n ELSE which[k]]
  <2>1. /\ results[q] \in Seq(Entries) /\ DOMAIN results[q] = 1 .. l
        /\ results'[q] = Append(results[q], e)
    BY <1>2, <1>5, LenProperties
  <2>2. /\ DOMAIN results'[q] = 1 .. l + 1
        /\ results'[q][l + 1] = e
        /\ \A k \in 1 .. l : results'[q][k] = results[q][k]
    <3>1. /\ Append(results[q], e) \in Seq(Entries)
          /\ Len(Append(results[q], e)) = l + 1
          /\ \A k \in 1 .. l : Append(results[q], e)[k] = results[q][k]
          /\ Append(results[q], e)[l + 1] = e
      BY <2>1, AppendProperties
    <3> QED
      BY <2>1, <3>1, LenProperties
  <2>3. ASSUME NEW k \in 1 .. l
        PROVE  more[k] = which[k] /\ more[k] \in 1 .. n - 1
    <3>1. k \in 1 .. l + 1 /\ k # l + 1 /\ k \in DOMAIN results[q]
      BY <2>1
    <3>2. which[k] \in 1 .. n - 1
      BY <3>1
    <3> QED
      BY <3>1, <3>2
  <2>4. more[l + 1] = n
    BY <2>1
  <2>5. more \in [DOMAIN results'[q] -> 1 .. n]
    BY <2>1, <2>2
  <2> HIDE DEF more
  <2>6. \A k, o \in DOMAIN results'[q] : k < o => more[k] < more[o]
    <3> SUFFICES ASSUME NEW k \in 1 .. l + 1, NEW o \in 1 .. l + 1, k < o
                 PROVE  more[k] < more[o]
      BY <2>2
    <3>1. k \in 1 .. l /\ l \in Nat
      BY <2>1
    <3>2. CASE o = l + 1
      <4>1. more[k] \in 1 .. n - 1 /\ more[o] = n
        BY <2>3, <2>4, <3>1, <3>2
      <4> QED
        BY <4>1
    <3>3. CASE o # l + 1
      <4>1. o \in 1 .. l
        BY <3>1, <3>3, NotLast
      <4>2. which[k] < which[o]
        BY <1>1, <2>1, <3>1, <4>1
      <4> QED
        BY <2>3, <3>1, <4>1, <4>2
    <3> QED
      BY <3>2, <3>3
  <2>7. \A m \in 1 .. n : sent'[m].key = q => \E k \in DOMAIN results'[q] : more[k] = m
    <3> SUFFICES ASSUME NEW m \in 1 .. n, sent[m].key = q
                 PROVE  \E k \in 1 .. l + 1 : more[k] = m
      BY <2>2
    <3>1. CASE m = n
      BY <2>1, <2>4, <3>1
    <3>2. CASE m # n
      <4>1. m \in 1 .. n - 1
        BY <3>2
      <4>2. PICK k \in 1 .. l : which[k] = m
        BY <1>1, <2>1, <4>1
      <4>3. k \in 1 .. l + 1 /\ more[k] = m
        BY <2>1, <2>3, <4>2
      <4> QED
        BY <4>3
    <3> QED
      BY <3>1, <3>2
  <2>8. ASSUME NEW k \in DOMAIN results'[q]
        PROVE  /\ sent'[more[k]].key = q
               /\ Received(results[q][k], sent[more[k]])'
    <3>1. CASE k = l + 1
      <4>1. sent'[n] = p /\ p.key = q
        <5>1. n \in 1 .. n
          OBVIOUS
        <5>2. sent'[n] = sent[n]
          BY <5>1
        <5> QED
          BY <1>5, <5>2
      <4>2. more[k] = n /\ results'[q][k] = e
        BY <2>2, <2>4, <3>1
      <4>3. sent'[more[k]] = p
        BY <4>1, <4>2
      <4>4. Received(e, p) /\ disk' = disk /\ before' = before
        OBVIOUS
      <4> QED
        BY <4>1, <4>2, <4>3, <4>4 DEF Received
    <3>2. CASE k # l + 1
      <4>1. k \in 1 .. l /\ k \in DOMAIN results[q]
        BY <2>1, <2>2, <3>2
      <4>2. more[k] = which[k] /\ results'[q][k] = results[q][k] /\ which[k] \in 1 .. n
        BY <2>2, <2>3, <4>1
      <4>3. sent[which[k]].key = q /\ Received(results[q][k], sent[which[k]])
        BY <1>1, <4>1
      <4>4. sent'[more[k]] = sent[which[k]]
        BY <4>2
      <4>5. results'[q][k] = results[q][k] /\ sent'[more[k]].key = q
        BY <4>2, <4>3, <4>4
      <4> QED
        BY <4>3, <4>4, <4>5 DEF Received
    <3> QED
      BY <3>1, <3>2
  <2> QED
    BY <2>5, <2>6, <2>7, <2>8 DEF RecordedFor
<1> QED
  BY <1>4, <1>5

-----------------------------------------------------------------------------
(* Multipart: one line *)

LEMMA PartIsSent ==
  ASSUME EntriesInv, PartInv, stage = "writing"
  PROVE  /\ part \in Parts
         /\ Len(sent) \in Nat \ {0} /\ part = sent[Len(sent)] /\ DOMAIN sent = 1 .. Len(sent)
<1>1. sent \in Seq(Parts) /\ sent # <<>> /\ part = sent[Len(sent)]
  BY DEF EntriesInv, PartInv
<1>2. Len(sent) \in Nat \ {0} /\ Len(sent) \in 1 .. Len(sent)
  BY <1>1, EmptySeq
<1> QED
  BY <1>1, <1>2, ElementOfSeq, LenProperties

\* The next line is that after the k-th.
LEMMA LineSeen ==
  ASSUME EntriesInv, PartInv, NEW line, NextLine(line)
  PROVE  /\ part \in Parts /\ part' = part /\ stage = "writing"
         /\ \E k \in Nat :
               /\ k < Len(Lines(part)) /\ InPart(k)
               /\ Lines(part)[k + 1] = line
               /\ todo' = SubSeq(Lines(part), k + 1 + 1, Len(Lines(part)))
<1>1. /\ stage = "writing" /\ todo # <<>> /\ Head(todo) = line
      /\ todo' = Tail(todo) /\ part' = part
  BY DEF NextLine
<1>2. part \in Parts
  BY <1>1, PartIsSent
<1>3. PICK rows \in Seq(Line) : rows = Lines(part)
  BY <1>2, LinesOf
<1>4. PICK n \in Nat : n = Len(rows)
  BY LenProperties
<1>5. PICK k \in 0 .. n : InPart(k)
  BY <1>1, <1>3, <1>4 DEF PartInv
<1>6. todo = SubSeq(rows, k + 1, n)
  BY <1>3, <1>4, <1>5 DEF InPart
<1>7. k < n
  <2>1. ~(n < k + 1)
    BY <1>1, <1>4, <1>6, SubSeqEmpty
  <2> QED
    BY <2>1
<1>8. k + 1 \in 1 .. Len(rows) /\ n \in k + 1 .. Len(rows) /\ k \in Nat
  BY <1>4, <1>7
<1>9. Head(todo) = rows[k + 1] /\ Tail(todo) = SubSeq(rows, k + 1 + 1, n)
  BY <1>6, <1>8, HeadTailOfSubSeq
<1> QED
  BY <1>1, <1>2, <1>3, <1>4, <1>5, <1>7, <1>8, <1>9

\* A step inside a part leaves what is recorded alone.
LEMMA RestStays ==
  ASSUME EntriesInv, PartInv, stage = "writing", stage' = "writing",
         UNCHANGED <<part, sent, results, before>>,
         NEW k \in 0 .. Len(Lines(part)), InPart(k)',
         fpath' = fpath \/ fpath' \notin DOMAIN disk,
         \A p \in DOMAIN disk :
            p \in DOMAIN disk' /\ (disk'[p] = disk[p] \/ (p = fpath /\ fpath # NoPath))
  PROVE  EntriesInv' /\ PartInv' /\ IdleInv'
<1>1. EntriesInv'
  BY DEF EntriesInv
<1>2. ASSUME NEW q \in Key  PROVE RecordedFor(q, 1 .. Len(sent) - 1)'
  <2>1. PICK ns : ns = 1 .. Len(sent) - 1
    OBVIOUS
  <2>2. RecordedFor(q, ns)
    BY <2>1 DEF PartInv
  <2>3. ASSUME NEW n \in DOMAIN results[q], results[q][n].path \in DOMAIN disk
        PROVE  /\ results[q][n].path \in DOMAIN disk'
               /\ disk'[results[q][n].path] = disk[results[q][n].path]
    BY <2>3 DEF EntriesInv
  <2>4. RecordedFor(q, ns)'
    BY <2>2, <2>3, RecordedKept
  <2> QED
    BY <2>1, <2>4
<1>3. PartInv'
  BY <1>2 DEF PartInv
<1> QED
  BY <1>1, <1>3 DEF IdleInv

LEMMA DispositionInv ==
  ASSUME BodyInv, Disposition
  PROVE  BodyInv'
<1>1. /\ NextLine("disposition") /\ UNCHANGED <<stage, inHeader, paramattr, content>>
      /\ paramkey' = part.key
      /\ EntriesInv /\ PartInv /\ DiskInv
  BY DEF Disposition, BodyInv
<1>2. /\ part \in Parts /\ part' = part /\ stage = "writing"
      /\ UNCHANGED <<sent, before, results>>
  BY <1>1, LineSeen DEF NextLine
<1>3. PICK k \in Nat :
         /\ k < Len(Lines(part)) /\ InPart(k)
         /\ Lines(part)[k + 1] = "disposition"
         /\ todo' = SubSeq(Lines(part), k + 1 + 1, Len(Lines(part)))
  BY <1>1, LineSeen
<1>4. k = 0
  BY <1>2, <1>3, HeadLinesOf
<1>5. /\ inHeader /\ ~paramattr /\ paramattr = FALSE
      /\ fpath = NoPath /\ paramvalue = fpath
      /\ content = TextSeen(part, 0) /\ content = <<>> /\ TextSeen(part, 1) = <<>>
  BY <1>2, <1>3, <1>4, LinesOf, TextSeenGrows DEF InPart, Stored
<1>6. 1 \in 0 .. Len(Lines(part)) /\ 1 < HeadLines(part)
  BY <1>2, LinesOf
<1>7. /\ fpath' = fpath \/ fpath' \notin DOMAIN disk
      /\ \A p \in DOMAIN disk : p \in DOMAIN disk' /\ disk'[p] = disk[p]
      /\ InPart(1)'
  <2>1. CASE IsFile(part)
    <3>1. /\ fpath' \notin DOMAIN disk /\ OpenFile(fpath')
          /\ fpath' # NoPath /\ fpath'.name = part.path.name
          /\ fpath' \in FilePaths
      BY <1>1, <2>1, OpensNewFile
    <3>2. /\ paramvalue' = fpath'
          /\ DOMAIN disk' = DOMAIN disk \cup {fpath'}
          /\ disk'[fpath'] = <<>> /\ \A p \in DOMAIN disk : disk'[p] = disk[p]
      BY <3>1 DEF OpenFile
    <3>3. fpath' \in DOMAIN disk' \ before'
      BY <1>1, <1>2, <3>1, <3>2 DEF EntriesInv
    <3>4. InPart(1)'
      BY <1>1, <1>2, <1>3, <1>4, <1>5, <1>6, <2>1, <3>1, <3>2, <3>3
         DEF InPart, Stored, IsFile
    <3> QED
      BY <3>1, <3>2, <3>4
  <2>2. CASE ~IsFile(part)
    <3>1. UNCHANGED <<fpath, paramvalue, disk>>
      BY <2>2 DEF Disposition
    <3>2. InPart(1)'
      BY <1>1, <1>2, <1>3, <1>4, <1>5, <1>6, <2>2, <3>1
         DEF InPart, Stored, IsFile
    <3> QED
      BY <3>1, <3>2
  <2> QED
    BY <2>1, <2>2
<1>8. DiskInv'
  BY <1>1, DiskNext DEF MultipartNext
<1> QED
  BY <1>1, <1>2, <1>6, <1>7, <1>8, RestStays DEF BodyInv

LEMMA AttributeInv ==
  ASSUME BodyInv, Attribute
  PROVE  BodyInv'
<1>1. /\ NextLine("type") /\ paramattr' = TRUE
      /\ UNCHANGED <<stage, inHeader, paramkey, paramvalue, content, fpath, disk>>
      /\ EntriesInv /\ PartInv /\ DiskInv
  BY DEF Attribute, BodyInv
<1>2. /\ part \in Parts /\ part' = part /\ stage = "writing"
      /\ UNCHANGED <<sent, before, results>>
  BY <1>1, LineSeen DEF NextLine
<1>3. PICK k \in Nat :
         /\ k < Len(Lines(part)) /\ InPart(k)
         /\ Lines(part)[k + 1] = "type"
         /\ todo' = SubSeq(Lines(part), k + 1 + 1, Len(Lines(part)))
  BY <1>1, LineSeen
<1>4. k = 1 /\ part.type = TRUE /\ HeadLines(part) = 3
  BY <1>2, <1>3, HeadLinesOf
<1>5. TextSeen(part, 1) = <<>> /\ TextSeen(part, 2) = <<>>
  BY <1>2, <1>3, <1>4, TextSeenGrows
<1>6. InPart(2)'
  <2>1. InPart(1) /\ todo' = SubSeq(Lines(part), 2 + 1, Len(Lines(part)))
    BY <1>3, <1>4
  <2>2. Stored(2)'
    BY <1>1, <1>2, <1>5, <2>1 DEF InPart, Stored, IsFile
  <2>3. inHeader'
    <3>1. inHeader
      BY <1>4, <2>1 DEF InPart
    <3> QED
      BY <1>1, <3>1, Zenon
  <2>5. HeadLines(part') = 3 /\ paramattr' = part'.type
    BY <1>1, <1>2, <1>4, Zenon
  <2>4. paramkey' = part'.key /\ paramvalue' = fpath'
    BY <1>1, <1>2, <2>1 DEF InPart
  <2> QED
    BY <1>2, <2>1, <2>2, <2>3, <2>4, <2>5 DEF InPart
<1>7. 2 \in 0 .. Len(Lines(part))
  BY <1>2, <1>3, <1>4, LinesOf
<1>8. DiskInv'
  BY <1>1, DiskNext DEF MultipartNext
<1> QED
  BY <1>1, <1>2, <1>6, <1>7, <1>8, RestStays DEF BodyInv

LEMMA EmptyLineInv ==
  ASSUME BodyInv, EmptyLine
  PROVE  BodyInv'
<1>1. /\ NextLine("blank") /\ inHeader /\ inHeader' = FALSE
      /\ UNCHANGED <<stage, paramkey, paramvalue, paramattr, content, fpath, disk>>
      /\ EntriesInv /\ PartInv /\ DiskInv
  BY DEF EmptyLine, BodyInv
<1>2. /\ part \in Parts /\ part' = part /\ stage = "writing"
      /\ UNCHANGED <<sent, before, results>>
  BY <1>1, LineSeen DEF NextLine
<1>3. PICK k \in Nat :
         /\ k < Len(Lines(part)) /\ InPart(k)
         /\ Lines(part)[k + 1] = "blank"
         /\ todo' = SubSeq(Lines(part), k + 1 + 1, Len(Lines(part)))
  BY <1>1, LineSeen
<1>4. k < HeadLines(part)
  BY <1>1, <1>3 DEF InPart
<1>5. /\ k + 1 = HeadLines(part) /\ HeadLines(part) \in {2, 3}
      /\ part.type \in BOOLEAN /\ (HeadLines(part) = 3 <=> part.type)
  BY <1>2, <1>3, <1>4, HeadLinesOf, LinesOf
<1>6. TextSeen(part, k) = <<>> /\ TextSeen(part, k + 1) = <<>>
  BY <1>2, <1>3, <1>4, TextSeenGrows
<1>7. k > 0 /\ k + 1 > 0 /\ k + 1 >= 2 /\ ~(k + 1 < HeadLines(part))
  BY <1>5
<1>8. InPart(k + 1)'
  <2>1. Stored(k + 1)'
    BY <1>1, <1>2, <1>3, <1>6, <1>7 DEF InPart, Stored, IsFile
  <2>2. ~inHeader'
    BY <1>1
  <2>3. paramattr' = part'.type
    <3>1. paramattr = part.type
      <4>1. CASE part.type
        <5>1. k >= 2
          BY <1>5, <4>1
        <5> QED
          BY <1>3, <5>1 DEF InPart
      <4>2. CASE ~part.type
        <5>1. ~(k >= 2) /\ part.type = FALSE
          BY <1>5, <4>2
        <5> QED
          BY <1>3, <5>1 DEF InPart
      <4> QED
        BY <4>1, <4>2
    <3> QED
      BY <1>1, <1>2, <3>1
  <2>4. paramkey' = part'.key /\ paramvalue' = fpath'
    BY <1>1, <1>2, <1>3, <1>7 DEF InPart
  <2> QED
    BY <1>2, <1>3, <1>7, <2>1, <2>2, <2>3, <2>4 DEF InPart
<1>9. k + 1 \in 0 .. Len(Lines(part))
  BY <1>2, <1>3, LinesOf
<1>10. DiskInv'
  BY <1>1, DiskNext DEF MultipartNext
<1> QED
  BY <1>1, <1>2, <1>8, <1>9, <1>10, RestStays DEF BodyInv

\* A line of text is stored after those before it.
LEMMA ContentInv ==
  ASSUME BodyInv, NEW line \in {"text", "blank"}, Content(line)
  PROVE  BodyInv'
<1>1. /\ NextLine(line) /\ ~inHeader
      /\ UNCHANGED <<stage, inHeader, paramkey, paramvalue, paramattr, fpath>>
      /\ EntriesInv /\ PartInv /\ DiskInv
  BY DEF Content, BodyInv
<1>2. /\ part \in Parts /\ part' = part /\ stage = "writing"
      /\ UNCHANGED <<sent, before, results>>
  BY <1>1, LineSeen DEF NextLine
<1>3. PICK k \in Nat :
         /\ k < Len(Lines(part)) /\ InPart(k)
         /\ Lines(part)[k + 1] = line
         /\ todo' = SubSeq(Lines(part), k + 1 + 1, Len(Lines(part)))
  BY <1>1, LineSeen
<1>4. ~(k < HeadLines(part)) /\ HeadLines(part) \in {2, 3}
  BY <1>1, <1>2, <1>3, LinesOf DEF InPart
<1>5. k >= HeadLines(part) /\ k > 0 /\ k + 1 > 0 /\ k >= 2 /\ k + 1 >= 2
      /\ ~(k + 1 < HeadLines(part))
  BY <1>4
<1>6. TextSeen(part, k + 1) = Append(TextSeen(part, k), line)
  BY <1>2, <1>3, <1>5, TextSeenGrows
<1>7. /\ Stored(k + 1)'
      /\ \A p \in DOMAIN disk :
            p \in DOMAIN disk' /\ (disk'[p] = disk[p] \/ (p = fpath /\ fpath # NoPath))
  <2>1. CASE IsFile(part)
    <3>1. /\ fpath \in DOMAIN disk \ before /\ fpath \in FilePaths
          /\ fpath # NoPath /\ fpath.name = part.path.name
          /\ content = <<>> /\ disk[fpath] = TextSeen(part, k)
      BY <1>3, <1>5, <2>1 DEF InPart, Stored
    <3>2. disk' = [disk EXCEPT ![fpath] = Append(@, line)] /\ content' = content
      BY <3>1 DEF Content
    <3>3. /\ DOMAIN disk' = DOMAIN disk /\ disk'[fpath] = Append(disk[fpath], line)
          /\ \A p \in DOMAIN disk : p # fpath => disk'[p] = disk[p]
      BY <3>1, <3>2 DEF DiskInv
    <3> QED
      BY <1>1, <1>2, <1>5, <1>6, <2>1, <3>1, <3>2, <3>3 DEF Stored, IsFile
  <2>2. CASE ~IsFile(part)
    <3>1. fpath = NoPath /\ content = TextSeen(part, k)
      BY <1>3, <2>2 DEF InPart, Stored
    <3>2. content' = Append(content, line) /\ disk' = disk
      BY <3>1 DEF Content
    <3> QED
      BY <1>1, <1>2, <1>6, <2>2, <3>1, <3>2 DEF Stored, IsFile
  <2> QED
    BY <2>1, <2>2
<1>8. InPart(k + 1)'
  <2>1. ~inHeader'
    BY <1>1, Zenon
  <2>2. paramattr' = part'.type /\ paramkey' = part'.key /\ paramvalue' = fpath'
    <3>1. paramattr = part.type /\ paramkey = part.key /\ paramvalue = fpath
      BY <1>3, <1>5 DEF InPart
    <3> QED
      BY <1>1, <1>2, <3>1
  <2> QED
    BY <1>2, <1>3, <1>5, <1>7, <2>1, <2>2 DEF InPart
<1>9. k + 1 \in 0 .. Len(Lines(part))
  BY <1>2, <1>3, LinesOf
<1>10. DiskInv'
  BY <1>1, DiskNext DEF MultipartNext
<1> QED
  BY <1>1, <1>2, <1>7, <1>8, <1>9, <1>10, RestStays DEF BodyInv

LEMMA CutInv ==
  ASSUME BodyInv, DispositionCut
  PROVE  BodyInv'
<1>1. /\ UNCHANGED <<sent, before, results>> /\ stage' = "failed"
      /\ EntriesInv /\ DiskInv /\ IsFile(part)
  BY DEF DispositionCut, NextLine, BodyInv
<1>2. DiskInv'
  BY DiskNext DEF MultipartNext, BodyInv
<1>3. /\ fpath' \notin DOMAIN disk
      /\ DOMAIN disk' = DOMAIN disk \cup {fpath'}
  BY <1>1, OpensNewFile DEF OpenFile
<1>4. EntriesInv'
  BY <1>1, <1>3 DEF EntriesInv
<1> QED
  BY <1>1, <1>2, <1>4 DEF BodyInv, PartInv, IdleInv

LEMMA RaisesInv ==
  ASSUME BodyInv,
         DispositionRaises \/ \E line \in {"disposition", "type"} : HeaderRaises(line)
  PROVE  BodyInv'
<1>1. /\ UNCHANGED <<sent, before, results, fpath, disk>> /\ stage' = "failed"
      /\ EntriesInv /\ DiskInv
  BY DEF DispositionRaises, HeaderRaises, NextLine, BodyInv
<1>2. DiskInv'
  BY <1>1, DiskNext DEF MultipartNext
<1>3. EntriesInv'
  BY <1>1 DEF EntriesInv
<1> QED
  BY <1>1, <1>2, <1>3 DEF BodyInv, PartInv, IdleInv

-----------------------------------------------------------------------------
(* Multipart: the boundary and the next request *)

\* A part starts with nothing of the one before.
LEMMA PartStarts ==
  ASSUME NEW next \in Parts, Sends(next), inHeader' = TRUE,
         paramattr' = FALSE, paramvalue' = NoPath, fpath' = NoPath,
         content' = <<>>
  PROVE  /\ next # NoPart /\ part' = next
         /\ \E k \in 0 .. Len(Lines(part')) : InPart(k)'
<1>1. PICK rows \in Seq(Line) :
         /\ rows = Lines(next) /\ HeadLines(next) \in {2, 3}
         /\ Len(rows) \in Nat \ {0} /\ Len(next.text) \in Nat \ {0}
  <2>1. /\ Lines(next) \in Seq(Line) /\ HeadLines(next) \in {2, 3}
        /\ Len(Lines(next)) = HeadLines(next) + Len(next.text)
        /\ Len(next.text) \in Nat \ {0}
    BY LinesOf
  <2> QED
    BY <2>1
<1>2. next # NoPart
  <2>1. ASSUME next = NoPart  PROVE FALSE
    <3>1. next.text = <<>>
      BY <2>1 DEF NoPart
    <3> QED
      BY <1>1, <3>1
  <2> QED
    BY <2>1
<1>3. part' = next /\ todo' = Lines(next)
  BY <1>2 DEF Sends
<1>4. Lines(next) = SubSeq(Lines(next), 0 + 1, Len(Lines(next)))
  <2>1. rows = SubSeq(rows, 1, Len(rows))
    BY SubSeqFull
  <2> QED
    BY <1>1, <2>1
<1>5. TextSeen(next, 0) = <<>>
  BY <1>1, TextSeenGrows
<1>6. InPart(0)'
  <2>1. inHeader' /\ 0 < HeadLines(part')
    BY <1>1, <1>3
  <2>2. Stored(0)'
    BY <1>3, <1>5 DEF Stored
  <2>3. todo' = SubSeq(Lines(part'), 0 + 1, Len(Lines(part')))
    BY <1>3, <1>4
  <2>4. paramattr' = FALSE /\ ~(0 >= 2) /\ ~(0 > 0) /\ paramvalue' = fpath'
    OBVIOUS
  <2> QED
    BY <2>1, <2>2, <2>3, <2>4 DEF InPart
<1> QED
  BY <1>1, <1>2, <1>3, <1>6

LEMMA RequestInv ==
  ASSUME BodyInv, NEW lead \in Parts, Request(lead)
  PROVE  BodyInv'
<1>1. /\ Sends(lead) /\ inHeader' = TRUE /\ paramattr' = FALSE
      /\ paramvalue' = NoPath /\ fpath' = NoPath /\ content' = <<>>
      /\ sent' = <<lead>> /\ before' = DOMAIN disk /\ disk' = disk
      /\ results' = [k \in Key |-> <<>>] /\ stage' = "writing"
  BY DEF Request
<1>2. /\ lead # NoPart /\ part' = lead
      /\ \E k \in 0 .. Len(Lines(part')) : InPart(k)'
  BY <1>1, PartStarts
<1>3. /\ sent' \in Seq(Parts) /\ Len(sent') = 1 /\ sent' # <<>>
      /\ sent'[Len(sent')] = lead
  BY <1>1
<1>4. EntriesInv'
  BY <1>1, <1>3 DEF EntriesInv
<1>5. ASSUME NEW q \in Key  PROVE RecordedFor(q, 1 .. Len(sent) - 1)'
  <2>1. results'[q] = <<>> /\ DOMAIN results'[q] = {}
    BY <1>1
  <2>2. 1 .. Len(sent') - 1 = {}
    BY <1>3
  <2>3. [n \in {} |-> n] \in [DOMAIN results'[q] -> 1 .. Len(sent') - 1]
    BY <2>1
  <2> QED
    BY <2>1, <2>2, <2>3 DEF RecordedFor
<1>6. PartInv' /\ IdleInv'
  BY <1>1, <1>2, <1>3, <1>5 DEF PartInv, IdleInv
<1>7. DiskInv'
  BY <1>2, <1>1 DEF BodyInv, DiskInv
<1> QED
  BY <1>4, <1>6, <1>7 DEF BodyInv

\* At the boundary after a part, its entry is what should be found of it.
LEMMA EntryIsReceived ==
  ASSUME BodyInv, stage = "writing", todo = <<>>
  PROVE  /\ Received(Entry, part) /\ Entry \in Entries
         /\ paramkey = part.key /\ part \in Parts
         /\ Entry.path # NoPath => Entry.path \in DOMAIN disk
<1>1. EntriesInv /\ PartInv
  BY DEF BodyInv
<1>2. part \in Parts
  BY <1>1, PartIsSent
<1>3. /\ part.text \in Seq(Line) /\ Len(part.text) \in Nat \ {0}
      /\ HeadLines(part) \in {2, 3} /\ part.type \in BOOLEAN
  BY <1>2, LinesOf
<1>4. PICK rows \in Seq(Line) :
         rows = Lines(part) /\ Len(rows) = HeadLines(part) + Len(part.text)
  BY <1>2, LinesOf
<1>5. PICK n \in Nat : n = Len(rows) /\ n >= 3
  BY <1>3, <1>4
<1>6. PICK k \in 0 .. n : InPart(k)
  BY <1>1, <1>4, <1>5 DEF PartInv
<1>7. k = n
  <2>1. SUFFICES ASSUME k < n  PROVE FALSE
    OBVIOUS
  <2>2. k + 1 \in 1 .. n /\ k + 1 <= n
    BY <2>1
  <2>3. SubSeq(rows, k + 1, n) = <<>>
    BY <1>4, <1>5, <1>6 DEF InPart
  <2>4. Len(SubSeq(rows, k + 1, n)) = n - (k + 1) + 1
    <3>1. \A m \in k + 1 .. n : rows[m] \in Line
      BY <1>5, <2>2, ElementOfSeq
    <3>2. k + 1 \in Int /\ n \in Int /\ ~(k + 1 > n)
      BY <2>2
    <3>3. Len(SubSeq(rows, k + 1, n)) = IF k + 1 <= n THEN n - (k + 1) + 1 ELSE 0
      BY <3>1, <3>2, SubSeqProperties
    <3> QED
      BY <2>2, <3>3
  <2>5. Len(SubSeq(rows, k + 1, n)) = 0
    <3>1. Len(<<>>) = 0
      OBVIOUS
    <3> QED
      BY <2>3, <3>1, Zenon
  <2> QED
    BY <2>2, <2>4, <2>5
<1>8. TextSeen(part, k) = part.text
  BY <1>2, <1>4, <1>5, <1>7, TextSeenAll
<1>9. /\ k > 0 /\ paramattr = part.type /\ paramkey = part.key /\ paramvalue = fpath
  <2>1. k > 0 /\ k >= 2
    BY <1>5, <1>7
  <2> QED
    BY <1>6, <2>1 DEF InPart
<1>10. CASE IsFile(part)
  <2>1. /\ fpath \in DOMAIN disk \ before /\ fpath \in FilePaths
        /\ fpath # NoPath /\ fpath.name = part.path.name
        /\ content = <<>> /\ disk[fpath] = part.text
    BY <1>6, <1>8, <1>9, <1>10 DEF InPart, Stored
  <2>2. /\ Entry.text = <<>> /\ Entry.path = fpath
        /\ Entry.type = part.type /\ Entry.size = Len(part.text)
        /\ Entry = [text |-> <<>>, path |-> fpath, type |-> part.type,
                         size |-> Len(part.text)]
    BY <1>9, <2>1 DEF Entry, Stripped
  <2>3. Received(Entry, part)
    BY <1>10, <2>1, <2>2 DEF Received
  <2>4. Entry \in Entries
    <3>1. <<>> \in Seq(Line)
      OBVIOUS
    <3> QED
      BY <1>3, <2>1, <2>2, <3>1 DEF Entries
  <2> QED
    BY <1>2, <1>9, <2>1, <2>2, <2>3, <2>4
<1>11. CASE ~IsFile(part)
  <2>1. fpath = NoPath /\ content = part.text
    BY <1>6, <1>8, <1>11 DEF InPart, Stored
  <2>2. /\ Entry.text = Stripped(part.text) /\ Entry.path = fpath
        /\ Entry.type = part.type /\ Entry.size = 0
        /\ Entry = [text |-> Stripped(part.text), path |-> fpath,
                         type |-> part.type, size |-> 0]
    BY <1>9, <2>1 DEF Entry
  <2>3. Received(Entry, part)
    BY <1>11, <2>1, <2>2 DEF Received
  <2>4. Stripped(part.text) \in Seq(Line)
    BY <1>3, HeadTailProperties DEF Stripped
  <2>5. NoPath \in FilePaths
    BY DEF NoPath, Path, FilePaths
  <2>6. Entry \in Entries
    BY <1>3, <2>1, <2>2, <2>4, <2>5 DEF Entries
  <2> QED
    BY <1>2, <1>9, <2>1, <2>2, <2>3, <2>6
<1> QED
  BY <1>10, <1>11

\* The results for a key after one more entry.
LEMMA EntriesMore ==
  ASSUME NEW s \in Seq(Entries), NEW e \in Entries
  PROVE  /\ Append(s, e) \in Seq(Entries)
         /\ \A n \in DOMAIN Append(s, e) :
               Append(s, e)[n] = e \/ (n \in DOMAIN s /\ Append(s, e)[n] = s[n])
<1>1. PICK l \in Nat : l = Len(s)
  BY LenProperties
<1>2. /\ Append(s, e) \in Seq(Entries) /\ Len(Append(s, e)) = l + 1
      /\ \A n \in 1 .. l : Append(s, e)[n] = s[n]
      /\ Append(s, e)[l + 1] = e
  BY <1>1, AppendProperties
<1>3. DOMAIN Append(s, e) = 1 .. l + 1 /\ DOMAIN s = 1 .. l
  BY <1>1, <1>2, LenProperties
<1> QED
  BY <1>2, <1>3, NotLast

LEMMA BoundaryInv ==
  ASSUME BodyInv, NEW next \in Parts \cup {NoPart}, Boundary(next)
  PROVE  BodyInv'
<1>1. /\ stage = "writing" /\ todo = <<>>
      /\ results' = [results EXCEPT ![paramkey] = Append(@, Entry)]
      /\ inHeader' = TRUE /\ paramattr' = FALSE /\ paramvalue' = NoPath
      /\ fpath' = NoPath /\ content' = <<>> /\ Sends(next)
      /\ sent' = (IF next = NoPart THEN sent ELSE Append(sent, next))
      /\ stage' = (IF next = NoPart THEN "idle" ELSE "writing")
      /\ UNCHANGED <<disk, before>>
      /\ EntriesInv /\ PartInv /\ DiskInv
  BY DEF Boundary, EndPart, BodyInv
<1>2. /\ Received(Entry, part) /\ Entry \in Entries
      /\ paramkey = part.key /\ part \in Parts
      /\ Entry.path # NoPath => Entry.path \in DOMAIN disk
  BY <1>1, EntryIsReceived
<1>3. PICK n \in Nat \ {0} :
         n = Len(sent) /\ part = sent[n] /\ DOMAIN sent = 1 .. n /\ sent \in Seq(Parts)
  BY <1>1, PartIsSent DEF EntriesInv
<1>4. PICK e \in Entries, p \in Parts :
         e = Entry /\ p = part /\ Received(e, p)
         /\ p = sent[n] /\ (e.path # NoPath => e.path \in DOMAIN disk)
  BY <1>2, <1>3
<1>5. p.key \in Key /\ results' = [results EXCEPT ![p.key] = Append(@, e)]
      /\ results \in [Key -> Seq(Entries)]
  BY <1>1, <1>2, <1>4 DEF Parts, EntriesInv
<1>6. /\ sent' \in Seq(Parts) /\ \A m \in 1 .. n : sent'[m] = sent[m]
      /\ next # NoPart =>
            /\ next \in Parts /\ Len(sent') = n + 1
            /\ sent' # <<>> /\ sent'[n + 1] = next
  <2>1. CASE next = NoPart
    BY <1>1, <1>3, <2>1
  <2>2. CASE next # NoPart
    <3>1. next \in Parts /\ sent' = Append(sent, next)
      BY <1>1, <2>2
    <3>2. /\ Append(sent, next) \in Seq(Parts)
          /\ Len(Append(sent, next)) = n + 1
          /\ \A m \in 1 .. n : Append(sent, next)[m] = sent[m]
          /\ Append(sent, next)[n + 1] = next
          /\ Append(sent, next) # <<>>
      BY <1>3, <3>1, AppendProperties
    <3> QED
      BY <3>1, <3>2
  <2> QED
    BY <2>1, <2>2
<1>7. EntriesInv'
  <2>1. \A q \in Key : results'[q] = IF q = p.key THEN Append(results[q], e) ELSE results[q]
    BY <1>5
  <2>2. DOMAIN results' = Key /\ results' = [q \in Key |-> results'[q]]
    BY <1>5
  <2>3. ASSUME NEW q \in Key
        PROVE  /\ results'[q] \in Seq(Entries)
               /\ \A o \in DOMAIN results'[q] :
                     results'[q][o].path # NoPath =>
                        results'[q][o].path \in DOMAIN disk
    <3>1. results[q] \in Seq(Entries)
      BY <1>5
    <3>2. \A o \in DOMAIN results[q] :
             results[q][o].path # NoPath => results[q][o].path \in DOMAIN disk
      BY <1>1 DEF EntriesInv
    <3>3. CASE q = p.key
      <4>1. results'[q] = Append(results[q], e)
        BY <2>1, <3>3
      <4>2. /\ Append(results[q], e) \in Seq(Entries)
            /\ \A o \in DOMAIN Append(results[q], e) :
                  \/ Append(results[q], e)[o] = e
                  \/ o \in DOMAIN results[q] /\ Append(results[q], e)[o] = results[q][o]
        BY <3>1, EntriesMore
      <4> QED
        BY <1>4, <3>2, <4>1, <4>2
    <3>4. CASE q # p.key
      BY <2>1, <3>1, <3>2, <3>4
    <3> QED
      BY <3>3, <3>4
  <2>4. results' \in [Key -> Seq(Entries)]
    BY <2>2, <2>3
  <2> QED
    BY <1>1, <1>6, <2>3, <2>4 DEF EntriesInv
<1>8. ASSUME NEW q \in Key  PROVE RecordedFor(q, 1 .. n)'
  <2>1. RecordedFor(q, 1 .. n - 1)
    BY <1>1, <1>3 DEF PartInv
  <2> QED
    BY <1>1, <1>4, <1>5, <1>6, <2>1, RecordedMore
<1>9. PartInv' /\ IdleInv'
  <2>1. CASE next = NoPart
    <3>1. stage' = "idle" /\ DOMAIN sent' = 1 .. n
      BY <1>1, <1>3, <2>1
    <3> QED
      BY <1>1, <1>8, <3>1 DEF PartInv, IdleInv
  <2>2. CASE next # NoPart
    <3>1. /\ stage' = "writing" /\ next \in Parts /\ Len(sent') - 1 = n
          /\ sent' # <<>> /\ sent'[Len(sent')] = next
      BY <1>1, <1>6, <2>2
    <3>2. part' = next /\ \E k \in 0 .. Len(Lines(part')) : InPart(k)'
      BY <1>1, <3>1, PartStarts
    <3> QED
      BY <1>8, <3>1, <3>2 DEF PartInv, IdleInv
  <2> QED
    BY <2>1, <2>2
<1>10. DiskInv'
  <2>1. part' \in Parts \cup {NoPart}
    BY <1>1 DEF Sends
  <2> QED
    BY <1>1, <2>1 DEF DiskInv
<1> QED
  BY <1>7, <1>9, <1>10 DEF BodyInv

LEMMA BodyInit == MultipartInit => BodyInv
<1> SUFFICES ASSUME MultipartInit  PROVE BodyInv
  OBVIOUS
<1>1. /\ sent = <<>> /\ stage = "idle" /\ fpath = NoPath /\ before = {}
      /\ results = [k \in Key |-> <<>>]
  BY DEF MultipartInit
<1>2. EntriesInv
  BY <1>1 DEF EntriesInv
<1>3. ASSUME NEW q \in Key  PROVE RecordedFor(q, DOMAIN sent)
  <2>1. DOMAIN results[q] = {} /\ DOMAIN sent = {}
    BY <1>1
  <2>2. [n \in {} |-> n] \in [DOMAIN results[q] -> DOMAIN sent]
    BY <2>1
  <2> QED
    BY <2>1, <2>2 DEF RecordedFor
<1> QED
  BY <1>1, <1>2, <1>3, DiskInit DEF BodyInv, PartInv, IdleInv

LEMMA BodyNext == BodyInv /\ [MultipartNext]_multipartVars => BodyInv'
<1> SUFFICES ASSUME BodyInv, [MultipartNext]_multipartVars  PROVE BodyInv'
  OBVIOUS
<1>1. CASE UNCHANGED multipartVars
  <2>1. DiskInv' /\ EntriesInv'
    BY <1>1 DEF multipartVars, BodyInv, DiskInv, EntriesInv
  <2>2. PartInv' /\ IdleInv'
    <3>1. ASSUME NEW q \in Key, NEW ns, RecordedFor(q, ns)
          PROVE  RecordedFor(q, ns)'
      BY <1>1, <3>1, RecordedKept DEF multipartVars
    <3>2. ASSUME NEW k, InPart(k)  PROVE InPart(k)'
      BY <1>1, <3>2, Zenon DEF multipartVars, InPart, Stored
    <3>3. PICK n, ns : n = 1 .. Len(sent) - 1 /\ ns = DOMAIN sent
      OBVIOUS
    <3>4. n = 1 .. Len(sent') - 1 /\ ns = DOMAIN sent'
      BY <1>1, <3>3 DEF multipartVars
    <3>5. IdleInv'
      BY <1>1, <3>1, <3>3, <3>4 DEF multipartVars, BodyInv, IdleInv
    <3>6. PartInv'
      <4>1. SUFFICES ASSUME stage = "writing"  PROVE PartInv'
        BY <1>1 DEF multipartVars, PartInv
      <4>2. PICK k \in 0 .. Len(Lines(part)) : InPart(k)
        BY <4>1 DEF BodyInv, PartInv
      <4>3. k \in 0 .. Len(Lines(part')) /\ InPart(k)'
        BY <1>1, <3>2, <4>2 DEF multipartVars
      <4>4. \A q \in Key : RecordedFor(q, n)'
        BY <3>1, <3>3, <4>1 DEF BodyInv, PartInv
      <4>5. sent' # <<>> /\ part' = sent'[Len(sent')]
        BY <1>1, <4>1 DEF multipartVars, BodyInv, PartInv
      <4> QED
        BY <3>4, <4>3, <4>4, <4>5 DEF PartInv
    <3> QED
      BY <3>5, <3>6
  <2> QED
    BY <2>1, <2>2 DEF BodyInv
<1> QED
  BY <1>1, RequestInv, BoundaryInv, DispositionInv, CutInv, RaisesInv, AttributeInv,
     EmptyLineInv, ContentInv
     DEF MultipartNext

\* Whatever the requests and their parts, the application finds under each key
\* the parts sent with that key, in order, and nothing of one in another.
THEOREM ResultsAreExact == MultipartSpec => []ResultsExact
<1>1. BodyInv => ResultsExact
  BY DEF BodyInv, IdleInv, ResultsExact
<1> QED
  BY <1>1, BodyInit, BodyNext, PTL DEF MultipartSpec

-----------------------------------------------------------------------------
(* Dispatch: the routes *)

Routes == [uri : RouteUris, cb : Callback]
RoutesInv == registered \in Seq(Routes)

LEMMA RoutesInit == DispatchInit => RoutesInv
  BY DEF DispatchInit, RoutesInv

\* A step leaves the routes alone or adds one after them.
LEMMA RoutesGrow ==
  ASSUME RoutesInv, [DispatchNext]_dispatchVars
  PROVE  \/ registered' = registered
         \/ \E route \in Routes : registered' = Append(registered, route)
<1>1. ASSUME NEW uri \in RouteUris, NEW cb \in Callback, WsgiCb(uri, cb)
      PROVE  \E route \in Routes : registered' = Append(registered, route)
  BY <1>1 DEF WsgiCb, Routes
<1>2. ASSUME NEW r, PythonHandler(r)  PROVE registered' = registered
  BY <1>2 DEF PythonHandler, NotImplemented, Options,
              NotFound, LengthRequired, Called,
              Answered
<1>3. CASE UNCHANGED dispatchVars
  BY <1>3 DEF dispatchVars
<1>4. CASE CloseConnection
  BY <1>4 DEF CloseConnection
<1>5. ASSUME NEW cb, SetGenWsgiCb(cb)  PROVE registered' = registered
  BY <1>5 DEF SetGenWsgiCb
<1> QED
  BY <1>1, <1>2, <1>3, <1>4, <1>5 DEF DispatchNext

LEMMA RoutesNext ==
  ASSUME RoutesInv, [DispatchNext]_dispatchVars
  PROVE  RoutesInv'
<1>1. CASE registered' = registered
  BY <1>1 DEF RoutesInv
<1>2. ASSUME NEW route \in Routes, registered' = Append(registered, route)
      PROVE  RoutesInv'
  BY <1>2, AppendProperties DEF RoutesInv
<1> QED
  BY <1>1, <1>2, RoutesGrow

\* The routes that match are those that did, and what is added comes after.
LEMMA MatchesStay ==
  ASSUME RoutesInv, NEW route \in Routes, registered' = Append(registered, route),
         NEW uri
  PROVE  /\ Matches(uri) \subseteq DOMAIN registered
         /\ DOMAIN registered \subseteq Nat
         /\ \A n \in DOMAIN registered : registered'[n] = registered[n]
         /\ \E l \in Nat :
               /\ DOMAIN registered = 1 .. l
               /\ \A n : n \in (Matches(uri))' =>
                     n \in Matches(uri) \/ n = l + 1
         /\ \A n \in Matches(uri) : n \in (Matches(uri))'
<1>1. PICK l \in Nat : l = Len(registered)
  BY LenProperties DEF RoutesInv
<1>2. /\ Append(registered, route) \in Seq(Routes)
      /\ Len(Append(registered, route)) = l + 1
      /\ \A n \in 1 .. l : Append(registered, route)[n] = registered[n]
  BY <1>1, AppendProperties DEF RoutesInv
<1>3. /\ DOMAIN registered = 1 .. l /\ DOMAIN registered' = 1 .. l + 1
      /\ \A n \in 1 .. l : registered'[n] = registered[n] /\ n \in 1 .. l + 1
  BY <1>1, <1>2, LenProperties DEF RoutesInv
<1>4. \A n \in Matches(uri) : n \in (Matches(uri))'
  BY <1>3 DEF Matches
<1>5. ASSUME NEW n, n \in (Matches(uri))'
      PROVE  n \in Matches(uri) \/ n = l + 1
  <2>1. n \in 1 .. l + 1 /\ IsPrefix(registered'[n].uri, uri)
    BY <1>3, <1>5 DEF Matches
  <2>2. CASE n # l + 1
    <3>1. n \in 1 .. l
      BY <2>1, <2>2, NotLast
    <3> QED
      BY <1>3, <2>1, <3>1 DEF Matches
  <2> QED
    BY <2>2
<1> QED
  BY <1>3, <1>4, <1>5 DEF Matches

\* The route a URI got is the one it gets.
THEOREM RoutesKept == DispatchSpec => RoutesStay
<1> DEFINE Kept == \A path \in PathsSent :
              Matches(path.wire) # {} =>
                 Matches(path.wire)' # {}
                 /\ HandleUri(path.wire)' = HandleUri(path.wire)
<1>1. ASSUME RoutesInv, [DispatchNext]_dispatchVars  PROVE Kept
  <2>1. CASE registered' = registered
    BY <2>1 DEF HandleUri, Matches
  <2>2. ASSUME NEW route \in Routes, registered' = Append(registered, route)  PROVE Kept
    <3> SUFFICES ASSUME NEW uri, Matches(uri) # {}
                 PROVE  /\ Matches(uri)' # {}
                        /\ HandleUri(uri)' = HandleUri(uri)
      OBVIOUS
    <3>1. /\ Matches(uri) \subseteq DOMAIN registered
          /\ DOMAIN registered \subseteq Nat
          /\ \A n \in DOMAIN registered : registered'[n] = registered[n]
          /\ \A n \in Matches(uri) : n \in (Matches(uri))'
      BY <1>1, <2>2, MatchesStay
    <3>2. PICK l \in Nat :
             /\ DOMAIN registered = 1 .. l
             /\ \A n : n \in (Matches(uri))' =>
                   n \in Matches(uri) \/ n = l + 1
      BY <1>1, <2>2, MatchesStay
    <3>3. PICK least \in Matches(uri) :
             \A m \in Matches(uri) : least <= m
      BY <3>1, LeastNatural
    <3>4. \A m \in (Matches(uri))' : least <= m
      BY <3>1, <3>2, <3>3
    <3>5. (CHOOSE n \in Matches(uri) :
              \A m \in Matches(uri) : n <= m) = least
      BY <3>1, <3>3
    <3>6. (CHOOSE n \in (Matches(uri))' :
              \A m \in (Matches(uri))' : n <= m) = least
      <4>1. \A n \in (Matches(uri))' : n \in Nat
        BY <3>1, <3>2
      <4> QED
        BY <3>1, <3>3, <3>4, <4>1
    <3> QED
      BY <3>1, <3>3, <3>5, <3>6 DEF HandleUri
  <2> QED
    BY <1>1, <2>1, <2>2, RoutesGrow
<1>2. RoutesInv /\ [DispatchNext]_dispatchVars => [Kept]_dispatchVars
  BY <1>1
<1>3. DispatchSpec => []RoutesInv
  BY RoutesInit, RoutesNext, PTL DEF DispatchSpec
<1> QED
  BY <1>2, <1>3, PTL DEF DispatchSpec, RoutesStay

-----------------------------------------------------------------------------
(* Dispatch: the text of a request *)

\* FlattenSeq is well defined, and gives a sequence.
Concats(f, seqs, n) ==
    f = [m \in 1 .. n |-> IF m = 1 THEN seqs[m] ELSE f[m - 1] \o seqs[m]]

LEMMA FlattenExists ==
  ASSUME NEW T, NEW seqs \in Seq(Seq(T)), NEW l \in Nat, l = Len(seqs)
  PROVE  \E f : Concats(f, seqs, l)
<1> DEFINE Bad == {n \in Nat : ~ \E f : Concats(f, seqs, n)}
<1>1. SUFFICES ASSUME Bad # {}  PROVE FALSE
  OBVIOUS
<1>2. PICK m \in Bad : \A n \in Bad : m <= n
  BY <1>1, LeastNatural
<1>3. m \in Nat /\ ~ \E f : Concats(f, seqs, m)
  BY <1>2
<1>4. CASE m = 0
  <2>1. 1 .. m = {}
    BY <1>4
  <2>2. Concats([k \in {} |-> k], seqs, m)
    BY <2>1 DEF Concats
  <2> QED
    BY <1>3, <2>2
<1>5. CASE m # 0
  <2>1. m - 1 \in Nat /\ m - 1 \notin Bad
    <3>1. m - 1 \in Nat /\ ~(m <= m - 1)
      BY <1>3, <1>5
    <3> HIDE DEF Bad
    <3> QED
      BY <1>2, <3>1
  <2>2. PICK g : Concats(g, seqs, m - 1)
    BY <2>1
  <2>3. PICK f : f = [k \in 1 .. m |-> IF k = m THEN IF m = 1 THEN seqs[m] ELSE g[m - 1] \o seqs[m]
                                       ELSE g[k]]
    OBVIOUS
  <2>4. ASSUME NEW k \in 1 .. m  PROVE f[k] = IF k = 1 THEN seqs[k] ELSE f[k - 1] \o seqs[k]
    <3>1. CASE k = m
      <4>1. CASE m = 1
        BY <2>3, <3>1, <4>1
      <4>2. CASE m # 1
        <5>1. k - 1 \in 1 .. m /\ k - 1 # m
          BY <1>3, <3>1, <4>2
        <5> QED
          BY <2>3, <3>1, <4>2, <5>1
      <4> QED
        BY <4>1, <4>2
    <3>2. CASE k # m
      <4>1. k \in 1 .. m - 1
        BY <1>3, <3>2
      <4>2. g[k] = IF k = 1 THEN seqs[k] ELSE g[k - 1] \o seqs[k]
        BY <2>2, <4>1 DEF Concats
      <4>3. k # 1 => k - 1 \in 1 .. m /\ k - 1 # m
        BY <1>3, <4>1
      <4> QED
        BY <2>3, <3>2, <4>2, <4>3
    <3> QED
      BY <3>1, <3>2
  <2>5. Concats(f, seqs, m)
    <3>1. f = [k \in 1 .. m |-> f[k]]
      BY <2>3
    <3> QED
      BY <2>4, <3>1 DEF Concats
  <2> QED
    BY <1>3, <2>5
<1> QED
  BY <1>4, <1>5

LEMMA ConcatsType ==
  ASSUME NEW T, NEW seqs \in Seq(Seq(T)), NEW l \in Nat, l = Len(seqs),
         NEW f, Concats(f, seqs, l)
  PROVE  \A k \in 1 .. l : f[k] \in Seq(T)
<1> DEFINE Bad == {k \in 1 .. l : f[k] \notin Seq(T)}
<1>1. SUFFICES ASSUME Bad # {}  PROVE FALSE
  OBVIOUS
<1>2. Bad \in SUBSET Nat
  OBVIOUS
<1>3. PICK m \in Bad : \A n \in Bad : m <= n
  BY <1>1, <1>2, LeastNatural
<1>4. m \in 1 .. l /\ f[m] \notin Seq(T) /\ seqs[m] \in Seq(T)
  BY <1>3, ElementOfSeq
<1>5. f[m] = IF m = 1 THEN seqs[m] ELSE f[m - 1] \o seqs[m]
  BY <1>4 DEF Concats
<1>6. m # 1 => m - 1 \in 1 .. l /\ f[m - 1] \in Seq(T)
  BY <1>3, <1>4
<1>7. m # 1 => f[m - 1] \o seqs[m] \in Seq(T)
  BY <1>4, <1>6, ConcatProperties
<1> QED
  BY <1>4, <1>5, <1>7

LEMMA FlattenType ==
  ASSUME NEW T, NEW seqs \in Seq(Seq(T))
  PROVE  FlattenSeq(seqs) \in Seq(T)
         /\ (seqs = <<>> => FlattenSeq(seqs) = <<>>)
<1>1. PICK l \in Nat : l = Len(seqs)
  BY LenProperties
<1>2. CASE l = 0
  <2>1. seqs = <<>>
    BY <1>1, <1>2, EmptySeq
  <2>2. Len(<<>>) = 0 /\ <<>> \in Seq(T)
    OBVIOUS
  <2> QED
    BY <2>1, <2>2, Zenon DEF FlattenSeq
<1>3. CASE l # 0
  <2>1. FlattenSeq(seqs) =
          (CHOOSE f : f = [n \in 1 .. l |-> IF n = 1 THEN seqs[n] ELSE f[n - 1] \o seqs[n]])[l]
    BY <1>1, <1>3 DEF FlattenSeq
  <2>2. PICK g : g = (CHOOSE f : f = [n \in 1 .. l |-> IF n = 1 THEN seqs[n] ELSE f[n - 1] \o seqs[n]])
    OBVIOUS
  <2>3. Concats(g, seqs, l)
    <3>1. \E f : f = [n \in 1 .. l |-> IF n = 1 THEN seqs[n] ELSE f[n - 1] \o seqs[n]]
      BY <1>1, FlattenExists, Zenon DEF Concats
    <3> QED
      BY <2>2, <3>1, Zenon DEF Concats
  <2>4. l \in 1 .. l
    BY <1>3
  <2>5. g[l] \in Seq(T)
    BY <1>1, <2>3, <2>4, ConcatsType
  <2> QED
    BY <1>1, <1>3, <2>1, <2>2, <2>5, EmptySeq
<1> QED
  BY <1>2, <1>3

LEMMA JoinOf ==
  ASSUME NEW S, NEW s \in Seq(S), NEW t \in Seq(S)
  PROVE  /\ s \o t \in Seq(S) /\ Len(s) \in Nat /\ Len(t) \in Nat
         /\ Len(s \o t) = Len(s) + Len(t)
         /\ \A n \in 1 .. Len(s) : (s \o t)[n] = s[n]
         /\ \A k \in 1 .. Len(t) : (s \o t)[Len(s) + k] = t[k]
<1>1. PICK l \in Nat, m \in Nat, u \in Seq(S) : l = Len(s) /\ m = Len(t) /\ u = s \o t
  BY LenProperties, ConcatProperties
<1>2. Len(u) = l + m /\ \A n \in 1 .. l + m : u[n] = IF n <= l THEN s[n] ELSE t[n - l]
  BY <1>1, ConcatProperties
<1>3. \A n \in 1 .. l : u[n] = s[n]
  BY <1>2
<1>4. ASSUME NEW k \in 1 .. m  PROVE u[l + k] = t[k]
  <2>1. l + k \in 1 .. l + m /\ ~(l + k <= l) /\ l + k - l = k
    OBVIOUS
  <2> QED
    BY <1>2, <2>1
<1> QED
  BY <1>1, <1>2, <1>3, <1>4

\* What is concatenated first stays in front.
LEMMA ConcatsFront ==
  ASSUME NEW T, NEW seqs \in Seq(Seq(T)), NEW l \in Nat, l = Len(seqs),
         NEW f, Concats(f, seqs, l), NEW n \in 1 .. l
  PROVE  /\ Len(f[n]) <= Len(f[l])
         /\ \A m \in 1 .. Len(f[n]) : f[l][m] = f[n][m]
<1> DEFINE InFront(a) == /\ Len(f[a]) <= Len(f[l])
                       /\ \A m \in 1 .. Len(f[a]) : f[l][m] = f[a][m]
           Bad == {d \in 0 .. l - 1 : ~InFront(l - d)}
<1>0. \A a \in 1 .. l : f[a] \in Seq(T) /\ Len(f[a]) \in Nat /\ seqs[a] \in Seq(T)
  BY ConcatsType, LenProperties, ElementOfSeq
<1>1. ASSUME Bad # {}  PROVE FALSE
  <2>0. Bad \in SUBSET Nat
    <3>1. \A d \in 0 .. l - 1 : d \in Nat
      OBVIOUS
    <3> HIDE DEF InFront
    <3> QED
      BY <3>1
  <2>1. PICK d \in Bad : \A e \in Bad : d <= e
    <3> HIDE DEF Bad
    <3> QED
      BY <1>1, <2>0, LeastNatural
  <2>2. d \in 0 .. l - 1 /\ ~InFront(l - d)
    BY <2>1
  <2>3. d # 0
    BY <2>2, <1>0
  <2>4. PICK a \in 1 .. l : a = l - d /\ a + 1 \in 1 .. l /\ a + 1 = l - (d - 1) /\ d - 1 \in 0 .. l - 1
    <3>1. /\ l - d \in 1 .. l /\ (l - d) + 1 \in 1 .. l /\ (l - d) + 1 = l - (d - 1)
          /\ d - 1 \in 0 .. l - 1
      BY <2>2, <2>3
    <3> QED
      BY <3>1
  <2>5. InFront(a + 1)
    <3>1. d - 1 \notin Bad
      <4>1. ~(d <= d - 1)
        BY <2>2
      <4> HIDE DEF Bad
      <4> QED
        BY <2>1, <4>1
    <3> HIDE DEF InFront
    <3> QED
      BY <2>4, <3>1
  <2>6. f[a + 1] = f[a] \o seqs[a + 1]
    <3>1. a + 1 # 1 /\ (a + 1) - 1 = a
      BY <2>4
    <3>2. f[a + 1] = IF a + 1 = 1 THEN seqs[a + 1] ELSE f[(a + 1) - 1] \o seqs[a + 1]
      BY <2>4, Zenon DEF Concats
    <3> QED
      BY <3>1, <3>2
  <2>7. /\ Len(f[a + 1]) = Len(f[a]) + Len(seqs[a + 1])
        /\ \A m \in 1 .. Len(f[a]) : f[a + 1][m] = f[a][m]
        /\ Len(f[a]) \in Nat /\ Len(seqs[a + 1]) \in Nat
    <3>1. PICK s \in Seq(T), t \in Seq(T) : s = f[a] /\ t = seqs[a + 1]
      BY <1>0, <2>4
    <3>2. /\ Len(s \o t) = Len(s) + Len(t) /\ Len(s) \in Nat /\ Len(t) \in Nat
          /\ \A m \in 1 .. Len(s) : (s \o t)[m] = s[m]
      <4>1. s \in Seq(T) /\ t \in Seq(T)
        BY <3>1
      <4> QED
        BY <4>1, JoinOf
    <3> QED
      BY <2>6, <3>1, <3>2, Zenon
  <2>8. InFront(a)
    <3>0. l \in 1 .. l
      BY <2>4
    <3>1. PICK x \in Nat, y \in Nat, z \in Nat, w \in Nat :
             x = Len(f[l]) /\ y = Len(f[a]) /\ z = Len(f[a + 1]) /\ w = Len(seqs[a + 1])
      <4>1. /\ Len(f[l]) \in Nat /\ Len(f[a]) \in Nat /\ Len(f[a + 1]) \in Nat
            /\ Len(seqs[a + 1]) \in Nat
        <5>1. seqs[a + 1] \in Seq(T)
          BY <1>0, <2>4
        <5>2. Len(seqs[a + 1]) \in Nat
          BY <5>1, LenProperties
        <5> QED
          BY <1>0, <2>4, <3>0, <5>2
      <4> QED
        BY <4>1
    <3>2. z = y + w /\ z <= x
      BY <2>5, <2>7, <3>1
    <3>3. y <= x /\ \A m \in 1 .. y : m \in 1 .. z
      BY <3>2
    <3>4. ASSUME NEW m \in 1 .. y  PROVE f[l][m] = f[a][m]
      <4>1. f[l][m] = f[a + 1][m]
        BY <2>5, <3>1, <3>3
      <4> QED
        BY <2>7, <3>1, <4>1
    <3> QED
      BY <3>1, <3>3, <3>4
  <2> HIDE DEF InFront
  <2> QED
    BY <2>2, <2>4, <2>8
<1>2. l - n \in 0 .. l - 1 /\ l - (l - n) = n
  OBVIOUS
<1>3. InFront(n)
  <2> HIDE DEF InFront
  <2> QED
    BY <1>1, <1>2
<1> QED
  BY <1>3

\* FlattenSeq is the last of the concatenations.
LEMMA FlattenIs ==
  ASSUME NEW T, NEW seqs \in Seq(Seq(T)), NEW l \in Nat, l = Len(seqs), l # 0
  PROVE  \E f : Concats(f, seqs, l) /\ FlattenSeq(seqs) = f[l]
<1>1. seqs # <<>>
  BY EmptySeq
<1>2. PICK f : f = (CHOOSE g : g = [n \in 1 .. l |-> IF n = 1 THEN seqs[n] ELSE g[n - 1] \o seqs[n]])
  OBVIOUS
<1>3. FlattenSeq(seqs) = f[l]
  BY <1>1, <1>2 DEF FlattenSeq
<1>4. Concats(f, seqs, l)
  <2>1. \E g : g = [n \in 1 .. l |-> IF n = 1 THEN seqs[n] ELSE g[n - 1] \o seqs[n]]
    BY FlattenExists, Zenon DEF Concats
  <2> QED
    BY <1>2, <2>1, Zenon DEF Concats
<1> QED
  BY <1>3, <1>4

\* The characters there are.
Char == {"/", "a", "b", " ", "=", "?", "&", "+", "%20", "%26", "%2B", "%61"}

LEMMA CharSeqs ==
  ASSUME NEW T, NEW c1 \in T, NEW c2 \in T, NEW c3 \in T, NEW c4 \in T
  PROVE  /\ <<>> \in Seq(T) /\ Len(<<>>) = 0
         /\ <<c1>> \in Seq(T) /\ Len(<<c1>>) = 1 /\ <<c1>>[1] = c1
         /\ <<c1, c2>> \in Seq(T) /\ Len(<<c1, c2>>) = 2
         /\ <<c1, c2>>[1] = c1 /\ <<c1, c2>>[2] = c2
         /\ <<c1, c2, c3>> \in Seq(T) /\ Len(<<c1, c2, c3>>) = 3
         /\ <<c1, c2, c3>>[1] = c1 /\ <<c1, c2, c3>>[2] = c2 /\ <<c1, c2, c3>>[3] = c3
         /\ <<c1, c2, c3, c4>> \in Seq(T) /\ Len(<<c1, c2, c3, c4>>) = 4
         /\ <<c1, c2, c3, c4>>[1] = c1 /\ <<c1, c2, c3, c4>>[2] = c2
         /\ <<c1, c2, c3, c4>>[3] = c3 /\ <<c1, c2, c3, c4>>[4] = c4
  OBVIOUS

LEMMA SentFields ==
  ASSUME NEW text, NEW wire
  PROVE  Sent(text, wire).text = text /\ Sent(text, wire).wire = wire
  BY DEF Sent

\* What decode_uri makes of a character, and of a text.
DecodedChar(c) == IF c \in DOMAIN Decoded THEN Decoded[c] ELSE c

LEMMA DecodedChars ==
  /\ DecodedChar("a") = "a" /\ DecodedChar("%61") = "a" /\ DecodedChar("b") = "b"
  /\ DecodedChar("+") = " " /\ DecodedChar("=") = "=" /\ DecodedChar("?") = "?"
  /\ DecodedChar("%26") = "&" /\ DecodedChar("%2B") = "+"
  BY DEF DecodedChar, Decoded

LEMMA DecodedIs ==
  ASSUME NEW wire \in Seq(Char), NEW text \in Seq(Char), Len(text) = Len(wire),
         \A n \in 1 .. Len(wire) : text[n] = DecodedChar(wire[n])
  PROVE  DecodeUri(wire) = text
<1>1. /\ DOMAIN wire = 1 .. Len(wire) /\ DOMAIN text = 1 .. Len(wire)
      /\ text = [n \in 1 .. Len(wire) |-> text[n]]
  BY LenProperties
<1>2. DecodeUri(wire) = [n \in DOMAIN wire |-> DecodedChar(wire[n])]
  BY DEF DecodeUri, DecodedChar
<1> QED
  BY <1>1, <1>2

LEMMA DecodedNone == DecodeUri(<<>>) = <<>>
<1>1. <<>> \in Seq(Char) /\ Len(<<>>) = 0 /\ 1 .. 0 = {}
  OBVIOUS
<1> QED
  BY <1>1, DecodedIs

LEMMA DecodedOne ==
  ASSUME NEW a \in Char, NEW d \in Char,
         DecodedChar(a) = d
  PROVE  DecodeUri(<<a>>) = <<d>>
<1>0. <<a>> \in Seq(Char) /\ <<d>> \in Seq(Char)
  BY CharSeqs
<1>1. PICK w \in Seq(Char), t \in Seq(Char) : w = <<a>> /\ t = <<d>>
  BY <1>0, Zenon
<1>2. /\ w \in Seq(Char) /\ t \in Seq(Char) /\ Len(w) = 1 /\ Len(t) = 1
      /\ w[1] = a /\ t[1] = d
  BY <1>1
<1>3. \A n \in 1 .. Len(w) : t[n] = DecodedChar(w[n])
  BY <1>2
<1> QED
  BY <1>1, <1>2, <1>3, DecodedIs

LEMMA DecodedTwo ==
  ASSUME NEW a \in Char, NEW b \in Char, NEW d \in Char, NEW e \in Char,
         DecodedChar(a) = d, DecodedChar(b) = e
  PROVE  DecodeUri(<<a, b>>) = <<d, e>>
<1>0. <<a, b>> \in Seq(Char) /\ <<d, e>> \in Seq(Char)
  BY CharSeqs
<1>1. PICK w \in Seq(Char), t \in Seq(Char) : w = <<a, b>> /\ t = <<d, e>>
  BY <1>0, Zenon
<1>2. /\ w \in Seq(Char) /\ t \in Seq(Char) /\ Len(w) = 2 /\ Len(t) = 2
      /\ w[1] = a /\ t[1] = d /\ w[2] = b /\ t[2] = e
  BY <1>1
<1>3. \A n \in 1 .. Len(w) : t[n] = DecodedChar(w[n])
  BY <1>2
<1> QED
  BY <1>1, <1>2, <1>3, DecodedIs

LEMMA DecodedThree ==
  ASSUME NEW a \in Char, NEW b \in Char, NEW c \in Char, NEW d \in Char, NEW e \in Char, NEW f \in Char,
         DecodedChar(a) = d, DecodedChar(b) = e, DecodedChar(c) = f
  PROVE  DecodeUri(<<a, b, c>>) = <<d, e, f>>
<1>0. <<a, b, c>> \in Seq(Char) /\ <<d, e, f>> \in Seq(Char)
  BY CharSeqs
<1>1. PICK w \in Seq(Char), t \in Seq(Char) : w = <<a, b, c>> /\ t = <<d, e, f>>
  BY <1>0, Zenon
<1>2. /\ w \in Seq(Char) /\ t \in Seq(Char) /\ Len(w) = 3 /\ Len(t) = 3
      /\ w[1] = a /\ t[1] = d /\ w[2] = b /\ t[2] = e /\ w[3] = c /\ t[3] = f
  BY <1>1
<1>3. \A n \in 1 .. Len(w) : t[n] = DecodedChar(w[n])
  BY <1>2
<1> QED
  BY <1>1, <1>2, <1>3, DecodedIs

LEMMA NameOf ==
  ASSUME NEW name \in NamesSent
  PROVE  /\ name.wire \in Seq(Char) /\ name.text \in Seq(Char)
         /\ \A n \in 1 .. Len(name.wire) : name.wire[n] # "=" /\ name.wire[n] # "&"
         /\ DecodeUri(name.wire) = name.text
<1>0. {"a", "b", " ", "+", "%61"} \subseteq Char
  BY DEF Char
<1>d. /\ "a" \in Char /\ "b" \in Char /\ " " \in Char /\ "+" \in Char /\ "%61" \in Char
      /\ DecodedChar("a") = "a" /\ DecodedChar("%61") = "a" /\ DecodedChar("b") = "b"
      /\ DecodedChar("+") = " "
  BY <1>0, DecodedChars
<1>1. CASE name = Sent(<<"a">>, <<"a">>)
  <2>1. name.wire = <<"a">> /\ name.text = <<"a">>
    BY <1>1, SentFields, Zenon
  <2>2. <<"a">> \in Seq(Char) /\ Len(<<"a">>) = 1 /\ <<"a">>[1] = "a"
    BY <1>0, CharSeqs
  <2>3. DecodeUri(<<"a">>) = <<"a">>
    BY <1>d, DecodedOne, Zenon
  <2> QED
    BY <2>1, <2>2, <2>3
<1>2. CASE name = Sent(<<"a">>, <<"%61">>)
  <2>1. name.wire = <<"%61">> /\ name.text = <<"a">>
    BY <1>2, SentFields, Zenon
  <2>2. /\ <<"a">> \in Seq(Char) /\ Len(<<"a">>) = 1 /\ <<"a">>[1] = "a"
        /\ <<"%61">> \in Seq(Char) /\ Len(<<"%61">>) = 1 /\ <<"%61">>[1] = "%61"
    BY <1>0, CharSeqs
  <2>3. DecodeUri(<<"%61">>) = <<"a">>
    BY <1>d, DecodedOne, Zenon
  <2> QED
    BY <2>1, <2>2, <2>3
<1>3. CASE name = Sent(<<"b", " ">>, <<"b", "+">>)
  <2>1. name.wire = <<"b", "+">> /\ name.text = <<"b", " ">>
    BY <1>3, SentFields, Zenon
  <2>2. /\ <<"b", " ">> \in Seq(Char) /\ Len(<<"b", " ">>) = 2
        /\ <<"b", " ">>[1] = "b" /\ <<"b", " ">>[2] = " "
        /\ <<"b", "+">> \in Seq(Char) /\ Len(<<"b", "+">>) = 2
        /\ <<"b", "+">>[1] = "b" /\ <<"b", "+">>[2] = "+"
    BY <1>0, CharSeqs
  <2>3. DecodeUri(<<"b", "+">>) = <<"b", " ">>
    <3>1. PICK a \in Char, b \in Char, d \in Char, e \in Char :
             a = "b" /\ b = "+" /\ d = "b" /\ e = " "
      BY <1>d, Zenon
    <3>2. DecodedChar(a) = d /\ DecodedChar(b) = e
      BY <1>d, <3>1
    <3>3. DecodeUri(<<a, b>>) = <<d, e>>
      BY <3>2, DecodedTwo
    <3> QED
      BY <3>1, <3>3, Zenon
  <2>4. \A n \in 1 .. 2 : n = 1 \/ n = 2
    OBVIOUS
  <2>5. \A n \in 1 .. Len(name.wire) : name.wire[n] # "=" /\ name.wire[n] # "&"
    <3>1. PICK w \in Seq(Char) : w = name.wire
      BY <2>1, <2>2
    <3>2. Len(w) = 2 /\ w[1] = "b" /\ w[2] = "+"
      BY <2>1, <2>2, <3>1, Zenon
    <3> QED
      BY <2>4, <3>1, <3>2
  <2> QED
    BY <2>1, <2>2, <2>3, <2>5, Zenon
<1> QED
  BY <1>1, <1>2, <1>3, Zenon DEF NamesSent

LEMMA ValueOf ==
  ASSUME NEW value \in ValuesSent
  PROVE  /\ value.wire \in Seq(Char) /\ value.text \in Seq(Char)
         /\ \A n \in 1 .. Len(value.wire) : value.wire[n] # "&"
         /\ DecodeUri(value.wire) = value.text
<1>0. {"=", "?", "&", " ", "+", "%26", "%2B"} \subseteq Char
  BY DEF Char
<1>d. /\ "=" \in Char /\ "?" \in Char /\ " " \in Char /\ "+" \in Char /\ "&" \in Char
      /\ "%26" \in Char /\ "%2B" \in Char
      /\ DecodedChar("=") = "=" /\ DecodedChar("?") = "?" /\ DecodedChar("%26") = "&"
      /\ DecodedChar("+") = " " /\ DecodedChar("%2B") = "+"
  BY <1>0, DecodedChars
<1>1. CASE value = Sent(<<>>, <<>>)
  <2>1. value.wire = <<>> /\ value.text = <<>>
    BY <1>1, SentFields, Zenon
  <2>2. <<>> \in Seq(Char) /\ Len(<<>>) = 0
    OBVIOUS
  <2>3. DecodeUri(<<>>) = <<>>
    BY <1>d, DecodedNone, Zenon
  <2> QED
    BY <2>1, <2>2, <2>3
<1>2. CASE value = Sent(<<"=", "?">>, <<"=", "?">>)
  <2>1. value.wire = <<"=", "?">> /\ value.text = <<"=", "?">>
    BY <1>2, SentFields, Zenon
  <2>2. /\ <<"=", "?">> \in Seq(Char) /\ Len(<<"=", "?">>) = 2
        /\ <<"=", "?">>[1] = "=" /\ <<"=", "?">>[2] = "?"
    BY <1>0, CharSeqs
  <2>3. DecodeUri(<<"=", "?">>) = <<"=", "?">>
    <3>1. PICK a \in Char, b \in Char, d \in Char, e \in Char :
             a = "=" /\ b = "?" /\ d = "=" /\ e = "?"
      BY <1>d, Zenon
    <3>2. DecodedChar(a) = d /\ DecodedChar(b) = e
      BY <1>d, <3>1
    <3>3. DecodeUri(<<a, b>>) = <<d, e>>
      BY <3>2, DecodedTwo
    <3> QED
      BY <3>1, <3>3, Zenon
  <2>5. \A n \in 1 .. Len(value.wire) : value.wire[n] # "&"
    <3>1. PICK w \in Seq(Char) : w = value.wire
      BY <2>1, <2>2
    <3>2. Len(w) = 2 /\ w[1] = "=" /\ w[2] = "?"
      BY <2>1, <2>2, <3>1, Zenon
    <3> QED
      BY <3>1, <3>2
  <2> QED
    BY <2>1, <2>2, <2>3, <2>5, Zenon
<1>3. CASE value = Sent(<<"&", " ", "+">>, <<"%26", "+", "%2B">>)
  <2>1. value.wire = <<"%26", "+", "%2B">> /\ value.text = <<"&", " ", "+">>
    BY <1>3, SentFields, Zenon
  <2>2. /\ <<"%26", "+", "%2B">> \in Seq(Char) /\ Len(<<"%26", "+", "%2B">>) = 3
        /\ <<"%26", "+", "%2B">>[1] = "%26" /\ <<"%26", "+", "%2B">>[2] = "+"
        /\ <<"%26", "+", "%2B">>[3] = "%2B"
    BY <1>0, CharSeqs
  <2>3. /\ <<"&", " ", "+">> \in Seq(Char) /\ Len(<<"&", " ", "+">>) = 3
        /\ <<"&", " ", "+">>[1] = "&" /\ <<"&", " ", "+">>[2] = " "
        /\ <<"&", " ", "+">>[3] = "+"
    BY <1>0, CharSeqs
  <2>4. DecodeUri(<<"%26", "+", "%2B">>) = <<"&", " ", "+">>
    <3>1. PICK a \in Char, b \in Char, c \in Char, d \in Char, e \in Char, f \in Char :
             a = "%26" /\ b = "+" /\ c = "%2B" /\ d = "&" /\ e = " " /\ f = "+"
      BY <1>d, Zenon
    <3>2. DecodedChar(a) = d /\ DecodedChar(b) = e /\ DecodedChar(c) = f
      BY <1>d, <3>1
    <3>3. DecodeUri(<<a, b, c>>) = <<d, e, f>>
      BY <3>2, DecodedThree
    <3> QED
      BY <3>1, <3>3, Zenon
  <2>5. \A n \in 1 .. Len(value.wire) : value.wire[n] # "&"
    <3>1. PICK w \in Seq(Char) : w = value.wire
      BY <2>1, <2>2
    <3>2. Len(w) = 3 /\ w[1] = "%26" /\ w[2] = "+" /\ w[3] = "%2B"
      BY <2>1, <2>2, <3>1, Zenon
    <3> QED
      BY <3>1, <3>2
  <2> QED
    BY <2>1, <2>2, <2>3, <2>4, <2>5, Zenon
<1> QED
  BY <1>1, <1>2, <1>3, Zenon DEF ValuesSent

Param == [name : NamesSent, value : ValuesSent]
Pair(x) == x.name.wire \o <<"=">> \o x.value.wire

LEMMA WireType ==
  ASSUME NEW params \in ParamsSent
  PROVE  /\ Wire(params) \in Seq(Char)
         /\ params = <<>> => Wire(params) = <<>>
<1> DEFINE pair(p) == p.name.wire \o <<"=">> \o p.value.wire
           seqs == [n \in DOMAIN params |->
                      (IF n = 1 THEN <<>> ELSE <<"&">>) \o pair(params[n])]
<1>0. /\ <<>> \in Seq(Char) /\ <<"&">> \in Seq(Char) /\ <<"=">> \in Seq(Char)
  BY CharSeqs DEF Char
<1>1. PICK m \in Nat : params \in [1 .. m -> Param]
  BY DEF ParamsSent, SeqOf, Param
<1>2. ASSUME NEW p \in Param  PROVE pair(p) \in Seq(Char)
  <2>1. p.name.wire \in Seq(Char)
    BY NameOf DEF Param
  <2>2. p.value.wire \in Seq(Char)
    BY ValueOf DEF Param
  <2>3. p.name.wire \o <<"=">> \in Seq(Char)
    BY <1>0, <2>1, ConcatProperties
  <2> QED
    BY <2>2, <2>3, ConcatProperties
<1>3. ASSUME NEW n \in 1 .. m  PROVE seqs[n] \in Seq(Char)
  <2>1. params[n] \in Param
    BY <1>1
  <2>2. PICK start \in Seq(Char) : start = (IF n = 1 THEN <<>> ELSE <<"&">>)
    BY <1>0
  <2>3. PICK rest \in Seq(Char) : rest = pair(params[n])
    BY <1>2, <2>1
  <2>4. seqs[n] = start \o rest
    <3>1. n \in DOMAIN params
      BY <1>1
    <3> HIDE DEF pair
    <3> QED
      BY <2>2, <2>3, <3>1
  <2> HIDE DEF seqs
  <2> QED
    BY <2>4, ConcatProperties
<1>4. seqs \in Seq(Seq(Char))
  <2>1. DOMAIN seqs = 1 .. m /\ seqs = [n \in 1 .. m |-> seqs[n]]
    BY <1>1
  <2> HIDE DEF seqs
  <2> QED
    BY <1>3, <2>1
<1>5. params = <<>> => seqs = <<>>
  <2>1. ASSUME params = <<>>  PROVE DOMAIN seqs = {}
    BY <2>1
  <2> HIDE DEF seqs
  <2> QED
    BY <1>4, <2>1, EmptySeq
<1>6. Wire(params) = FlattenSeq(seqs)
  BY Zenon DEF Wire
<1> HIDE DEF seqs
<1> QED
  BY <1>4, <1>5, <1>6, FlattenType

LEMMA PathOf ==
  ASSUME NEW p \in PathsSent
  PROVE  /\ p.wire \in Seq(Char) /\ p.text \in Seq(Char)
         /\ Len(p.text) = Len(p.wire)
         /\ \A n \in 1 .. Len(p.wire) :
               /\ p.text[n] = IF p.wire[n] = "%20" THEN " " ELSE p.wire[n]
               /\ p.wire[n] \in {"/", "a", "b", "%20"}
<1>0. {"/", "a", "b", " ", "%20"} \subseteq Char
  BY DEF Char
<1>1. CASE p = Sent(<<"/", "a">>, <<"/", "a">>)
  <2>1. p.text = <<"/", "a">> /\ p.wire = <<"/", "a">>
    BY <1>1, SentFields, Zenon
  <2>2. PICK text, wire : text = p.text /\ wire = p.wire
    OBVIOUS
  <2>3. /\ text \in Seq(Char) /\ Len(text) = 2
        /\ text[1] = "/" /\ text[2] = "a"
    <3>1. text = <<"/", "a">>
      BY <2>1, <2>2, Zenon
    <3> QED
      BY <1>0, <3>1, CharSeqs
  <2>4. /\ wire \in Seq(Char) /\ Len(wire) = 2
        /\ wire[1] = "/" /\ wire[2] = "a"
    <3>1. wire = <<"/", "a">>
      BY <2>1, <2>2, Zenon
    <3> QED
      BY <1>0, <3>1, CharSeqs
  <2>5. \A n \in 1 .. Len(wire) :
          /\ text[n] = IF wire[n] = "%20" THEN " " ELSE wire[n]
          /\ wire[n] \in {"/", "a", "b", "%20"}
    <3>1. \A n \in 1 .. Len(wire) : n = 1 \/ n = 2
      BY <2>4
    <3> QED
      BY <2>3, <2>4, <3>1
  <2>6. Len(text) = Len(wire)
    BY <2>3, <2>4
  <2> QED
    BY <2>2, <2>3, <2>4, <2>5, <2>6, Zenon
<1>2. CASE p = Sent(<<"/", "a", "b">>, <<"/", "a", "b">>)
  <2>1. p.text = <<"/", "a", "b">> /\ p.wire = <<"/", "a", "b">>
    BY <1>2, SentFields, Zenon
  <2>2. PICK text, wire : text = p.text /\ wire = p.wire
    OBVIOUS
  <2>3. /\ text \in Seq(Char) /\ Len(text) = 3
        /\ text[1] = "/" /\ text[2] = "a" /\ text[3] = "b"
    <3>1. text = <<"/", "a", "b">>
      BY <2>1, <2>2, Zenon
    <3> QED
      BY <1>0, <3>1, CharSeqs
  <2>4. /\ wire \in Seq(Char) /\ Len(wire) = 3
        /\ wire[1] = "/" /\ wire[2] = "a" /\ wire[3] = "b"
    <3>1. wire = <<"/", "a", "b">>
      BY <2>1, <2>2, Zenon
    <3> QED
      BY <1>0, <3>1, CharSeqs
  <2>5. \A n \in 1 .. Len(wire) :
          /\ text[n] = IF wire[n] = "%20" THEN " " ELSE wire[n]
          /\ wire[n] \in {"/", "a", "b", "%20"}
    <3>1. \A n \in 1 .. Len(wire) : n = 1 \/ n = 2 \/ n = 3
      BY <2>4
    <3> QED
      BY <2>3, <2>4, <3>1
  <2>6. Len(text) = Len(wire)
    BY <2>3, <2>4
  <2> QED
    BY <2>2, <2>3, <2>4, <2>5, <2>6, Zenon
<1>3. CASE p = Sent(<<"/", "a", "/", " ">>, <<"/", "a", "/", "%20">>)
  <2>1. p.text = <<"/", "a", "/", " ">> /\ p.wire = <<"/", "a", "/", "%20">>
    BY <1>3, SentFields, Zenon
  <2>2. PICK text, wire : text = p.text /\ wire = p.wire
    OBVIOUS
  <2>3. /\ text \in Seq(Char) /\ Len(text) = 4
        /\ text[1] = "/" /\ text[2] = "a" /\ text[3] = "/" /\ text[4] = " "
    <3>1. text = <<"/", "a", "/", " ">>
      BY <2>1, <2>2, Zenon
    <3> QED
      BY <1>0, <3>1, CharSeqs
  <2>4. /\ wire \in Seq(Char) /\ Len(wire) = 4
        /\ wire[1] = "/" /\ wire[2] = "a" /\ wire[3] = "/" /\ wire[4] = "%20"
    <3>1. wire = <<"/", "a", "/", "%20">>
      BY <2>1, <2>2, Zenon
    <3> QED
      BY <1>0, <3>1, CharSeqs
  <2>5. \A n \in 1 .. Len(wire) :
          /\ text[n] = IF wire[n] = "%20" THEN " " ELSE wire[n]
          /\ wire[n] \in {"/", "a", "b", "%20"}
    <3>1. \A n \in 1 .. Len(wire) : n = 1 \/ n = 2 \/ n = 3 \/ n = 4
      BY <2>4
    <3> QED
      BY <2>3, <2>4, <3>1
  <2>6. Len(text) = Len(wire)
    BY <2>3, <2>4
  <2> QED
    BY <2>2, <2>3, <2>4, <2>5, <2>6, Zenon
<1>4. CASE p = Sent(<<"b">>, <<"b">>)
  <2>1. p.text = <<"b">> /\ p.wire = <<"b">>
    BY <1>4, SentFields, Zenon
  <2>2. PICK text, wire : text = p.text /\ wire = p.wire
    OBVIOUS
  <2>3. /\ text \in Seq(Char) /\ Len(text) = 1
        /\ text[1] = "b"
    <3>1. text = <<"b">>
      BY <2>1, <2>2, Zenon
    <3> QED
      BY <1>0, <3>1, CharSeqs
  <2>4. /\ wire \in Seq(Char) /\ Len(wire) = 1
        /\ wire[1] = "b"
    <3>1. wire = <<"b">>
      BY <2>1, <2>2, Zenon
    <3> QED
      BY <1>0, <3>1, CharSeqs
  <2>5. \A n \in 1 .. Len(wire) :
          /\ text[n] = IF wire[n] = "%20" THEN " " ELSE wire[n]
          /\ wire[n] \in {"/", "a", "b", "%20"}
    <3>1. \A n \in 1 .. Len(wire) : n = 1
      BY <2>4
    <3> QED
      BY <2>3, <2>4, <3>1
  <2>6. Len(text) = Len(wire)
    BY <2>3, <2>4
  <2> QED
    BY <2>2, <2>3, <2>4, <2>5, <2>6, Zenon
<1> QED
  BY <1>1, <1>2, <1>3, <1>4, Zenon DEF PathsSent

LEMMA RouteOf ==
  ASSUME NEW u \in RouteUris \cup {<<>>}
  PROVE  u \in Seq(Char) /\ \A n \in 1 .. Len(u) : u[n] \in {"/", "a"}
<1>0. {"/", "a"} \subseteq Char
  BY DEF Char
<1>1. CASE u = <<"/", "a">>
  BY <1>0, <1>1, CharSeqs
<1>2. CASE u = <<"/", "a", "/">>
  BY <1>0, <1>2, CharSeqs
<1>3. CASE u = <<>>
  BY <1>3, CharSeqs
<1> QED
  BY <1>1, <1>2, <1>3 DEF RouteUris

\* strsep, with and without a separator.
LEMMA StrsepFound ==
  ASSUME NEW s \in Seq(Char), NEW c, NEW l \in Nat, l < Len(s), s[l + 1] = c,
         \A n \in 1 .. l : s[n] # c
  PROVE  /\ Before(s, c) = SubSeq(s, 1, l)
         /\ After(s, c) = SubSeq(s, l + 2, Len(s))
<1> DEFINE I == {n \in 1 .. Len(s) : s[n] = c}
<1>1. Len(s) \in Nat /\ DOMAIN s = 1 .. Len(s)
  BY LenProperties
<1>2. l + 1 \in I /\ \A n \in I : l + 1 <= n
  BY <1>1
<1>3. Min(I) = l + 1
  BY <1>1, <1>2 DEF Min
<1>4. c \in ToSet(s)
  BY <1>1, <1>2 DEF ToSet
<1>5. SelectInSeq(s, LAMBDA x : x = c) = l + 1
  BY <1>2, <1>3, Zenon DEF SelectInSeq
<1>6. (l + 1) - 1 = l /\ (l + 1) + 1 = l + 2
  OBVIOUS
<1> QED
  BY <1>4, <1>5, <1>6, Zenon DEF Before, After

LEMMA StrsepNone ==
  ASSUME NEW s \in Seq(Char), NEW c, \A n \in 1 .. Len(s) : s[n] # c
  PROVE  Before(s, c) = s /\ After(s, c) = <<>>
<1>1. c \notin ToSet(s)
  BY LenProperties DEF ToSet
<1> QED
  BY <1>1, Zenon DEF Before, After

\* A query, after its question mark.
Follows(tail, q) ==
    \/ tail = <<>> /\ q = <<>>
    \/ /\ Len(tail) = Len(q) + 1 /\ tail[1] = "?"
       /\ \A n \in 1 .. Len(q) : tail[n + 1] = q[n]

-----------------------------------------------------------------------------
(* Dispatch: the path and the query come apart again *)

LEMMA SliceOf ==
  ASSUME NEW s \in Seq(Char), NEW a \in Nat, NEW d \in Nat, a + d <= Len(s)
  PROVE  /\ SubSeq(s, a + 1, a + d) \in Seq(Char)
         /\ Len(SubSeq(s, a + 1, a + d)) = d
         /\ \A n \in 1 .. d : SubSeq(s, a + 1, a + d)[n] = s[a + n]
<1> PICK x \in Int : x = a + 1
  OBVIOUS
<1> PICK y \in Int : y = a + d
  OBVIOUS
<1>1. PICK sub : sub = SubSeq(s, x, y)
  OBVIOUS
<1>2. \A n \in x .. y : s[n] \in Char
  BY <1>1, ElementOfSeq, LenProperties
<1>3. /\ sub \in Seq(Char)
      /\ Len(sub) = IF x <= y THEN y - x + 1 ELSE 0
      /\ \A n \in 1 .. y - x + 1 : sub[n] = s[x + n - 1]
  BY <1>1, <1>2, SubSeqProperties
<1>4. y - x + 1 = d /\ (IF x <= y THEN y - x + 1 ELSE 0) = d
  BY <1>1
<1>5. \A n \in 1 .. d : x + n - 1 = a + n
  BY <1>1
<1> QED
  BY <1>1, <1>3, <1>4, <1>5

\* A route that is a prefix of the URI is one of the path.
LEMMA PrefixOf ==
  ASSUME NEW w \in Seq(Char), NEW tail \in Seq(Char), NEW q \in Seq(Char),
         NEW u \in Seq(Char), Follows(tail, q), IsPrefix(u, w \o tail),
         \A n \in 1 .. Len(u) : u[n] # "?"
  PROVE  Len(u) <= Len(w) /\ \A n \in 1 .. Len(u) : u[n] = w[n]
<1>1. PICK k \in Nat, l \in Nat, m \in Nat : k = Len(u) /\ l = Len(w) /\ m = Len(tail)
  BY LenProperties
<1>2. PICK uri \in Seq(Char) : uri = w \o tail
  BY JoinOf
<1>3. /\ Len(uri) = l + m /\ \A n \in 1 .. l : uri[n] = w[n]
      /\ \A x \in 1 .. m : uri[l + x] = tail[x]
  BY <1>1, <1>2, JoinOf
<1>4. k <= l + m /\ SubSeq(u, 1, k) = SubSeq(uri, 1, k)
  BY <1>1, <1>2, <1>3 DEF IsPrefix
<1>5. \A n \in 1 .. k : u[n] = uri[n]
  <2>1. \A n \in 1 .. k : SubSeq(uri, 0 + 1, 0 + k)[n] = uri[0 + n]
    BY <1>3, <1>4, SliceOf
  <2>2. \A n \in 1 .. k : SubSeq(uri, 1, k)[n] = uri[n]
    BY <2>1
  <2>3. SubSeq(u, 1, k) = u
    BY <1>1, SubSeqFull
  <2> QED
    BY <1>4, <2>2, <2>3
<1>6. k <= l
  <2>1. SUFFICES ASSUME k > l  PROVE FALSE
    OBVIOUS
  <2>2. m > 0 /\ l + 1 \in 1 .. k /\ 1 \in 1 .. m
    BY <1>4, <2>1
  <2>3. tail[1] = "?"
    BY <1>1, <2>2, EmptySeq DEF Follows
  <2>4. u[l + 1] = tail[1]
    BY <1>3, <1>5, <2>2
  <2> QED
    BY <1>1, <2>2, <2>3, <2>4
<1>7. ASSUME NEW n \in 1 .. k  PROVE u[n] = w[n]
  <2>1. n \in 1 .. l
    BY <1>6
  <2> QED
    BY <1>3, <1>5, <2>1
<1> QED
  BY <1>1, <1>6, <1>7

\* What is left of w \o tail, and of w, without the first k elements.
RestOf(w, tail, k) ==
    /\ SubSeq(w, k + 1, Len(w)) \in Seq(Char)
    /\ SubSeq(w \o tail, k + 1, Len(w \o tail)) = SubSeq(w, k + 1, Len(w)) \o tail
    /\ Len(w) = k + Len(SubSeq(w, k + 1, Len(w)))
    /\ \A n \in 1 .. Len(SubSeq(w, k + 1, Len(w))) :
          SubSeq(w, k + 1, Len(w))[n] = w[k + n]

\* Without its first k elements, a concatenation is one.
LEMMA RestConcat ==
  ASSUME NEW w \in Seq(Char), NEW tail \in Seq(Char), NEW k \in Nat, k <= Len(w)
  PROVE  RestOf(w, tail, k)
<1>1. PICK l \in Nat, m \in Nat : l = Len(w) /\ m = Len(tail)
  BY LenProperties
<1>2. PICK d \in Nat : l = k + d
  <2>1. l - k \in Nat /\ l = k + (l - k)
    BY <1>1
  <2> QED
    BY <2>1
<1>3. PICK path : path = SubSeq(w, k + 1, k + d)
  OBVIOUS
<1>4. path \in Seq(Char) /\ Len(path) = d /\ \A n \in 1 .. d : path[n] = w[k + n]
  <2>1. k + d <= Len(w)
    BY <1>1, <1>2
  <2> QED
    BY <1>3, <2>1, SliceOf
<1>5. PICK uri \in Seq(Char) : uri = w \o tail
  BY JoinOf
<1>6. /\ Len(uri) = l + m /\ \A n \in 1 .. l : uri[n] = w[n]
      /\ \A x \in 1 .. m : uri[l + x] = tail[x]
  BY <1>1, <1>5, JoinOf
<1>7. PICK c \in Nat : c = d + m
  OBVIOUS
<1>8. PICK rst : rst = SubSeq(uri, k + 1, k + c)
  OBVIOUS
<1>9. rst \in Seq(Char) /\ Len(rst) = c /\ \A n \in 1 .. c : rst[n] = uri[k + n]
  <2>1. k + c <= Len(uri)
    BY <1>2, <1>6, <1>7
  <2>2. /\ SubSeq(uri, k + 1, k + c) \in Seq(Char)
        /\ Len(SubSeq(uri, k + 1, k + c)) = c
        /\ \A n \in 1 .. c : SubSeq(uri, k + 1, k + c)[n] = uri[k + n]
    BY <1>5, <1>7, <2>1, SliceOf, Zenon
  <2> QED
    BY <1>8, <2>2, Zenon
<1>10. PICK both \in Seq(Char) : both = path \o tail
  BY <1>4, JoinOf
<1>11. /\ Len(both) = d + m /\ \A n \in 1 .. d : both[n] = path[n]
       /\ \A x \in 1 .. m : both[d + x] = tail[x]
  <2>1. /\ Len(both) = Len(path) + Len(tail) /\ \A n \in 1 .. Len(path) : both[n] = path[n]
        /\ \A x \in 1 .. Len(tail) : both[Len(path) + x] = tail[x]
    <3>1. path \in Seq(Char)
      BY <1>4
    <3> QED
      BY <1>10, <3>1, JoinOf
  <2> QED
    BY <1>1, <1>4, <2>1, Zenon
<1>12. ASSUME NEW n \in 1 .. c  PROVE rst[n] = both[n]
  <2>1. CASE n <= d
    <3>1. n \in 1 .. d /\ k + n \in 1 .. l
      BY <1>2, <2>1
    <3> QED
      BY <1>4, <1>6, <1>9, <1>11, <3>1
  <2>2. CASE ~(n <= d)
    <3>1. PICK x \in 1 .. m : n = d + x
      <4>1. n - d \in 1 .. m /\ n = d + (n - d)
        BY <1>7, <2>2
      <4> QED
        BY <4>1
    <3>2. k + n = l + x
      BY <1>2, <3>1
    <3> QED
      BY <1>6, <1>9, <1>11, <3>1, <3>2
  <2> QED
    BY <2>1, <2>2
<1>13. rst = both
  <2>1. Len(rst) = Len(both)
    BY <1>7, <1>9, <1>11
  <2> QED
    BY <1>9, <1>12, <2>1, SeqEqual
<1>14. k + c = Len(uri)
  BY <1>2, <1>6, <1>7
<1> QED
  BY <1>1, <1>2, <1>3, <1>4, <1>5, <1>8, <1>10, <1>13, <1>14, Zenon DEF RestOf

\* strsep takes the query off a path.
LEMMA QueryOf ==
  ASSUME NEW path \in Seq(Char), NEW tail \in Seq(Char), NEW q \in Seq(Char),
         Follows(tail, q), \A k \in 1 .. Len(path) : path[k] # "?"
  PROVE  /\ Before(path \o tail, "?") = path
         /\ After(path \o tail, "?") = q
<1>1. PICK d \in Nat, m \in Nat, n \in Nat : d = Len(path) /\ m = Len(tail) /\ n = Len(q)
  BY LenProperties
<1>2. PICK rst \in Seq(Char) : rst = path \o tail
  BY JoinOf
<1>3. /\ Len(rst) = d + m /\ \A k \in 1 .. d : rst[k] = path[k]
      /\ \A x \in 1 .. m : rst[d + x] = tail[x]
  BY <1>1, <1>2, JoinOf
<1>4. CASE tail = <<>> /\ q = <<>>
  <2>1. Len(rst) = d
    BY <1>1, <1>3, <1>4
  <2>2. rst = path
    BY <1>1, <1>3, <2>1, SeqEqual
  <2> QED
    BY <1>2, <1>4, <2>2, StrsepNone
<1>5. CASE ~(tail = <<>> /\ q = <<>>)
  <2>1. m = n + 1 /\ tail[1] = "?" /\ \A x \in 1 .. n : tail[x + 1] = q[x]
    BY <1>1, <1>5 DEF Follows
  <2>2. 1 \in 1 .. m /\ d < d + m
    BY <2>1
  <2>3. rst[d + 1] = "?" /\ d < Len(rst)
    BY <1>3, <2>1, <2>2
  <2>4. \A k \in 1 .. d : rst[k] # "?"
    BY <1>1, <1>3
  <2>5. /\ Before(rst, "?") = SubSeq(rst, 1, d)
        /\ After(rst, "?") = SubSeq(rst, d + 2, Len(rst))
    BY <2>3, <2>4, StrsepFound
  <2>6. SubSeq(rst, 1, d) = path
    <3> PICK o \in Nat : o = 0
      OBVIOUS
    <3>1. PICK sub : sub = SubSeq(rst, o + 1, o + d)
      OBVIOUS
    <3>2. sub \in Seq(Char) /\ Len(sub) = d /\ \A k \in 1 .. d : sub[k] = rst[o + k]
      <4>1. o + d <= Len(rst)
        BY <1>3, <3>1
      <4> QED
        BY <3>1, <4>1, SliceOf
    <3>3. \A k \in 1 .. d : sub[k] = path[k]
      BY <1>3, <3>1, <3>2
    <3>4. sub = path
      BY <1>1, <3>2, <3>3, SeqEqual
    <3> QED
      BY <3>1, <3>4
  <2>7. SubSeq(rst, d + 2, Len(rst)) = q
    <3>1. PICK e \in Nat : e = d + 1
      OBVIOUS
    <3>2. e + n = Len(rst) /\ e + 1 = d + 2
      BY <1>3, <2>1, <3>1
    <3>3. PICK sub : sub = SubSeq(rst, e + 1, e + n)
      OBVIOUS
    <3>4. sub \in Seq(Char) /\ Len(sub) = n /\ \A k \in 1 .. n : sub[k] = rst[e + k]
      <4>1. e + n <= Len(rst)
        BY <3>2
      <4> QED
        BY <3>3, <4>1, SliceOf
    <3>5. ASSUME NEW k \in 1 .. n  PROVE sub[k] = q[k]
      <4>1. k + 1 \in 1 .. m /\ d + (k + 1) = e + k
        BY <2>1, <3>1
      <4> QED
        BY <1>3, <2>1, <3>4, <4>1
    <3>6. sub = q
      BY <1>1, <3>4, <3>5, SeqEqual
    <3> QED
      BY <3>2, <3>3, <3>6
  <2> QED
    BY <1>2, <2>5, <2>6, <2>7
<1> QED
  BY <1>4, <1>5

\* The route and what decode_uri makes of the rest are the path that was meant.
LEMMA PathComesBack ==
  ASSUME NEW p \in PathsSent,
         NEW u \in Seq(Char), \A n \in 1 .. Len(u) : u[n] \in {"/", "a"},
         \A n \in 1 .. Len(u) : u[n] = p.wire[n],
         NEW path \in Seq(Char), Len(p.wire) = Len(u) + Len(path),
         \A n \in 1 .. Len(path) : path[n] = p.wire[Len(u) + n]
  PROVE  u \o DecodeUri(path) = p.text
<1>1. PICK wire \in Seq(Char), text \in Seq(Char) : wire = p.wire /\ text = p.text
  BY PathOf
<1>2. /\ Len(text) = Len(wire)
      /\ \A n \in 1 .. Len(wire) :
            /\ text[n] = IF wire[n] = "%20" THEN " " ELSE wire[n]
            /\ wire[n] \in {"/", "a", "b", "%20"}
  BY <1>1, PathOf
<1>3. PICK k \in Nat, d \in Nat : k = Len(u) /\ d = Len(path)
  BY LenProperties
<1>4. ASSUME NEW n \in 1 .. d
      PROVE  /\ path[n] \in {"/", "a", "b", "%20"} /\ k + n \in 1 .. Len(wire)
             /\ path[n] = wire[k + n]
             /\ text[k + n] = IF path[n] = "%20" THEN " " ELSE path[n]
  <2>1. k + n \in 1 .. Len(wire) /\ path[n] = wire[k + n]
    BY <1>1, <1>3
  <2> QED
    BY <1>2, <2>1
<1>5. PICK rest : rest = DecodeUri(path)
  OBVIOUS
<1>6. /\ DOMAIN rest = 1 .. d /\ rest = [n \in 1 .. d |-> rest[n]]
      /\ \A n \in 1 .. d : rest[n] = IF path[n] \in DOMAIN Decoded
                                  THEN Decoded[path[n]] ELSE path[n]
  BY <1>3, <1>5, LenProperties DEF DecodeUri
<1>7. /\ "%20" \in DOMAIN Decoded /\ Decoded["%20"] = " "
      /\ \A c \in {"/", "a", "b"} : c \notin DOMAIN Decoded
  BY DEF Decoded
<1>8. ASSUME NEW n \in 1 .. d  PROVE rest[n] = text[k + n] /\ rest[n] \in Char
  <2>1. rest[n] = IF path[n] \in DOMAIN Decoded
                  THEN Decoded[path[n]] ELSE path[n]
    BY <1>6
  <2>2. path[n] \in {"/", "a", "b", "%20"}
    BY <1>4
  <2>3. rest[n] = IF path[n] = "%20" THEN " " ELSE path[n]
    BY <1>7, <2>1, <2>2
  <2>4. rest[n] = text[k + n] /\ k + n \in 1 .. Len(text)
    BY <1>2, <1>4, <2>3
  <2> QED
    BY <2>4, ElementOfSeq
<1>9. rest \in Seq(Char) /\ Len(rest) = d
  <2>1. rest \in [1 .. d -> Char]
    BY <1>6, <1>8
  <2> QED
    BY <1>6, <2>1
<1>10. PICK both \in Seq(Char) : both = u \o rest
  BY <1>9, JoinOf
<1>11. /\ Len(both) = k + d /\ \A n \in 1 .. k : both[n] = u[n]
       /\ \A m \in 1 .. d : both[k + m] = rest[m]
  <2>1. /\ Len(both) = Len(u) + Len(rest) /\ \A n \in 1 .. Len(u) : both[n] = u[n]
        /\ \A m \in 1 .. Len(rest) : both[Len(u) + m] = rest[m]
    <3>1. rest \in Seq(Char)
      BY <1>9
    <3> QED
      BY <1>10, <3>1, JoinOf
  <2> QED
    BY <1>3, <1>9, <2>1, Zenon
<1>12. Len(text) = k + d
  BY <1>1, <1>2, <1>3
<1>13. ASSUME NEW n \in 1 .. k + d  PROVE both[n] = text[n]
  <2>1. CASE n <= k
    <3>1. n \in 1 .. k /\ n \in 1 .. Len(wire)
      BY <1>1, <1>3, <2>1
    <3>2. wire[n] = u[n] /\ wire[n] \in {"/", "a"}
      BY <1>1, <1>3, <3>1
    <3>3. text[n] = wire[n]
      BY <1>2, <3>1, <3>2
    <3> QED
      BY <1>11, <3>1, <3>2, <3>3
  <2>2. CASE ~(n <= k)
    <3>1. PICK m \in 1 .. d : n = k + m
      <4>1. n - k \in 1 .. d /\ n = k + (n - k)
        BY <2>2
      <4> QED
        BY <4>1
    <3> QED
      BY <1>8, <1>11, <3>1
  <2> QED
    BY <2>1, <2>2
<1>14. both = text
  BY <1>11, <1>12, <1>13, SeqEqual
<1> QED
  BY <1>1, <1>5, <1>10, <1>14

LEMMA RequestParts ==
  ASSUME NEW r \in RequestsSent
  PROVE  /\ r.path \in PathsSent /\ r # NoRequest
         /\ \E tail \in Seq(Char), q \in Seq(Char) :
               /\ Uri(r) = r.path.wire \o tail
               /\ q = Wire(r.query) /\ Follows(tail, q)
<1>1. /\ r.path \in PathsSent /\ r.query \in ParamsSent
      /\ r.cmd \in {"GET", "POST", "OPTIONS", "GIT"} /\ r.hasQuery \in BOOLEAN
      /\ ~r.hasQuery => r.query = <<>>
  BY DEF RequestsSent, AnyRequest
<1>2. r # NoRequest
  <2>1. ASSUME r = NoRequest  PROVE FALSE
    <3>1. r.cmd = "none"
      BY <2>1 DEF NoRequest
    <3> QED
      BY <1>1, <3>1
  <2> QED
    BY <2>1
<1>3. PICK q \in Seq(Char) :
         q = Wire(r.query) /\ (r.query = <<>> => q = <<>>)
  BY <1>1, WireType
<1>4. CASE r.hasQuery
  <2>1. PICK mark \in Seq(Char) : mark = <<"?">>
    <3>1. "?" \in Char
      BY DEF Char
    <3> QED
      BY <3>1, CharSeqs
  <2>2. Len(mark) = 1 /\ mark[1] = "?"
    BY <2>1
  <2>3. PICK tail \in Seq(Char) : tail = mark \o q
    BY JoinOf
  <2>4. /\ Len(tail) = 1 + Len(q) /\ Len(q) \in Nat /\ tail[1] = mark[1]
        /\ \A m \in 1 .. Len(q) : tail[1 + m] = q[m]
    <3>1. /\ Len(tail) = Len(mark) + Len(q) /\ Len(q) \in Nat
          /\ \A n \in 1 .. Len(mark) : tail[n] = mark[n]
          /\ \A m \in 1 .. Len(q) : tail[Len(mark) + m] = q[m]
      BY <2>3, JoinOf
    <3> QED
      BY <2>2, <3>1
  <2>5. Follows(tail, q)
    BY <2>2, <2>4 DEF Follows
  <2>6. Uri(r) = r.path.wire \o tail
    BY <1>3, <1>4, <2>1, <2>3, Zenon DEF Uri
  <2> QED
    BY <1>1, <1>2, <1>3, <2>5, <2>6
<1>5. CASE ~r.hasQuery
  <2>1. q = <<>> /\ Follows(<<>>, q) /\ <<>> \in Seq(Char)
    BY <1>1, <1>3, <1>5 DEF Follows
  <2>2. Uri(r) = r.path.wire \o <<>>
    BY <1>5, Zenon DEF Uri
  <2> QED
    BY <1>1, <1>2, <1>3, <2>1, <2>2
<1> QED
  BY <1>4, <1>5

-----------------------------------------------------------------------------
(* Dispatch: the parameters come apart again *)

\* strsep takes a piece apart into key and value.
LEMMA PairOf ==
  ASSUME NEW x \in Param
  PROVE  /\ Pair(x) \in Seq(Char) /\ Len(Pair(x)) \in Nat /\ Len(Pair(x)) >= 1
         /\ \A n \in 1 .. Len(Pair(x)) : Pair(x)[n] # "&"
         /\ DecodeUri(Before(Pair(x), "=")) = x.name.text
         /\ DecodeUri(After(Pair(x), "=")) = x.value.text
         /\ x.name.text \in Seq(Char) /\ x.value.text \in Seq(Char)
<1>1. PICK name \in Seq(Char), value \in Seq(Char), k \in Nat, v \in Nat :
         /\ name = x.name.wire /\ value = x.value.wire
         /\ k = Len(name) /\ v = Len(value)
  <2>1. x.name.wire \in Seq(Char) /\ x.value.wire \in Seq(Char)
    BY NameOf, ValueOf DEF Param
  <2> QED
    BY <2>1, LenProperties
<1>n. k \in Nat /\ v \in Nat
  BY <1>1
<1>2. /\ name \in Seq(Char) /\ value \in Seq(Char) /\ <<"=">> \in Seq(Char)
      /\ Len(<<"=">>) = 1 /\ <<"=">>[1] = "="
  <2>1. "=" \in Char
    BY DEF Char
  <2> QED
    BY <1>1, <2>1, CharSeqs
<1>3. PICK start \in Seq(Char) : start = name \o <<"=">>
  BY <1>2, JoinOf
<1>4. start \in Seq(Char)
  BY <1>3
<1>5. /\ Len(start) = k + 1 /\ \A n \in 1 .. k : start[n] = name[n]
      /\ start[k + 1] = "="
  <2>1. /\ Len(name \o <<"=">>) = Len(name) + Len(<<"=">>)
        /\ \A n \in 1 .. Len(name) : (name \o <<"=">>)[n] = name[n]
        /\ \A n \in 1 .. Len(<<"=">>) : (name \o <<"=">>)[Len(name) + n] = <<"=">>[n]
    BY <1>2, JoinOf
  <2>2. 1 \in 1 .. Len(<<"=">>)
    BY <1>2
  <2> QED
    BY <1>1, <1>2, <1>3, <2>1, <2>2, Zenon
<1>6. PICK pair \in Seq(Char) : pair = start \o value
  BY <1>2, <1>4, JoinOf
<1>7. pair \in Seq(Char) /\ pair = Pair(x)
  BY <1>1, <1>3, <1>6 DEF Pair
<1>8. /\ Len(pair) = k + 1 + v
      /\ \A n \in 1 .. k + 1 : pair[n] = start[n]
      /\ \A n \in 1 .. v : pair[k + 1 + n] = value[n]
  <2>1. /\ Len(start \o value) = Len(start) + Len(value)
        /\ \A n \in 1 .. Len(start) : (start \o value)[n] = start[n]
        /\ \A n \in 1 .. Len(value) : (start \o value)[Len(start) + n] = value[n]
    BY <1>2, <1>4, JoinOf
  <2> QED
    BY <1>1, <1>5, <1>6, <2>1, Zenon
<1>l. Len(pair) = k + 1 + v
  BY <1>8
<1>9. /\ \A n \in 1 .. k : pair[n] = name[n] /\ pair[n] # "=" /\ pair[n] # "&"
      /\ pair[k + 1] = "="
      /\ \A n \in 1 .. v : pair[k + 1 + n] = value[n] /\ pair[k + 1 + n] # "&"
  <2>1. /\ \A n \in 1 .. k : name[n] # "=" /\ name[n] # "&"
        /\ \A n \in 1 .. v : value[n] # "&"
    <3>1. x.name \in NamesSent /\ x.value \in ValuesSent
      BY DEF Param
    <3> QED
      BY <1>1, <3>1, NameOf, ValueOf
  <2>2. \A n \in 1 .. k : n \in 1 .. k + 1
    BY <1>1
  <2>3. k + 1 \in 1 .. k + 1
    BY <1>1
  <2> QED
    BY <1>5, <1>8, <2>1, <2>2, <2>3
<1>10. Before(pair, "=") = SubSeq(pair, 1, k) /\ After(pair, "=") = SubSeq(pair, k + 2, Len(pair))
  <2>1. k < Len(pair) /\ k \in Nat
    BY <1>n, <1>l
  <2> QED
    BY <1>7, <1>9, <2>1, StrsepFound
<1>11. SubSeq(pair, 1, k) = name
  <2>1. PICK o \in Nat : o = 0
    OBVIOUS
  <2>2. o \in Nat /\ o + 1 = 1 /\ o + k = k /\ o + k <= Len(pair) /\ k \in Nat
    BY <1>n, <1>l, <2>1
  <2>3. /\ SubSeq(pair, o + 1, o + k) \in Seq(Char) /\ Len(SubSeq(pair, o + 1, o + k)) = k
        /\ \A n \in 1 .. k : SubSeq(pair, o + 1, o + k)[n] = pair[o + n]
    BY <1>7, <2>2, SliceOf
  <2>4. \A n \in 1 .. k : o + n = n
    BY <2>1
  <2>5. \A n \in 1 .. k : SubSeq(pair, 1, k)[n] = name[n]
    BY <1>9, <2>2, <2>3, <2>4
  <2>6. SubSeq(pair, 1, k) \in Seq(Char) /\ Len(SubSeq(pair, 1, k)) = k
    BY <2>2, <2>3
  <2> QED
    BY <1>1, <1>2, <2>5, <2>6, SeqEqual
<1>12. SubSeq(pair, k + 2, Len(pair)) = value
  <2>1. PICK o \in Nat : o = k + 1
    BY <1>1
  <2>2. o \in Nat /\ o + 1 = k + 2 /\ o + v = Len(pair) /\ o + v <= Len(pair) /\ v \in Nat
    BY <1>n, <1>l, <2>1
  <2>3. /\ SubSeq(pair, o + 1, o + v) \in Seq(Char) /\ Len(SubSeq(pair, o + 1, o + v)) = v
        /\ \A n \in 1 .. v : SubSeq(pair, o + 1, o + v)[n] = pair[o + n]
    BY <1>7, <2>2, SliceOf
  <2>4. PICK rest : rest = SubSeq(pair, k + 2, Len(pair))
    OBVIOUS
  <2>5. /\ rest \in Seq(Char) /\ Len(rest) = v
        /\ \A n \in 1 .. v : rest[n] = pair[o + n]
    BY <2>2, <2>3, <2>4, Zenon
  <2>6. \A n \in 1 .. v : pair[o + n] = value[n]
    BY <1>9, <2>1
  <2>7. \A n \in 1 .. v : rest[n] = value[n]
    BY <2>5, <2>6
  <2>8. v = Len(value)
    BY <1>1
  <2>9. rest = value
    BY <1>2, <2>5, <2>7, <2>8, SeqEqual
  <2> QED
    BY <2>4, <2>9
<1>13. \A n \in 1 .. Len(pair) : pair[n] # "&"
  <2> SUFFICES ASSUME NEW n \in 1 .. Len(pair)  PROVE pair[n] # "&"
    OBVIOUS
  <2>1. CASE n <= k
    <3>1. n \in 1 .. k
      BY <1>n, <1>l, <2>1
    <3> QED
      BY <1>9, <3>1
  <2>2. CASE n = k + 1
    BY <1>9, <2>2
  <2>3. CASE n > k + 1
    <3>1. n - (k + 1) \in 1 .. v /\ k + 1 + (n - (k + 1)) = n
      BY <1>n, <1>l, <2>3
    <3> QED
      BY <1>9, <3>1
  <2> QED
    BY <1>n, <1>l, <2>1, <2>2, <2>3
<1>14. Len(pair) \in Nat /\ Len(pair) >= 1
  BY <1>n, <1>l
<1>15. /\ DecodeUri(name) = x.name.text /\ DecodeUri(value) = x.value.text
       /\ x.name.text \in Seq(Char) /\ x.value.text \in Seq(Char)
  BY <1>1, NameOf, ValueOf DEF Param
<1> QED
  BY <1>7, <1>10, <1>11, <1>12, <1>13, <1>14, <1>15

LEMMA ParamsType ==
  ASSUME NEW params \in ParamsSent
  PROVE  params \in Seq(Param)
<1>1. PICK m \in Nat : params \in [1 .. m -> Param]
  BY DEF ParamsSent, SeqOf, Param
<1> QED
  BY <1>1

\* The values are those of k among the first n parameters.
AreFirst(values, k, params, n) ==
    /\ values \in Seq(Seq(Char))
    /\ \E which \in [1 .. Len(values) -> 1 .. n] :
        /\ \A m, o \in 1 .. Len(values) : m < o => which[m] < which[o]
        /\ \A o \in 1 .. n : params[o].name.text = k => \E m \in 1 .. Len(values) : which[m] = o
        /\ \A m \in 1 .. Len(values) :
              params[which[m]].name.text = k /\ values[m] = params[which[m]].value.text

\* The dictionary holds the first n parameters.
HoldsFirst(pydict, params, n) ==
    /\ DOMAIN pydict = {params[m].name.text : m \in 1 .. n}
    /\ \A k \in DOMAIN pydict : AreFirst(pydict[k], k, params, n)

LEMMA OneMoreValue ==
  ASSUME NEW params \in Seq(Param), NEW n \in Nat, n + 1 <= Len(params),
         NEW k, NEW values, AreFirst(values, k, params, n),
         params[n + 1].name.text = k
  PROVE  AreFirst(Append(values, params[n + 1].value.text), k, params, n + 1)
<1>1. PICK s \in Seq(Seq(Char)), l \in Nat : s = values /\ l = Len(s)
  BY LenProperties DEF AreFirst
<1>2. PICK which \in [1 .. l -> 1 .. n] :
        /\ \A m, o \in 1 .. l : m < o => which[m] < which[o]
        /\ \A o \in 1 .. n : params[o].name.text = k => \E m \in 1 .. l : which[m] = o
        /\ \A m \in 1 .. l : params[which[m]].name.text = k /\ s[m] = params[which[m]].value.text
  <2>1. AreFirst(s, k, params, n)
    BY <1>1, Zenon
  <2>2. \E which \in [1 .. Len(s) -> 1 .. n] :
          /\ \A m, o \in 1 .. Len(s) : m < o => which[m] < which[o]
          /\ \A o \in 1 .. n : params[o].name.text = k => \E m \in 1 .. Len(s) : which[m] = o
          /\ \A m \in 1 .. Len(s) :
                params[which[m]].name.text = k /\ s[m] = params[which[m]].value.text
    BY <2>1, Zenon DEF AreFirst
  <2>3. l = Len(s)
    BY <1>1, Zenon
  <2> QED
    BY <2>2, <2>3, Zenon
<1>3. PICK e \in Seq(Char) : e = params[n + 1].value.text
  <2>1. n + 1 \in 1 .. Len(params)
    BY LenProperties
  <2>2. params[n + 1] \in Param
    BY <2>1, ElementOfSeq
  <2> QED
    BY <2>2, PairOf
<1>n. s \in Seq(Seq(Char)) /\ e \in Seq(Char)
  BY <1>1, <1>3
<1>4. PICK t \in Seq(Seq(Char)) : t = Append(s, e)
  BY <1>n, AppendProperties
<1>5. /\ t \in Seq(Seq(Char)) /\ Len(t) = l + 1 /\ t[l + 1] = e /\ \A x \in 1 .. l : t[x] = s[x]
  <2>1. /\ Append(s, e) \in Seq(Seq(Char)) /\ Len(Append(s, e)) = Len(s) + 1
        /\ \A x \in 1 .. Len(s) : Append(s, e)[x] = s[x]
        /\ Append(s, e)[Len(s) + 1] = e
    BY <1>n, AppendProperties
  <2> QED
    BY <1>1, <1>4, <2>1, Zenon
<1>6. PICK w \in [1 .. l + 1 -> 1 .. n + 1] : w[l + 1] = n + 1 /\ \A x \in 1 .. l : w[x] = which[x]
  <2>1. [x \in 1 .. l + 1 |-> IF x = l + 1 THEN n + 1 ELSE which[x]] \in [1 .. l + 1 -> 1 .. n + 1]
    <3>1. n + 1 \in 1 .. n + 1
      OBVIOUS
    <3>2. ASSUME NEW x \in 1 .. l + 1, x # l + 1  PROVE which[x] \in 1 .. n + 1
      <4>1. x \in 1 .. l
        BY <1>1, <3>2
      <4>2. which[x] \in 1 .. n
        BY <1>2, <4>1
      <4> QED
        BY <4>2
    <3> QED
      BY <3>1, <3>2
  <2>2. l + 1 \in 1 .. l + 1 /\ \A x \in 1 .. l : x \in 1 .. l + 1 /\ x # l + 1
    BY <1>1
  <2> QED
    BY <2>1, <2>2
<1>7. \A m \in 1 .. l + 1 : m \in 1 .. l \/ m = l + 1
  BY <1>1
<1>8. ASSUME NEW m \in 1 .. l + 1, NEW o \in 1 .. l + 1, m < o  PROVE w[m] < w[o]
  <2>1. m \in 1 .. l
    BY <1>1, <1>8
  <2>2. w[m] = which[m] /\ which[m] \in 1 .. n
    BY <1>2, <1>6, <2>1
  <2>3. CASE o = l + 1
    BY <1>6, <2>2, <2>3
  <2>4. CASE o \in 1 .. l
    BY <1>2, <1>6, <1>8, <2>1, <2>4
  <2> QED
    BY <1>7, <2>3, <2>4
<1>9. ASSUME NEW o \in 1 .. n + 1, params[o].name.text = k
      PROVE  \E m \in 1 .. l + 1 : w[m] = o
  <2>1. CASE o = n + 1
    <3>1. l + 1 \in 1 .. l + 1
      BY <1>1
    <3> QED
      BY <1>6, <2>1, <3>1
  <2>2. CASE o # n + 1
    <3>1. o \in 1 .. n
      BY <2>2
    <3>2. PICK m \in 1 .. l : which[m] = o
      BY <1>2, <1>9, <3>1
    <3>3. m \in 1 .. l + 1
      BY <1>1, <3>2
    <3> QED
      BY <1>6, <3>2, <3>3
  <2> QED
    BY <2>1, <2>2
<1>10. ASSUME NEW m \in 1 .. l + 1
       PROVE  params[w[m]].name.text = k /\ t[m] = params[w[m]].value.text
  <2>1. CASE m = l + 1
    BY <1>3, <1>5, <1>6, <2>1
  <2>2. CASE m \in 1 .. l
    <3>1. w[m] = which[m] /\ t[m] = s[m]
      BY <1>5, <1>6, <2>2
    <3>2. params[which[m]].name.text = k /\ s[m] = params[which[m]].value.text
      BY <1>2, <2>2, Zenon
    <3> QED
      BY <3>1, <3>2, Zenon
  <2> QED
    BY <1>7, <2>1, <2>2
<1>11. AreFirst(t, k, params, n + 1)
  <2>1. t \in Seq(Seq(Char)) /\ w \in [1 .. Len(t) -> 1 .. n + 1]
    BY <1>5, <1>6
  <2>2. 1 .. l + 1 = 1 .. Len(t)
    BY <1>5
  <2>3. /\ \A m, o \in 1 .. Len(t) : m < o => w[m] < w[o]
        /\ \A o \in 1 .. n + 1 : params[o].name.text = k => \E m \in 1 .. Len(t) : w[m] = o
        /\ \A m \in 1 .. Len(t) :
              params[w[m]].name.text = k /\ t[m] = params[w[m]].value.text
    BY <1>8, <1>9, <1>10, <2>2, Zenon
  <2> QED
    BY <2>1, <2>3, Zenon DEF AreFirst
<1> QED
  BY <1>1, <1>3, <1>4, <1>11, Zenon

LEMMA DictGrows ==
  ASSUME NEW params \in Seq(Param), NEW n \in Nat, n + 1 <= Len(params),
         NEW pydict, HoldsFirst(pydict, params, n)
  PROVE  HoldsFirst(Appended(pydict, Pair(params[n + 1])), params, n + 1)
<1>1. PICK x \in Param : x = params[n + 1]
  <2>1. n + 1 \in 1 .. Len(params)
    BY LenProperties
  <2> QED
    BY <2>1, ElementOfSeq
<1>2. PICK k : k = x.name.text
  OBVIOUS
<1>3. PICK pyelem : pyelem = IF k \in DOMAIN pydict THEN pydict[k] ELSE <<>>
  OBVIOUS
<1>4. PICK new : new = [q \in DOMAIN pydict \cup {k} |->
                            IF q = k THEN Append(pyelem, x.value.text) ELSE pydict[q]]
  OBVIOUS
<1>5. Appended(pydict, Pair(params[n + 1])) = new
  <2>1. DecodeUri(Before(Pair(x), "=")) = k /\ DecodeUri(After(Pair(x), "=")) = x.value.text
    BY <1>2, PairOf
  <2> QED
    BY <1>1, <1>3, <1>4, <2>1 DEF Appended
<1>6. DOMAIN pydict = {params[m].name.text : m \in 1 .. n}
  BY DEF HoldsFirst
<1>7. DOMAIN new = {params[m].name.text : m \in 1 .. n + 1}
  <2>1. DOMAIN new = DOMAIN pydict \cup {k}
    BY <1>4
  <2>2. 1 .. n + 1 = (1 .. n) \cup {n + 1}
    OBVIOUS
  <2> QED
    BY <1>1, <1>2, <1>6, <2>1, <2>2, Zenon
<1>8. AreFirst(pyelem, k, params, n)
  <2>1. CASE k \in DOMAIN pydict
    BY <1>3, <2>1, Zenon DEF HoldsFirst
  <2>2. CASE k \notin DOMAIN pydict
    <3>1. pyelem = <<>>
      BY <1>3, <2>2
    <3>2. pyelem \in Seq(Seq(Char)) /\ Len(pyelem) = 0 /\ 1 .. 0 = {}
      BY <3>1
    <3>3. [y \in 1 .. 0 |-> y] \in [1 .. Len(pyelem) -> 1 .. n]
      BY <3>2
    <3>4. \A o \in 1 .. n : params[o].name.text # k
      BY <1>6, <2>2
    <3> QED
      BY <3>2, <3>3, <3>4 DEF AreFirst
  <2> QED
    BY <2>1, <2>2
<1>9. AreFirst(new[k], k, params, n + 1)
  <2>1. new[k] = Append(pyelem, x.value.text)
    BY <1>4
  <2> QED
    BY <1>1, <1>2, <1>8, <2>1, OneMoreValue
<1>10. ASSUME NEW q \in DOMAIN new, q # k  PROVE AreFirst(new[q], q, params, n + 1)
  <2>1. q \in DOMAIN pydict /\ new[q] = pydict[q]
    BY <1>4, <1>10
  <2>2. PICK values : values = pydict[q] /\ AreFirst(values, q, params, n)
    BY <2>1, Zenon DEF HoldsFirst
  <2>3. values \in Seq(Seq(Char)) /\ Len(values) \in Nat
    BY <2>2, LenProperties DEF AreFirst
  <2>4. PICK which \in [1 .. Len(values) -> 1 .. n] :
        /\ \A m, o \in 1 .. Len(values) : m < o => which[m] < which[o]
        /\ \A o \in 1 .. n : params[o].name.text = q => \E m \in 1 .. Len(values) : which[m] = o
        /\ \A m \in 1 .. Len(values) :
              params[which[m]].name.text = q /\ values[m] = params[which[m]].value.text
    BY <2>2, Zenon DEF AreFirst
  <2>5. which \in [1 .. Len(values) -> 1 .. n + 1]
    <3>1. \A m \in 1 .. n : m \in 1 .. n + 1
      OBVIOUS
    <3> QED
      BY <2>4, <3>1
  <2>6. \A o \in 1 .. n + 1 : params[o].name.text = q => o \in 1 .. n
    <3>1. \A o \in 1 .. n + 1 : o \in 1 .. n \/ o = n + 1
      OBVIOUS
    <3>2. params[n + 1].name.text # q
      BY <1>1, <1>2, <1>10
    <3> QED
      BY <3>1, <3>2
  <2>7. AreFirst(values, q, params, n + 1)
    BY <2>3, <2>4, <2>5, <2>6, Zenon DEF AreFirst
  <2> QED
    BY <2>1, <2>2, <2>7
<1> QED
  BY <1>5, <1>7, <1>9, <1>10, Zenon DEF HoldsFirst

\* Where in W each parameter starts.
Starts(start, W, params, N) ==
    /\ start \in [1 .. N + 1 -> Nat]
    /\ start[1] = 0 /\ start[N + 1] = Len(W) + 1
    /\ \A n \in 1 .. N :
        /\ start[n + 1] = start[n] + Len(Pair(params[n])) + 1
        /\ start[n + 1] <= Len(W) + 1
        /\ \A m \in 1 .. Len(Pair(params[n])) : W[start[n] + m] = Pair(params[n])[m]
        /\ n # N => W[start[n + 1]] = "&"

\* The separator in front of a parameter.
Separator(n) == IF n = 1 THEN <<>> ELSE <<"&">>
Gap(n) == IF n = 1 THEN 0 ELSE 1

LEMMA Separated ==
  ASSUME NEW pair \in Seq(Char), NEW n \in Nat \ {0}
  PROVE  /\ Separator(n) \o pair \in Seq(Char)
         /\ Len(Separator(n) \o pair) = Gap(n) + Len(pair)
         /\ \A m \in 1 .. Len(pair) : (Separator(n) \o pair)[Gap(n) + m] = pair[m]
         /\ n # 1 => (Separator(n) \o pair)[1] = "&"
<1>1. PICK front \in Seq(Char) : front = Separator(n)
  <2>1. "&" \in Char
    BY DEF Char
  <2>2. <<>> \in Seq(Char) /\ <<"&">> \in Seq(Char)
    BY <2>1, CharSeqs
  <2> QED
    BY <2>2 DEF Separator
<1>2. front \in Seq(Char) /\ Len(front) = Gap(n) /\ (n # 1 => Len(front) = 1 /\ front[1] = "&")
  BY <1>1 DEF Separator, Gap
<1>3. /\ front \o pair \in Seq(Char) /\ Len(front \o pair) = Len(front) + Len(pair)
      /\ \A m \in 1 .. Len(front) : (front \o pair)[m] = front[m]
      /\ \A m \in 1 .. Len(pair) : (front \o pair)[Len(front) + m] = pair[m]
  <2>1. front \in Seq(Char) /\ pair \in Seq(Char)
    BY <1>1
  <2> QED
    BY <2>1, JoinOf
<1>5. n # 1 => 1 \in 1 .. Len(front)
  BY <1>2
<1> QED
  BY <1>1, <1>2, <1>3, <1>5, Zenon

\* ConcatsFront for texts.
LEMMA TextFront ==
  ASSUME NEW seqs \in Seq(Seq(Char)), NEW l \in Nat, l = Len(seqs), NEW f, Concats(f, seqs, l)
  PROVE  \A n \in 1 .. l : /\ Len(f[n]) <= Len(f[l])
                           /\ \A m \in 1 .. Len(f[n]) : f[l][m] = f[n][m]
<1>1. ASSUME NEW n \in 1 .. l
      PROVE  /\ Len(f[n]) <= Len(f[l])
             /\ \A m \in 1 .. Len(f[n]) : f[l][m] = f[n][m]
  BY ConcatsFront
<1> QED
  BY <1>1

LEMMA WireParts ==
  ASSUME NEW params \in ParamsSent, NEW N \in Nat, N = Len(params), N # 0,
         NEW W, W = Wire(params)
  PROVE  W \in Seq(Char) /\ \E start : Starts(start, W, params, N)
<1> DEFINE seqs == [n \in DOMAIN params |->
                      Separator(n) \o Pair(params[n])]
<1>1. params \in Seq(Param) /\ DOMAIN params = 1 .. N
  <2>1. params \in Seq(Param)
    BY ParamsType
  <2> QED
    BY <2>1, LenProperties
<1>2. \A n \in 1 .. N : params[n] \in Param
  BY <1>1, ElementOfSeq
<1>3. \A n \in 1 .. N : Pair(params[n]) \in Seq(Char) /\ Len(Pair(params[n])) \in Nat
  BY <1>2, PairOf
<1>4. ASSUME NEW n \in 1 .. N
      PROVE  /\ seqs[n] \in Seq(Char) /\ Len(seqs[n]) = Gap(n) + Len(Pair(params[n]))
             /\ \A k \in 1 .. Len(Pair(params[n])) : seqs[n][Gap(n) + k] = Pair(params[n])[k]
             /\ n # 1 => seqs[n][1] = "&"
  <2>1. PICK pair \in Seq(Char) : pair = Pair(params[n])
    BY <1>3
  <2>2. seqs[n] = Separator(n) \o pair
    BY <1>1, <2>1
  <2>3. n \in Nat \ {0} /\ pair \in Seq(Char)
    BY <2>1
  <2>4. /\ Separator(n) \o pair \in Seq(Char)
        /\ Len(Separator(n) \o pair) = Gap(n) + Len(pair)
        /\ \A k \in 1 .. Len(pair) : (Separator(n) \o pair)[Gap(n) + k] = pair[k]
        /\ n # 1 => (Separator(n) \o pair)[1] = "&"
    BY <2>3, Separated, Zenon
  <2> HIDE DEF seqs
  <2> QED
    BY <2>1, <2>2, <2>4, Zenon
<1>5. seqs \in Seq(Seq(Char)) /\ Len(seqs) = N
  <2>1. DOMAIN seqs = 1 .. N /\ seqs = [n \in 1 .. N |-> seqs[n]]
    BY <1>1
  <2> HIDE DEF seqs
  <2> QED
    BY <1>4, <2>1
<1>6. W = FlattenSeq(seqs)
  BY Zenon DEF Wire, Pair, Separator
<1> HIDE DEF seqs
<1>7. PICK f : Concats(f, seqs, N) /\ W = f[N]
  BY <1>5, <1>6, FlattenIs
<1>f. \A n \in 1 .. N : Len(f[n]) <= Len(W) /\ \A k \in 1 .. Len(f[n]) : W[k] = f[n][k]
  <2>1. seqs \in Seq(Seq(Char)) /\ N = Len(seqs) /\ Concats(f, seqs, N) /\ f[N] = W
    BY <1>5, <1>7
  <2>2. \A n \in 1 .. N : /\ Len(f[n]) <= Len(f[N])
                          /\ \A m \in 1 .. Len(f[n]) : f[N][m] = f[n][m]
    BY <2>1, TextFront
  <2> QED
    BY <2>1, <2>2, Zenon
<1>8. \A n \in 1 .. N : f[n] \in Seq(Char) /\ Len(f[n]) \in Nat
  <2>1. \A n \in 1 .. N : f[n] \in Seq(Char)
    BY <1>5, <1>7, ConcatsType
  <2> QED
    BY <2>1, LenProperties
<1>9. PICK start : start = [n \in 1 .. N + 1 |-> IF n = 1 THEN 0 ELSE Len(f[n - 1]) + 1]
  OBVIOUS
<1>10. N \in 1 .. N /\ N + 1 \in 1 .. N + 1 /\ 1 \in 1 .. N + 1 /\ N + 1 # 1 /\ (N + 1) - 1 = N
  OBVIOUS
<1>11. /\ start \in [1 .. N + 1 -> Nat]
       /\ start[1] = 0 /\ start[N + 1] = Len(W) + 1
  <2>1. ASSUME NEW n \in 1 .. N + 1, n # 1  PROVE Len(f[n - 1]) + 1 \in Nat
    <3>1. n - 1 \in 1 .. N
      BY <2>1
    <3>2. Len(f[n - 1]) \in Nat
      BY <1>8, <3>1
    <3> QED
      BY <3>2
  <2>2. start \in [1 .. N + 1 -> Nat]
    BY <1>9, <2>1
  <2>3. start[1] = 0
    BY <1>9, <1>10, Zenon
  <2>4. start[N + 1] = Len(W) + 1
    <3>1. start[N + 1] = Len(f[(N + 1) - 1]) + 1
      BY <1>9, <1>10, Zenon
    <3>2. f[(N + 1) - 1] = W
      BY <1>7, <1>10, Zenon
    <3> QED
      BY <3>1, <3>2, Zenon
  <2> QED
    BY <2>2, <2>3, <2>4, Zenon
<1>12. ASSUME NEW n \in 1 .. N
       PROVE  /\ start[n + 1] = start[n] + Len(Pair(params[n])) + 1
              /\ start[n + 1] <= Len(W) + 1
              /\ \A k \in 1 .. Len(Pair(params[n])) : W[start[n] + k] = Pair(params[n])[k]
              /\ n # N => W[start[n + 1]] = "&"
  <2>1. start[n + 1] = Len(f[n]) + 1
    <3>1. n + 1 \in 1 .. N + 1 /\ n + 1 # 1 /\ (n + 1) - 1 = n
      OBVIOUS
    <3> QED
      BY <1>9, <3>1
  <2>2. Len(f[n]) <= Len(W) /\ \A k \in 1 .. Len(f[n]) : W[k] = f[n][k]
    BY <1>f
  <2>3. PICK x \in Nat, y \in Nat, z \in Nat, p \in Nat :
           x = Len(W) /\ y = Len(f[n]) /\ z = start[n] /\ p = Len(Pair(params[n]))
    <3>1. n \in 1 .. N + 1
      OBVIOUS
    <3> QED
      BY <1>3, <1>7, <1>8, <1>10, <1>11, <3>1
  <2>4. y = z + p /\ \A k \in 1 .. p : f[n][z + k] = Pair(params[n])[k]
    <3>1. CASE n = 1
      <4>1. f[n] = seqs[n]
        BY <1>7, <3>1 DEF Concats
      <4>2. Len(f[n]) = 0 + p /\ \A k \in 1 .. p : f[n][0 + k] = Pair(params[n])[k]
        BY <1>4, <2>3, <3>1, <4>1 DEF Gap
      <4>3. z = 0
        BY <1>11, <2>3, <3>1
      <4> QED
        BY <2>3, <4>2, <4>3
    <3>2. CASE n # 1
      <4>1. n - 1 \in 1 .. N
        BY <3>2
      <4>2. f[n] = f[n - 1] \o seqs[n]
        BY <1>7, <3>2 DEF Concats
      <4>3. PICK g \in Seq(Char), s \in Seq(Char), h \in Nat : g = f[n - 1] /\ s = seqs[n] /\ h = Len(g)
        BY <1>4, <1>8, <4>1
      <4>4. z = h + 1
        <5>1. n \in 1 .. N + 1
          OBVIOUS
        <5> QED
          BY <1>9, <2>3, <3>2, <4>3, <5>1
      <4>5. g \in Seq(Char) /\ s \in Seq(Char)
        BY <4>3
      <4>6. Len(s) = 1 + p /\ \A k \in 1 .. p : s[1 + k] = Pair(params[n])[k]
        BY <1>4, <2>3, <3>2, <4>3 DEF Gap
      <4>7. /\ Len(g \o s) = Len(g) + Len(s)
            /\ \A k \in 1 .. Len(s) : (g \o s)[Len(g) + k] = s[k]
        BY <4>5, JoinOf
      <4>8. f[n] = g \o s
        BY <4>2, <4>3
      <4>9. y = h + (1 + p) /\ \A k \in 1 .. 1 + p : f[n][h + k] = s[k]
        BY <2>3, <4>3, <4>6, <4>7, <4>8, Zenon
      <4>10. \A k \in 1 .. p : 1 + k \in 1 .. 1 + p /\ h + (1 + k) = z + k
        <5>1. h \in Nat /\ p \in Nat
          BY <2>3, <4>3
        <5> QED
          BY <4>4, <5>1
      <4>11. \A k \in 1 .. p : f[n][z + k] = Pair(params[n])[k]
        BY <4>6, <4>9, <4>10
      <4>12. y = z + p
        <5>1. h \in Nat /\ p \in Nat /\ y = h + (1 + p)
          BY <2>3, <4>3, <4>9
        <5> QED
          BY <4>4, <5>1
      <4> QED
        BY <4>11, <4>12, Zenon
    <3> QED
      BY <3>1, <3>2
  <2>5. \A k \in 1 .. p : z + k \in 1 .. y
    BY <2>4
  <2>6. \A k \in 1 .. p : W[z + k] = Pair(params[n])[k]
    BY <2>2, <2>3, <2>4, <2>5
  <2>7. ASSUME n # N  PROVE W[start[n + 1]] = "&"
    <3>1. PICK o \in 1 .. N : o = n + 1 /\ o # 1 /\ o - 1 = n
      BY <2>7
    <3>2. f[o] = f[n] \o seqs[o]
      <4>1. f[o] = IF o = 1 THEN seqs[o] ELSE f[o - 1] \o seqs[o]
        BY <1>7, Zenon DEF Concats
      <4> QED
        BY <3>1, <4>1
    <3>3. PICK g \in Seq(Char), s \in Seq(Char) : g = f[n] /\ s = seqs[o]
      BY <1>4, <1>8
    <3>4. g \in Seq(Char) /\ s \in Seq(Char)
      BY <3>3
    <3>5. /\ Len(g \o s) = Len(g) + Len(s) /\ Len(g) \in Nat
          /\ \A k \in 1 .. Len(s) : (g \o s)[Len(g) + k] = s[k]
      BY <3>4, JoinOf
    <3>6. PICK h \in Nat, m \in Nat : h = Len(g) /\ m = Len(s) /\ 1 <= m /\ h = y
      <4>1. Len(seqs[o]) = 1 + Len(Pair(params[o])) /\ Len(Pair(params[o])) \in Nat
        BY <1>3, <1>4, <3>1 DEF Gap
      <4> QED
        BY <2>3, <3>3, <3>5, <4>1
    <3>7. 1 \in 1 .. m /\ h + 1 \in 1 .. h + m
      BY <3>6
    <3>8. (g \o s)[h + 1] = "&"
      <4>1. s[1] = "&"
        BY <1>4, <3>1, <3>3
      <4> QED
        BY <3>5, <3>6, <3>7, <4>1
    <3>9. /\ Len(f[o]) = h + m /\ f[o][h + 1] = "&"
      BY <3>2, <3>3, <3>5, <3>6, <3>8, Zenon
    <3>10. \A k \in 1 .. Len(f[o]) : W[k] = f[o][k]
        BY <1>f
    <3>11. W[h + 1] = "&"
      BY <3>7, <3>9, <3>10
    <3> QED
      BY <2>1, <2>3, <3>6, <3>11
  <2> QED
    BY <2>1, <2>2, <2>3, <2>4, <2>6, <2>7
<1>13. Starts(start, W, params, N)
  BY <1>11, <1>12, Zenon DEF Starts
<1> QED
  BY <1>7, <1>8, <1>10, <1>13

\* strsep on the rest of a query takes off one parameter.
LEMMA LastPiece ==
  ASSUME NEW W \in Seq(Char), NEW b \in Nat, NEW pair \in Seq(Char), NEW l \in Nat,
         l = Len(pair), 1 <= l, Len(W) = b + l,
         \A n \in 1 .. l : W[b + n] = pair[n] /\ pair[n] # "&",
         NEW p, p = SubSeq(W, b + 1, Len(W))
  PROVE  p # <<>> /\ Before(p, "&") = pair /\ After(p, "&") = <<>>
<1>1. /\ SubSeq(W, b + 1, b + l) \in Seq(Char) /\ Len(SubSeq(W, b + 1, b + l)) = l
      /\ \A n \in 1 .. l : SubSeq(W, b + 1, b + l)[n] = W[b + n]
  <2>1. b + l <= Len(W)
    OBVIOUS
  <2> QED
    BY <2>1, SliceOf
<1>2. p \in Seq(Char) /\ Len(p) = l /\ \A n \in 1 .. l : p[n] = W[b + n]
  BY <1>1, Zenon
<1>3. p = pair
  <2>1. p \in Seq(Char) /\ Len(p) = Len(pair) /\ \A n \in 1 .. Len(p) : p[n] = pair[n]
    BY <1>2
  <2> QED
    BY <2>1, SeqEqual
<1>4. p # <<>>
  BY <1>2
<1>5. \A n \in 1 .. Len(p) : p[n] # "&"
  BY <1>2, <1>3
<1> QED
  BY <1>2, <1>3, <1>4, <1>5, StrsepNone

\* strsep makes of p a piece and the rest.
Splits(p, piece, rest) == p # <<>> /\ Before(p, "&") = piece /\ After(p, "&") = rest

\* After b characters W goes on with pair, and with more.
GoesOn(W, b, pair, l) ==
    /\ l = Len(pair) /\ 1 <= l /\ b + l + 1 < Len(W) /\ W[b + l + 1] = "&"
    /\ \A n \in 1 .. l : W[b + n] = pair[n] /\ pair[n] # "&"

LEMMA FirstPiece ==
  ASSUME NEW W \in Seq(Char), NEW b \in Nat, NEW pair \in Seq(Char), NEW l \in Nat,
         GoesOn(W, b, pair, l), NEW p, p = SubSeq(W, b + 1, Len(W))
  PROVE  Splits(p, pair, SubSeq(W, b + l + 2, Len(W)))
<1>0. /\ l = Len(pair) /\ 1 <= l /\ b + l + 1 < Len(W) /\ W[b + l + 1] = "&"
      /\ \A m \in 1 .. l : W[b + m] = pair[m] /\ pair[m] # "&"
  BY Zenon DEF GoesOn
<1>1. PICK w \in Nat, d \in Nat, e \in Nat, c \in Nat :
         w = Len(W) /\ d = w - b /\ c = b + l + 1 /\ e = d - (l + 1)
  <2>1. Len(W) \in Nat
    BY LenProperties
  <2>2. /\ Len(W) - b \in Nat /\ b + l + 1 \in Nat /\ (Len(W) - b) - (l + 1) \in Nat
    BY <1>0, <2>1
  <2> QED
    BY <2>1, <2>2
<1>2. /\ b + d = w /\ c + e = w /\ l + 1 <= d /\ l < d /\ b + d <= Len(W) /\ c + e <= Len(W)
      /\ c + 1 = b + l + 2 /\ (l + 1) + e = d
  BY <1>0, <1>1
<1>n. d \in Nat /\ e \in Nat /\ c \in Nat /\ w \in Nat
  BY <1>1
<1>3. /\ SubSeq(W, b + 1, b + d) \in Seq(Char) /\ Len(SubSeq(W, b + 1, b + d)) = d
      /\ \A m \in 1 .. d : SubSeq(W, b + 1, b + d)[m] = W[b + m]
  <2>1. b + d <= Len(W) /\ d \in Nat
    BY <1>n, <1>2
  <2> QED
    BY <2>1, SliceOf
<1>4. PICK s \in Seq(Char) : s = p
  BY <1>1, <1>2, <1>3, Zenon
<1>5. s \in Seq(Char) /\ Len(s) = d /\ \A m \in 1 .. d : s[m] = W[b + m]
  BY <1>1, <1>2, <1>3, <1>4, Zenon
<1>6. s # <<>>
  BY <1>0, <1>1, <1>2, <1>5
<1>7. /\ \A m \in 1 .. l : s[m] = pair[m] /\ s[m] # "&"
      /\ s[l + 1] = "&"
  <2>1. \A m \in 1 .. l : m \in 1 .. d
    BY <1>n, <1>2
  <2>2. l + 1 \in 1 .. d /\ b + (l + 1) = b + l + 1
    BY <1>n, <1>2
  <2> QED
    BY <1>0, <1>5, <2>1, <2>2
<1>8. Before(s, "&") = SubSeq(s, 1, l) /\ After(s, "&") = SubSeq(s, l + 2, Len(s))
  <2>1. l < Len(s)
    BY <1>2, <1>5
  <2> QED
    BY <1>5, <1>7, <2>1, StrsepFound
<1>9. SubSeq(s, 1, l) = pair
  <2>1. PICK o \in Nat : o = 0
    OBVIOUS
  <2>2. o \in Nat /\ o + 1 = 1 /\ o + l = l /\ o + l <= Len(s)
    BY <1>n, <1>2, <1>5, <2>1
  <2>3. /\ SubSeq(s, o + 1, o + l) \in Seq(Char) /\ Len(SubSeq(s, o + 1, o + l)) = l
        /\ \A n \in 1 .. l : SubSeq(s, o + 1, o + l)[n] = s[o + n]
    <3>1. s \in Seq(Char) /\ o \in Nat /\ o + l <= Len(s)
      BY <1>4, <2>2
    <3> QED
      BY <3>1, SliceOf
  <2>4. PICK front : front = SubSeq(s, 1, l)
    OBVIOUS
  <2>5. /\ front \in Seq(Char) /\ Len(front) = l
        /\ \A n \in 1 .. l : front[n] = s[o + n]
    BY <2>2, <2>3, <2>4, Zenon
  <2>6. \A n \in 1 .. l : s[o + n] = pair[n]
    BY <1>7, <2>1
  <2>7. \A n \in 1 .. l : front[n] = pair[n]
    BY <2>5, <2>6
  <2>8. front = pair
    <3>1. pair \in Seq(Char) /\ Len(pair) = l
      BY <1>0, <2>5
    <3> QED
      BY <2>5, <2>7, <3>1, SeqEqual
  <2> QED
    BY <2>4, <2>8
<1>10. SubSeq(s, l + 2, Len(s)) = SubSeq(W, b + l + 2, Len(W))
  <2>1. PICK o \in Nat : o = l + 1
    BY <1>n
  <2>2. o \in Nat /\ o + 1 = l + 2 /\ o + e = Len(s) /\ o + e <= Len(s)
    BY <1>n, <1>2, <1>5, <2>1
  <2>3. /\ SubSeq(s, o + 1, o + e) \in Seq(Char) /\ Len(SubSeq(s, o + 1, o + e)) = e
        /\ \A n \in 1 .. e : SubSeq(s, o + 1, o + e)[n] = s[o + n]
    BY <1>n, <1>5, <2>2, SliceOf
  <2>4. /\ SubSeq(W, c + 1, c + e) \in Seq(Char) /\ Len(SubSeq(W, c + 1, c + e)) = e
        /\ \A n \in 1 .. e : SubSeq(W, c + 1, c + e)[n] = W[c + n]
    BY <1>n, <1>2, SliceOf
  <2>5. PICK x, y : x = SubSeq(s, o + 1, o + e) /\ y = SubSeq(W, c + 1, c + e)
    OBVIOUS
  <2>6. \A n \in 1 .. e : s[o + n] = W[c + n]
    <3>1. \A n \in 1 .. e : o + n \in 1 .. d /\ b + (o + n) = c + n
      BY <1>n, <1>1, <1>2, <2>1
    <3> QED
      BY <1>5, <3>1
  <2>7. x \in Seq(Char) /\ y \in Seq(Char) /\ Len(x) = e /\ Len(y) = e /\ \A n \in 1 .. e : x[n] = y[n]
    BY <2>3, <2>4, <2>5, <2>6
  <2>8. x = y
    BY <2>7, SeqEqual
  <2>9. Len(W) = c + e
    BY <1>1, <1>2
  <2> QED
    BY <1>2, <2>2, <2>5, <2>8, <2>9, Zenon
<1>11. /\ p # <<>> /\ Before(p, "&") = pair
       /\ After(p, "&") = SubSeq(W, b + l + 2, Len(W))
  BY <1>4, <1>6, <1>8, <1>9, <1>10
<1> QED
  BY <1>11, Zenon DEF Splits

-----------------------------------------------------------------------------
(* The rounds of parse_query *)

LoopOf(f, s, m) ==
    f = [n \in 0 .. m |-> IF n = 0 THEN [p |-> s, pydict |-> NoParams] ELSE Round(f[n - 1])]

LEMMA LoopExists ==
  ASSUME NEW s, NEW l \in Nat
  PROVE  \E f : LoopOf(f, s, l)
<1> DEFINE Bad == {n \in Nat : ~ \E f : LoopOf(f, s, n)}
<1>1. SUFFICES ASSUME Bad # {}  PROVE FALSE
  OBVIOUS
<1>2. PICK m \in Bad : \A n \in Bad : m <= n
  <2>1. Bad \in SUBSET Nat
    OBVIOUS
  <2> HIDE DEF Bad
  <2> QED
    BY <1>1, <2>1, LeastNatural
<1>3. m \in Nat /\ ~ \E f : LoopOf(f, s, m)
  BY <1>2
<1>4. CASE m = 0
  <2>1. PICK f : f = [n \in 0 .. m |-> [p |-> s, pydict |-> NoParams]]
    OBVIOUS
  <2>2. f = [n \in 0 .. m |-> IF n = 0 THEN [p |-> s, pydict |-> NoParams] ELSE Round(f[n - 1])]
    <3>1. \A n \in 0 .. m : n = 0
      BY <1>4
    <3> QED
      BY <2>1, <3>1
  <2> QED
    BY <1>3, <2>2 DEF LoopOf
<1>5. CASE m # 0
  <2>1. m - 1 \in Nat /\ m - 1 \notin Bad
    <3>1. m - 1 \in Nat /\ ~(m <= m - 1)
      BY <1>3, <1>5
    <3> HIDE DEF Bad
    <3> QED
      BY <1>2, <3>1
  <2>2. PICK g : LoopOf(g, s, m - 1)
    BY <2>1
  <2>3. PICK f : f = [n \in 0 .. m |-> IF n = m THEN Round(g[m - 1]) ELSE g[n]]
    OBVIOUS
  <2>4. ASSUME NEW n \in 0 .. m
        PROVE  f[n] = IF n = 0 THEN [p |-> s, pydict |-> NoParams] ELSE Round(f[n - 1])
    <3>1. CASE n = m
      <4>1. n - 1 \in 0 .. m /\ n - 1 # m /\ n # 0
        BY <1>3, <1>5, <3>1
      <4> QED
        BY <2>3, <3>1, <4>1
    <3>2. CASE n # m
      <4>1. n \in 0 .. m - 1
        BY <1>3, <3>2
      <4>2. g[n] = IF n = 0 THEN [p |-> s, pydict |-> NoParams] ELSE Round(g[n - 1])
        BY <2>2, <4>1 DEF LoopOf
      <4>3. n # 0 => n - 1 \in 0 .. m /\ n - 1 # m
        BY <1>3, <4>1
      <4>4. f[n] = g[n] /\ (n # 0 => f[n - 1] = g[n - 1])
        BY <2>3, <3>2, <4>3
      <4> QED
        BY <4>2, <4>4
    <3> QED
      BY <3>1, <3>2
  <2>5. LoopOf(f, s, m)
    <3>1. f = [n \in 0 .. m |-> f[n]]
      BY <2>3
    <3> QED
      BY <2>4, <3>1 DEF LoopOf
  <2> QED
    BY <1>3, <2>5
<1> QED
  BY <1>4, <1>5

LEMMA ParseIs ==
  ASSUME NEW s \in Seq(Char)
  PROVE  \E f : LoopOf(f, s, Len(s)) /\ ParseQuery(s) = f[Len(s)].pydict
<1>1. PICK f : f = (CHOOSE g : g = [n \in 0 .. Len(s) |->
                       IF n = 0 THEN [p |-> s, pydict |-> NoParams] ELSE Round(g[n - 1])])
  OBVIOUS
<1>2. ParseQuery(s) = f[Len(s)].pydict
  BY <1>1, Zenon DEF ParseQuery
<1>3. Len(s) \in Nat
  BY LenProperties
<1>4. \E g : g = [n \in 0 .. Len(s) |->
                     IF n = 0 THEN [p |-> s, pydict |-> NoParams] ELSE Round(g[n - 1])]
  BY <1>3, LoopExists, Zenon DEF LoopOf
<1>5. LoopOf(f, s, Len(s))
  BY <1>1, <1>4, Zenon DEF LoopOf
<1> QED
  BY <1>2, <1>5

\* The loop after n parameters.
TakenOff(loop, W, start, params, N, n) ==
    /\ loop.p = IF n = N THEN <<>> ELSE SubSeq(W, start[n + 1] + 1, Len(W))
    /\ HoldsFirst(loop.pydict, params, n)

LEMMA RoundTakes ==
  ASSUME NEW params \in Seq(Param), NEW N \in Nat, N = Len(params), NEW W \in Seq(Char),
         NEW start, Starts(start, W, params, N), NEW n \in Nat, n < N,
         NEW loop, TakenOff(loop, W, start, params, N, n)
  PROVE  TakenOff(Round(loop), W, start, params, N, n + 1)
<1>1. PICK o \in 1 .. N : o = n + 1
  <2>1. n + 1 \in 1 .. N
    OBVIOUS
  <2> QED
    BY <2>1
<1>2. params[o] \in Param
  BY ElementOfSeq
<1>3. PICK pair \in Seq(Char), l \in Nat :
         /\ pair = Pair(params[o]) /\ l = Len(pair) /\ 1 <= l
         /\ \A k \in 1 .. l : pair[k] # "&"
  BY <1>2, PairOf
<1>4. PICK b \in Nat : b = start[o]
  <2>1. o \in 1 .. N + 1
    BY <1>1
  <2> QED
    BY <2>1 DEF Starts
<1>5. /\ start[o + 1] = b + l + 1
      /\ \A k \in 1 .. l : W[b + k] = pair[k]
      /\ o # N => W[b + l + 1] = "&"
      /\ start[N + 1] = Len(W) + 1
  BY <1>3, <1>4, Zenon DEF Starts
<1>n. /\ b \in Nat /\ l \in Nat /\ 1 <= l /\ Len(W) \in Nat
      /\ pair \in Seq(Char) /\ l = Len(pair)
  BY <1>3, <1>4, LenProperties
<1>m. \A k \in 1 .. l : W[b + k] = pair[k] /\ pair[k] # "&"
  BY <1>3, <1>5
<1>6. loop.p = SubSeq(W, b + 1, Len(W))
  <2>1. n # N
    OBVIOUS
  <2> QED
    BY <1>1, <1>4, <2>1, Zenon DEF TakenOff
<1>7. /\ loop.p # <<>> /\ Before(loop.p, "&") = pair
      /\ After(loop.p, "&") = IF o = N THEN <<>> ELSE SubSeq(W, start[o + 1] + 1, Len(W))
  <2>1. CASE o = N
    <3>1. Len(W) = b + l
      BY <1>n, <1>5, <2>1
    <3>2. loop.p # <<>> /\ Before(loop.p, "&") = pair /\ After(loop.p, "&") = <<>>
      BY <1>n, <1>m, <1>6, <3>1, LastPiece
    <3> QED
      BY <2>1, <3>2
  <2>2. CASE o # N
    <3>1. PICK q \in 1 .. N : q = o + 1
      <4>1. o + 1 \in 1 .. N
        BY <1>1, <2>2
      <4> QED
        BY <4>1
    <3>2. params[q] \in Param
      BY ElementOfSeq
    <3>3. PICK m \in Nat : m = Len(Pair(params[q])) /\ 1 <= m
      BY <3>2, PairOf
    <3>4. start[q + 1] = start[q] + Len(Pair(params[q])) + 1 /\ start[q + 1] <= Len(W) + 1
      BY Zenon DEF Starts
    <3>5. b + l + 1 < Len(W)
      <4>1. start[q] = b + l + 1
        BY <1>5, <3>1
      <4>2. b + l + 1 + m + 1 <= Len(W) + 1
        BY <3>3, <3>4, <4>1
      <4> QED
        BY <1>n, <3>3, <4>2
    <3>6. W[b + l + 1] = "&"
      BY <1>5, <2>2
    <3>7. /\ loop.p # <<>> /\ Before(loop.p, "&") = pair
          /\ After(loop.p, "&") = SubSeq(W, b + l + 2, Len(W))
      <4>1. PICK p : p = loop.p
        OBVIOUS
      <4>2. p = SubSeq(W, b + 1, Len(W))
        BY <1>6, <4>1
      <4>3. Splits(p, pair, SubSeq(W, b + l + 2, Len(W)))
        <5>1. GoesOn(W, b, pair, l)
          BY <1>n, <1>m, <3>5, <3>6, Zenon DEF GoesOn
        <5>2. W \in Seq(Char) /\ b \in Nat /\ pair \in Seq(Char) /\ l \in Nat
          BY <1>n
        <5> QED
          BY <4>2, <5>1, <5>2, FirstPiece
      <4> QED
        BY <4>1, <4>3, Zenon DEF Splits
    <3>8. start[o + 1] + 1 = b + l + 2
      BY <1>n, <1>5
    <3> QED
      BY <2>2, <3>7, <3>8
  <2> QED
    BY <2>1, <2>2
<1>8. Round(loop) = [p |-> After(loop.p, "&"), pydict |-> Appended(loop.pydict, pair)]
  BY <1>7, Zenon DEF Round
<1>9. HoldsFirst(Appended(loop.pydict, pair), params, n + 1)
  <2>1. HoldsFirst(loop.pydict, params, n)
    BY Zenon DEF TakenOff
  <2>2. n + 1 <= Len(params)
    BY <1>1
  <2>3. HoldsFirst(Appended(loop.pydict, Pair(params[n + 1])), params, n + 1)
    BY <2>1, <2>2, DictGrows
  <2> QED
    BY <1>1, <1>3, <2>3, Zenon
<1>10. Round(loop).p = After(loop.p, "&") /\ Round(loop).pydict = Appended(loop.pydict, pair)
  BY <1>8
<1> QED
  BY <1>1, <1>7, <1>9, <1>10, Zenon DEF TakenOff

\* There are at least as many characters as parameters.
LEMMA RoundsEnough ==
  ASSUME NEW params \in Seq(Param), NEW N \in Nat, N = Len(params), N # 0,
         NEW W \in Seq(Char), NEW start, Starts(start, W, params, N)
  PROVE  N <= Len(W)
<1> DEFINE Bad == {n \in 1 .. N + 1 : ~(n + n <= start[n] + 2)}
<1>0. /\ start \in [1 .. N + 1 -> Nat] /\ start[1] = 0 /\ start[N + 1] = Len(W) + 1
      /\ \A n \in 1 .. N : start[n + 1] = start[n] + Len(Pair(params[n])) + 1
  BY Zenon DEF Starts
<1>1. ASSUME Bad # {}  PROVE FALSE
  <2>1. Bad \in SUBSET Nat
    OBVIOUS
  <2>2. PICK n \in Bad : \A m \in Bad : n <= m
    <3> HIDE DEF Bad
    <3> QED
      BY <1>1, <2>1, LeastNatural
  <2>3. n \in 1 .. N + 1 /\ ~(n + n <= start[n] + 2)
    BY <2>2
  <2>4. n # 1
    BY <1>0, <2>3
  <2>5. PICK m \in 1 .. N : m + 1 = n
    <3>1. n - 1 \in 1 .. N /\ (n - 1) + 1 = n
      BY <2>3, <2>4
    <3> QED
      BY <3>1
  <2>6. m \in 1 .. N + 1 /\ m \notin Bad
    <3>1. m \in 1 .. N + 1 /\ ~(n <= m)
      BY <2>5
    <3> HIDE DEF Bad
    <3> QED
      BY <2>2, <3>1
  <2>7. m + m <= start[m] + 2 /\ start[m] \in Nat /\ start[n] \in Nat
    BY <1>0, <2>3, <2>6
  <2>8. PICK l \in Nat : l = Len(Pair(params[m])) /\ l >= 1
    <3>1. params[m] \in Param
      BY ElementOfSeq
    <3> QED
      BY <3>1, PairOf
  <2>9. start[n] = start[m] + l + 1
    BY <1>0, <2>5, <2>8
  <2>10. PICK x \in Nat, y \in Nat : x = start[m] /\ y = start[n]
    BY <2>7
  <2>11. m \in Nat /\ m + m <= x + 2 /\ y = x + l + 1 /\ l >= 1 /\ m + 1 = n
    BY <2>5, <2>7, <2>8, <2>9, <2>10
  <2>12. n + n <= y + 2
    BY <2>11
  <2> QED
    BY <2>3, <2>10, <2>12
<1>2. N + 1 \in 1 .. N + 1 /\ Len(W) \in Nat
  BY LenProperties
<1>3. (N + 1) + (N + 1) <= start[N + 1] + 2
  BY <1>1, <1>2
<1> QED
  BY <1>0, <1>2, <1>3

LEMMA RoundsTake ==
  ASSUME NEW params \in Seq(Param), NEW N \in Nat, N = Len(params), N # 0, NEW W \in Seq(Char),
         NEW start, Starts(start, W, params, N), NEW f, LoopOf(f, W, Len(W))
  PROVE  HoldsFirst(f[Len(W)].pydict, params, N)
<1> DEFINE Upto(n) == IF n <= N THEN n ELSE N
           Good(n) == TakenOff(f[n], W, start, params, N, Upto(n))
           Bad == {n \in 0 .. Len(W) : ~Good(n)}
<1>1. ASSUME Bad # {}  PROVE FALSE
  <2>1. Bad \in SUBSET Nat
    <3>1. \A n \in 0 .. Len(W) : n \in Nat
      OBVIOUS
    <3> HIDE DEF Good
    <3> QED
      BY <3>1
  <2>2. PICK n \in Bad : \A m \in Bad : n <= m
    <3> HIDE DEF Bad
    <3> QED
      BY <1>1, <2>1, LeastNatural
  <2>3. n \in 0 .. Len(W) /\ ~Good(n) /\ n \in Nat
    <3> HIDE DEF Good
    <3> QED
      BY <2>1, <2>2
  <2>4. f[n] = IF n = 0 THEN [p |-> W, pydict |-> NoParams] ELSE Round(f[n - 1])
    BY <2>3, Zenon DEF LoopOf
  <2>5. CASE n = 0
    <3>1. f[0].p = W /\ f[0].pydict = NoParams
      BY <2>4, <2>5
    <3>2. W = SubSeq(W, start[0 + 1] + 1, Len(W))
      <4>1. start[0 + 1] + 1 = 1
        BY DEF Starts
      <4>2. PICK l \in Nat, o \in Nat : l = Len(W) /\ o = 0
        BY LenProperties
      <4>3. o \in Nat /\ l \in Nat /\ o + l <= Len(W) /\ o + 1 = 1 /\ o + l = l
        BY <4>2
      <4>4. /\ SubSeq(W, o + 1, o + l) \in Seq(Char) /\ Len(SubSeq(W, o + 1, o + l)) = l
            /\ \A k \in 1 .. l : SubSeq(W, o + 1, o + l)[k] = W[o + k]
        BY <4>3, SliceOf
      <4>5. PICK s : s = SubSeq(W, o + 1, o + l)
        OBVIOUS
      <4>6. \A k \in 1 .. l : o + k = k
        BY <4>2
      <4>7. s \in Seq(Char) /\ Len(s) = Len(W) /\ \A k \in 1 .. Len(s) : s[k] = W[k]
        BY <4>2, <4>4, <4>5, <4>6
      <4>8. s = W
        BY <4>7, SeqEqual
      <4> QED
        BY <4>1, <4>2, <4>3, <4>5, <4>8, Zenon
    <3>3. HoldsFirst(NoParams, params, 0)
      <4>1. DOMAIN NoParams = {} /\ 1 .. 0 = {}
        BY DEF NoParams
      <4> QED
        BY <4>1 DEF HoldsFirst
    <3>4. Upto(n) = 0 /\ 0 # N
      BY <2>5
    <3>5. Good(n)
      <4> HIDE DEF Upto
      <4> QED
        BY <2>5, <3>1, <3>2, <3>3, <3>4, Zenon DEF TakenOff
    <3> HIDE DEF Good
    <3> QED
      BY <2>3, <3>5
  <2>6. CASE n # 0
    <3>1. PICK m \in 0 .. Len(W) : m = n - 1 /\ m + 1 = n
      <4>1. n - 1 \in 0 .. Len(W) /\ (n - 1) + 1 = n
        BY <2>3, <2>6
      <4> QED
        BY <4>1
    <3>2. Good(m)
      <4>1. ~(n <= m) /\ m \in 0 .. Len(W)
        BY <2>3, <3>1
      <4>2. m \notin Bad
        <5> HIDE DEF Bad
        <5> QED
          BY <2>2, <4>1
      <4> HIDE DEF Good
      <4> QED
        BY <4>1, <4>2
    <3>3. f[n] = Round(f[m])
      BY <2>4, <2>6, <3>1
    <3>4. CASE m < N
      <4>1. Upto(m) = m /\ Upto(n) = m + 1 /\ m \in Nat
        BY <2>3, <3>1, <3>4
      <4>2. TakenOff(f[m], W, start, params, N, m)
        <5> HIDE DEF Upto
        <5> QED
          BY <3>2, <4>1, Zenon
      <4>3. TakenOff(Round(f[m]), W, start, params, N, m + 1)
        BY <3>4, <4>1, <4>2, RoundTakes
      <4>4. Good(n)
        <5> HIDE DEF Upto
        <5> QED
          BY <3>3, <4>1, <4>3, Zenon
      <4> HIDE DEF Good
      <4> QED
        BY <2>3, <4>4
    <3>5. CASE ~(m < N)
      <4>1. Upto(m) = N /\ Upto(n) = N
        BY <2>3, <3>1, <3>5
      <4>2. f[m].p = <<>>
        <5> HIDE DEF Upto
        <5> QED
          BY <3>2, <4>1, Zenon DEF TakenOff
      <4>3. f[n] = f[m]
        BY <3>3, <4>2, Zenon DEF Round
      <4>4. Good(n)
        <5> HIDE DEF Upto
        <5> QED
          BY <3>2, <4>1, <4>3, Zenon
      <4> HIDE DEF Good
      <4> QED
        BY <2>3, <4>4
    <3> QED
      BY <3>4, <3>5
  <2> QED
    BY <2>5, <2>6
<1>2. Len(W) \in 0 .. Len(W) /\ Upto(Len(W)) = N
  <2>1. Len(W) \in Nat /\ N <= Len(W)
    BY LenProperties, RoundsEnough
  <2> QED
    BY <2>1
<1>3. Good(Len(W))
  <2> HIDE DEF Good, Upto
  <2> QED
    BY <1>1, <1>2
<1> HIDE DEF Upto
<1> QED
  BY <1>2, <1>3, Zenon DEF TakenOff

LEMMA ParametersCome ==
  ASSUME NEW params \in ParamsSent, NEW pydict, pydict = ParseQuery(Wire(params))
  PROVE  /\ DOMAIN pydict = {params[n].name.text : n \in DOMAIN params}
         /\ \A k \in DOMAIN pydict : AreValuesOf(pydict[k], k, params)
<1>1. params \in Seq(Param) /\ Len(params) \in Nat /\ DOMAIN params = 1 .. Len(params)
  <2>1. params \in Seq(Param)
    BY ParamsType
  <2> QED
    BY <2>1, LenProperties
<1>2. PICK N \in Nat : N = Len(params)
  BY <1>1
<1>3. HoldsFirst(pydict, params, N)
  <2>1. CASE N = 0
    <3>1. params = <<>>
      BY <1>1, <1>2, <2>1, EmptySeq
    <3>2. PICK W \in Seq(Char) : W = Wire(params) /\ Len(W) = 0
      BY <3>1, WireType
    <3>3. PICK f : LoopOf(f, W, Len(W)) /\ ParseQuery(W) = f[Len(W)].pydict
      BY ParseIs
    <3>4. f[0] = [p |-> W, pydict |-> NoParams]
      BY <3>2, <3>3 DEF LoopOf
    <3>5. pydict = NoParams
      BY <3>2, <3>3, <3>4
    <3>6. DOMAIN NoParams = {} /\ 1 .. 0 = {}
      BY DEF NoParams
    <3> QED
      BY <2>1, <3>5, <3>6 DEF HoldsFirst
  <2>2. CASE N # 0
    <3>1. PICK W \in Seq(Char) : W = Wire(params)
      BY WireType
    <3>2. PICK start : Starts(start, W, params, N)
      BY <1>2, <2>2, <3>1, WireParts
    <3>3. PICK f : LoopOf(f, W, Len(W)) /\ ParseQuery(W) = f[Len(W)].pydict
      BY ParseIs
    <3>4. HoldsFirst(f[Len(W)].pydict, params, N)
      BY <1>1, <1>2, <2>2, <3>2, <3>3, RoundsTake
    <3> QED
      BY <3>1, <3>3, <3>4, Zenon
  <2> QED
    BY <2>1, <2>2
<1>4. ASSUME NEW k \in DOMAIN pydict  PROVE AreValuesOf(pydict[k], k, params)
  <2>1. PICK values : values = pydict[k] /\ AreFirst(values, k, params, N)
    BY <1>3, Zenon DEF HoldsFirst
  <2>2. 1 .. N = DOMAIN params
    BY <1>1, <1>2
  <2>3. PICK which \in [1 .. Len(values) -> 1 .. N] :
        /\ \A m, o \in 1 .. Len(values) : m < o => which[m] < which[o]
        /\ \A o \in 1 .. N : params[o].name.text = k => \E m \in 1 .. Len(values) : which[m] = o
        /\ \A m \in 1 .. Len(values) :
              params[which[m]].name.text = k /\ values[m] = params[which[m]].value.text
    BY <2>1, Zenon DEF AreFirst
  <2>4. which \in [1 .. Len(values) -> DOMAIN params]
    BY <2>2, <2>3
  <2>5. AreValuesOf(values, k, params)
    BY <2>2, <2>3, <2>4, Zenon DEF AreValuesOf
  <2> QED
    BY <2>1, <2>5, Zenon
<1> QED
  BY <1>1, <1>2, <1>3, <1>4, Zenon DEF HoldsFirst

-----------------------------------------------------------------------------
(* Dispatch: the application that is called *)

\* The route a request gets, and that there is an application for it.
LEMMA RouteFound ==
  ASSUME RoutesInv, NEW uri \in Seq(Char),
         Matches(uri) # {} \/ generic # NoCallback,
         NEW route, route = IF Matches(uri) # {} THEN HandleUri(uri)
                            ELSE [uri |-> <<>>, cb |-> generic]
  PROVE  /\ route.uri \in RouteUris \cup {<<>>}
         /\ IsPrefix(route.uri, uri)
         /\ \/ [uri |-> route.uri, cb |-> route.cb] \in ToSet(registered)
            \/ route.uri = <<>> /\ generic # NoCallback
<1>1. CASE Matches(uri) # {}
  <2>1. Matches(uri) \in SUBSET Nat
    BY LenProperties DEF Matches, RoutesInv
  <2>2. PICK n \in Matches(uri) : route = registered[n]
    <3>1. \E n \in Matches(uri) : \A m \in Matches(uri) : n <= m
      BY <1>1, <2>1, LeastNatural
    <3> QED
      BY <1>1, <3>1 DEF HandleUri
  <2>3. /\ n \in DOMAIN registered /\ IsPrefix(route.uri, uri)
    BY <2>2 DEF Matches
  <2>4. route \in Routes
    BY <2>2, <2>3, ElementOfSeq, LenProperties DEF RoutesInv
  <2>5. route = [uri |-> route.uri, cb |-> route.cb] /\ route.uri \in RouteUris
    BY <2>4 DEF Routes
  <2>6. route \in ToSet(registered)
    BY <2>2, <2>3, Zenon DEF ToSet
  <2> QED
    BY <2>3, <2>5, <2>6
<1>2. CASE ~(Matches(uri) # {})
  <2>1. route.uri = <<>> /\ generic # NoCallback
    BY <1>2
  <2>2. IsPrefix(<<>>, uri)
    <3>1. Len(<<>>) = 0 /\ Len(uri) \in Nat
      BY LenProperties
    <3>2. SubSeq(<<>>, 1, 0) = <<>> /\ SubSeq(uri, 1, 0) = <<>>
      BY SubSeqEmpty
    <3> QED
      BY <3>1, <3>2 DEF IsPrefix
  <2> QED
    BY <2>1, <2>2
<1> QED
  BY <1>1, <1>2

LEMMA CalledExact ==
  ASSUME RoutesInv, NEW r \in RequestsSent, Called(r)
  PROVE  UriExact' /\ ParamsExact'
<1>1. PICK route :
         route = IF Matches(Uri(r)) # {}
                 THEN HandleUri(Uri(r))
                 ELSE [uri |-> <<>>, cb |-> generic]
  OBVIOUS
<1>2. PICK variables :
         variables = BuildMethodVariables(Uri(r), route.uri)
  OBVIOUS
<1>3. /\ called' = route.cb
      /\ environ' = IF r.type = "form"
                    THEN [variables EXCEPT !.params =
                             ParseQuery(Wire(r.form) \o r.extra)]
                    ELSE variables
      /\ request' = r /\ ret' = "called"
      /\ UNCHANGED <<registered, generic>>
      /\ Matches(Uri(r)) # {} \/ generic # NoCallback
  BY <1>1, <1>2, Zenon DEF Called, Routed
<1>4. PICK tail \in Seq(Char), q \in Seq(Char) :
         /\ Uri(r) = r.path.wire \o tail
         /\ q = Wire(r.query) /\ Follows(tail, q)
  BY RequestParts
<1>5. PICK w \in Seq(Char) : w = r.path.wire
  BY RequestParts, PathOf
<1>6. \A m \in 1 .. Len(w) : w[m] # "?"
  <2>1. \A m \in 1 .. Len(w) : w[m] \in {"/", "a", "b", "%20"}
    BY <1>5, RequestParts, PathOf
  <2> QED
    BY <2>1
<1>7. w \o tail \in Seq(Char)
  BY JoinOf
<1>8. /\ route.uri \in RouteUris \cup {<<>>}
      /\ IsPrefix(route.uri, w \o tail)
      /\ \/ [uri |-> route.uri, cb |-> route.cb] \in ToSet(registered)
         \/ route.uri = <<>> /\ generic # NoCallback
  BY <1>1, <1>3, <1>4, <1>5, <1>7, RouteFound, Zenon
<1>9. PICK u \in Seq(Char) : u = route.uri /\ \A m \in 1 .. Len(u) : u[m] \in {"/", "a"}
  BY <1>8, RouteOf
<1>10. Len(u) <= Len(w) /\ \A m \in 1 .. Len(u) : u[m] = w[m]
  <2>1. \A m \in 1 .. Len(u) : u[m] # "?"
    BY <1>9
  <2>2. IsPrefix(u, w \o tail)
    BY <1>8, <1>9
  <2> QED
    BY <1>4, <2>1, <2>2, PrefixOf
<1>11. PICK path : path = SubSeq(w, Len(u) + 1, Len(w))
  OBVIOUS
<1>12. /\ path \in Seq(Char) /\ Len(w) = Len(u) + Len(path)
       /\ \A m \in 1 .. Len(path) : path[m] = w[Len(u) + m]
       /\ SubSeq(w \o tail, Len(u) + 1, Len(w \o tail)) = path \o tail
  <2>1. PICK k \in Nat : k = Len(u)
    BY LenProperties
  <2>2. k <= Len(w)
    BY <1>10, <2>1
  <2>r. w \in Seq(Char) /\ tail \in Seq(Char) /\ k \in Nat
    BY <1>4, <1>5, <2>1
  <2>3. /\ SubSeq(w, k + 1, Len(w)) \in Seq(Char)
        /\ SubSeq(w \o tail, k + 1, Len(w \o tail)) = SubSeq(w, k + 1, Len(w)) \o tail
        /\ Len(w) = k + Len(SubSeq(w, k + 1, Len(w)))
        /\ \A m \in 1 .. Len(SubSeq(w, k + 1, Len(w))) :
              SubSeq(w, k + 1, Len(w))[m] = w[k + m]
    <3>1. RestOf(w, tail, k)
      BY <2>2, <2>r, RestConcat
    <3> QED
      BY <3>1, Zenon DEF RestOf
  <2> QED
    BY <1>11, <2>1, <2>3, Zenon
<1>13. \A m \in 1 .. Len(path) : path[m] # "?"
  <2> SUFFICES ASSUME NEW m \in 1 .. Len(path)  PROVE path[m] # "?"
    OBVIOUS
  <2>1. Len(u) \in Nat /\ Len(path) \in Nat
    BY <1>12, LenProperties
  <2>2. Len(u) + m \in 1 .. Len(w)
    BY <1>12, <2>1
  <2> QED
    BY <1>6, <1>12, <2>2
<1>14. /\ Before(path \o tail, "?") = path
       /\ After(path \o tail, "?") = q
  BY <1>4, <1>12, <1>13, QueryOf
<1>15. /\ variables = [SCRIPT_NAME |-> u, PATH_INFO |-> DecodeUri(path),
                       QUERY_STRING |-> q, params |-> ParseQuery(q)]
  BY <1>2, <1>4, <1>5, <1>9, <1>12, <1>14, Zenon DEF BuildMethodVariables
<1>16. /\ environ'.SCRIPT_NAME = u /\ environ'.PATH_INFO = DecodeUri(path)
       /\ environ'.QUERY_STRING = q
  BY <1>3, <1>15
<1>17. u \o DecodeUri(path) = r.path.text
  <2>1. /\ r.path \in PathsSent
        /\ \A m \in 1 .. Len(u) : u[m] = r.path.wire[m]
        /\ Len(r.path.wire) = Len(u) + Len(path)
        /\ \A m \in 1 .. Len(path) : path[m] = r.path.wire[Len(u) + m]
    BY <1>5, <1>10, <1>12, RequestParts
  <2> QED
    BY <1>9, <1>12, <2>1, PathComesBack
<1>18. ASSUME NEW params, params = IF r.type = "form" THEN r.form ELSE r.query, r.extra = <<>>
       PROVE  /\ DOMAIN environ'.params = {params[n].name.text : n \in DOMAIN params}
              /\ \A k \in DOMAIN environ'.params : AreValuesOf(environ'.params[k], k, params)
  <2>1. params \in ParamsSent /\ r.form \in ParamsSent
    BY <1>18 DEF RequestsSent, AnyRequest
  <2>2. environ'.params = ParseQuery(Wire(params))
    <3>1. CASE r.type = "form"
      <4>1. Wire(r.form) \o r.extra = Wire(r.form)
        <5>1. PICK s \in Seq(Char) : s = Wire(r.form)
          BY <2>1, WireType
        <5>2. s \o <<>> = s
          OBVIOUS
        <5> QED
          BY <1>18, <5>1, <5>2
      <4>2. environ'.params = ParseQuery(Wire(r.form) \o r.extra)
        BY <1>3, <1>15, <3>1
      <4> QED
        BY <1>18, <3>1, <4>1, <4>2
    <3>2. CASE r.type # "form"
      BY <1>3, <1>4, <1>15, <1>18, <3>2
    <3> QED
      BY <3>1, <3>2
  <2>3. PICK pydict : pydict = environ'.params
    OBVIOUS
  <2>4. /\ DOMAIN pydict = {params[n].name.text : n \in DOMAIN params}
        /\ \A k \in DOMAIN pydict : AreValuesOf(pydict[k], k, params)
    BY <2>1, <2>2, <2>3, ParametersCome
  <2> QED
    BY <2>3, <2>4, Zenon
<1>19. ParamsExact'
  <2>1. PICK params : params = IF r.type = "form" THEN r.form ELSE r.query
    OBVIOUS
  <2>2. r.extra = <<>> =>
          /\ DOMAIN environ'.params = {params[n].name.text : n \in DOMAIN params}
          /\ \A k \in DOMAIN environ'.params : AreValuesOf(environ'.params[k], k, params)
    <3>1. ASSUME r.extra = <<>>
          PROVE  /\ DOMAIN environ'.params = {params[n].name.text : n \in DOMAIN params}
                 /\ \A k \in DOMAIN environ'.params : AreValuesOf(environ'.params[k], k, params)
      BY <1>18, <2>1, <3>1
    <3> QED
      BY <3>1
  <2>3. request' = r
    BY <1>3
  <2>4. ParamsExact' <=>
          (ret' = "called" /\ r.extra = <<>> =>
             /\ DOMAIN environ'.params = {params[n].name.text : n \in DOMAIN params}
             /\ \A k \in DOMAIN environ'.params : AreValuesOf(environ'.params[k], k, params))
    BY <2>1, <2>3 DEF ParamsExact
  <2> QED
    BY <2>2, <2>4, Zenon
<1> QED
  BY <1>3, <1>4, <1>8, <1>9, <1>16, <1>17, <1>19 DEF UriExact, ToSet

\* Between requests no application is in service.
ServiceInv ==
    /\ RoutesInv
    /\ request = NoRequest => ret = "none"
    /\ UriExact
    /\ ParamsExact

LEMMA ServiceInit == DispatchInit => ServiceInv
  BY RoutesInit DEF DispatchInit, ServiceInv, UriExact, ParamsExact

LEMMA ServiceNext == ServiceInv /\ [DispatchNext]_dispatchVars => ServiceInv'
<1> SUFFICES ASSUME ServiceInv, [DispatchNext]_dispatchVars  PROVE ServiceInv'
  OBVIOUS
<1>0. RoutesInv'
  BY RoutesNext DEF ServiceInv
<1>1. ASSUME NEW uri, NEW cb, WsgiCb(uri, cb)  PROVE ServiceInv'
  BY <1>0, <1>1 DEF WsgiCb, ServiceInv, UriExact, ParamsExact
<1>2. ASSUME NEW cb, SetGenWsgiCb(cb)  PROVE ServiceInv'
  BY <1>0, <1>2 DEF SetGenWsgiCb, ServiceInv, UriExact, ParamsExact
<1>3. CASE CloseConnection
  BY <1>0, <1>3 DEF CloseConnection, ServiceInv, UriExact, ParamsExact
<1>4. ASSUME NEW r \in RequestsSent, PythonHandler(r)  PROVE ServiceInv'
  <2>1. r # NoRequest
    BY RequestParts
  <2>2. CASE Called(r)
    <3>1. request' = r
      BY <2>2 DEF Called
    <3>2. UriExact' /\ ParamsExact'
      BY <2>2, CalledExact DEF ServiceInv
    <3> QED
      BY <1>0, <2>1, <3>1, <3>2 DEF ServiceInv
  <2>3. ASSUME NEW code, code # "called", Answered(r, code)  PROVE ServiceInv'
    BY <1>0, <2>1, <2>3 DEF Answered, ServiceInv, UriExact, ParamsExact
  <2> QED
    BY <1>4, <2>2, <2>3
       DEF PythonHandler, NotImplemented, Options,
           NotFound, LengthRequired
<1>5. CASE UNCHANGED dispatchVars
  BY <1>0, <1>5 DEF dispatchVars, ServiceInv, UriExact, ParamsExact
<1> QED
  BY <1>1, <1>2, <1>3, <1>4, <1>5 DEF DispatchNext

\* Whatever the routes, their order and the requests, an application is called
\* with the path and the query the client sent, below the URI it registered.
THEOREM UriComesBack == DispatchSpec => []UriExact
<1>1. ServiceInv => UriExact
  BY DEF ServiceInv
<1> QED
  BY <1>1, ServiceInit, ServiceNext, PTL DEF DispatchSpec

\* fapws.params holds every parameter of the query, or of the form, under the
\* name the client meant, with its values in the order they were sent, however
\* many parameters there are: nothing is lost at a separator, none is split.
THEOREM ParamsComeBack == DispatchSpec => []ParamsExact
<1>1. ServiceInv => ParamsExact
  BY DEF ServiceInv
<1> QED
  BY <1>1, ServiceInit, ServiceNext, PTL DEF DispatchSpec

-----------------------------------------------------------------------------
(* HeaderParser: where the bytes are *)

HeaderChar == {"G", "u", "?", "P", "k", "K", "-", "v", "w", BLANK, KEY_SEP, CR, LF}

LEMMA Distinct ==
  /\ \A c \in {"G", "u", "?", "P", "k", "K", "-", "v", "w"} :
        c \notin {BLANK, KEY_SEP, CR, LF, Nul}
  /\ BLANK \notin {KEY_SEP, CR, LF, Nul} /\ KEY_SEP \notin {CR, LF, Nul}
  /\ CR \notin {LF, Nul} /\ LF # Nul
  BY DEF BLANK, KEY_SEP, CR, LF, Nul

\* The concatenation of seqs, and where each of them starts in it.
Laid(start, W, seqs, l) ==
    /\ start \in [1 .. l + 1 -> Nat]
    /\ start[1] = 0 /\ start[l + 1] = Len(W)
    /\ \A n \in 1 .. l :
        /\ start[n + 1] = start[n] + Len(seqs[n])
        /\ start[n + 1] <= Len(W)
        /\ \A m \in 1 .. Len(seqs[n]) : W[start[n] + m] = seqs[n][m]

LEMMA FlattenLaid ==
  ASSUME NEW T, NEW seqs \in Seq(Seq(T)), NEW l \in Nat, l = Len(seqs),
         NEW W, W = FlattenSeq(seqs)
  PROVE  W \in Seq(T) /\ \E start : Laid(start, W, seqs, l)
<1>0. W \in Seq(T) /\ (seqs = <<>> => W = <<>>)
  BY FlattenType
<1>1. CASE l = 0
  <2>1. W = <<>>
    BY <1>0, <1>1, EmptySeq
  <2>2. Len(W) = 0 /\ 1 .. l = {} /\ l + 1 = 1
    BY <1>1, <2>1
  <2>3. PICK start : start = [n \in 1 .. l + 1 |-> 0]
    OBVIOUS
  <2>4. start \in [1 .. l + 1 -> Nat] /\ start[1] = 0 /\ start[l + 1] = 0
    BY <2>2, <2>3
  <2>5. Laid(start, W, seqs, l)
    BY <2>2, <2>4, Zenon DEF Laid
  <2> QED
    BY <1>0, <2>5
<1>2. CASE l # 0
  <2>1. PICK f : Concats(f, seqs, l) /\ W = f[l]
    BY <1>2, FlattenIs
  <2>2. \A n \in 1 .. l : f[n] \in Seq(T) /\ Len(f[n]) \in Nat /\ seqs[n] \in Seq(T) /\ Len(seqs[n]) \in Nat
    <3>1. \A n \in 1 .. l : f[n] \in Seq(T) /\ seqs[n] \in Seq(T)
      BY <2>1, ConcatsType, ElementOfSeq
    <3> QED
      BY <3>1, LenProperties
  <2>3. PICK start : start = [n \in 1 .. l + 1 |-> IF n = 1 THEN 0 ELSE Len(f[n - 1])]
    OBVIOUS
  <2>4. l \in 1 .. l /\ l + 1 \in 1 .. l + 1 /\ 1 \in 1 .. l + 1 /\ l + 1 # 1 /\ (l + 1) - 1 = l
    BY <1>2
  <2>5. start \in [1 .. l + 1 -> Nat] /\ start[1] = 0 /\ start[l + 1] = Len(W)
    <3>1. ASSUME NEW n \in 1 .. l + 1, n # 1  PROVE Len(f[n - 1]) \in Nat
      <4>1. n - 1 \in 1 .. l
        BY <3>1
      <4> QED
        BY <2>2, <4>1
    <3> QED
      BY <2>1, <2>3, <2>4, <3>1
  <2>6. ASSUME NEW n \in 1 .. l
        PROVE  /\ start[n + 1] = start[n] + Len(seqs[n])
               /\ start[n + 1] <= Len(W)
               /\ \A m \in 1 .. Len(seqs[n]) : W[start[n] + m] = seqs[n][m]
    <3>1. start[n + 1] = Len(f[n])
      <4>1. n + 1 \in 1 .. l + 1 /\ n + 1 # 1 /\ (n + 1) - 1 = n
        OBVIOUS
      <4> QED
        BY <2>3, <4>1
    <3>2. Len(f[n]) <= Len(W) /\ \A m \in 1 .. Len(f[n]) : W[m] = f[n][m]
      <4>1. Concats(f, seqs, l)
        BY <2>1
      <4>2. Len(f[n]) <= Len(f[l]) /\ \A m \in 1 .. Len(f[n]) : f[l][m] = f[n][m]
        BY <4>1, ConcatsFront
      <4> QED
        BY <2>1, <4>2, Zenon
    <3>3. PICK y \in Nat, z \in Nat, p \in Nat : y = Len(f[n]) /\ z = start[n] /\ p = Len(seqs[n])
      <4>1. n \in 1 .. l + 1
        OBVIOUS
      <4> QED
        BY <2>2, <2>5, <4>1
    <3>4. y = z + p /\ \A m \in 1 .. p : f[n][z + m] = seqs[n][m]
      <4>1. CASE n = 1
        <5>1. f[n] = seqs[n]
          BY <2>1, <4>1 DEF Concats
        <5>2. z = 0
          BY <2>5, <3>3, <4>1
        <5> QED
          BY <3>3, <5>1, <5>2
      <4>2. CASE n # 1
        <5>1. n - 1 \in 1 .. l /\ n \in 1 .. l + 1
          BY <4>2
        <5>2. f[n] = f[n - 1] \o seqs[n]
          BY <2>1, <4>2 DEF Concats
        <5>3. PICK g \in Seq(T), s \in Seq(T) : g = f[n - 1] /\ s = seqs[n]
          BY <2>2, <5>1
        <5>4. g \in Seq(T) /\ s \in Seq(T)
          BY <5>3
        <5>5. z = Len(g)
          BY <2>3, <3>3, <4>2, <5>1, <5>3
        <5>6. /\ Len(g \o s) = Len(g) + Len(s)
              /\ \A m \in 1 .. Len(s) : (g \o s)[Len(g) + m] = s[m]
          BY <5>4, JoinOf
        <5> QED
          BY <3>3, <5>2, <5>3, <5>5, <5>6, Zenon
      <4> QED
        BY <4>1, <4>2
    <3>5. \A m \in 1 .. p : z + m \in 1 .. y
      BY <3>4
    <3>6. \A m \in 1 .. p : W[z + m] = seqs[n][m]
      BY <3>2, <3>3, <3>4, <3>5
    <3> QED
      BY <3>1, <3>2, <3>3, <3>4, <3>6
  <2>7. Laid(start, W, seqs, l)
    BY <2>5, <2>6, Zenon DEF Laid
  <2> QED
    BY <1>0, <2>7
<1> QED
  BY <1>1, <1>2

\* What the first of them take up depends on nothing else.
LEMMA LaidFront ==
  ASSUME NEW k \in Nat, NEW l \in Nat, k <= l, NEW V, NEW W, NEW some, NEW seqs,
         NEW begin, NEW start, Laid(begin, V, some, k), Laid(start, W, seqs, l),
         \A n \in 1 .. k : some[n] = seqs[n]
  PROVE  Len(V) = start[k + 1]
<1> DEFINE Bad == {n \in 1 .. k + 1 : begin[n] # start[n]}
<1>0. /\ begin[1] = 0 /\ start[1] = 0 /\ begin[k + 1] = Len(V)
      /\ \A n \in 1 .. k : begin[n + 1] = begin[n] + Len(some[n])
      /\ \A n \in 1 .. l : start[n + 1] = start[n] + Len(seqs[n])
  BY Zenon DEF Laid
<1>1. ASSUME Bad # {}  PROVE FALSE
  <2>1. Bad \in SUBSET Nat
    OBVIOUS
  <2>2. PICK n \in Bad : \A m \in Bad : n <= m
    <3> HIDE DEF Bad
    <3> QED
      BY <1>1, <2>1, LeastNatural
  <2>3. n \in 1 .. k + 1 /\ begin[n] # start[n]
    BY <2>2
  <2>4. n # 1
    BY <1>0, <2>3
  <2>5. PICK m \in 1 .. k : m + 1 = n
    <3>1. n - 1 \in 1 .. k /\ (n - 1) + 1 = n
      BY <2>3, <2>4
    <3> QED
      BY <3>1
  <2>6. m \in 1 .. k + 1 /\ m \notin Bad
    <3>1. m \in 1 .. k + 1 /\ ~(n <= m)
      BY <2>5
    <3> HIDE DEF Bad
    <3> QED
      BY <2>2, <3>1
  <2>7. begin[m] = start[m]
    BY <2>6
  <2>8. m \in 1 .. l
    BY <2>5
  <2>9. begin[m + 1] = start[m + 1]
    BY <1>0, <2>5, <2>7, <2>8
  <2> QED
    BY <2>3, <2>5, <2>9
<1>2. k + 1 \in 1 .. k + 1
  OBVIOUS
<1>3. begin[k + 1] = start[k + 1]
  BY <1>1, <1>2
<1> QED
  BY <1>0, <1>3

-----------------------------------------------------------------------------
(* HeaderParser: the parts of a line *)

NameChar == {"k", "K", "-"}
ValueChar == {"v", "w", BLANK, KEY_SEP}

LEMMA NameParts ==
  ASSUME NEW s \in Names
  PROVE  s \in Seq(HeaderChar) /\ Len(s) >= 1 /\ \A m \in 1 .. Len(s) : s[m] \in NameChar
<1>0. "k" \in HeaderChar /\ "K" \in HeaderChar /\ "-" \in HeaderChar
  BY DEF HeaderChar
<1>1. CASE s = <<"k">>
  <2>1. s \in Seq(HeaderChar) /\ Len(s) = 1 /\ s[1] = "k"
    BY <1>0, <1>1, CharSeqs
  <2> QED
    BY <2>1 DEF NameChar
<1>2. CASE s = <<"K">>
  <2>1. s \in Seq(HeaderChar) /\ Len(s) = 1 /\ s[1] = "K"
    BY <1>0, <1>2, CharSeqs
  <2> QED
    BY <2>1 DEF NameChar
<1>3. CASE s = <<"k", "-">>
  <2>1. s \in Seq(HeaderChar) /\ Len(s) = 2 /\ s[1] = "k" /\ s[2] = "-"
    BY <1>0, <1>3, CharSeqs
  <2>2. \A m \in 1 .. Len(s) : m = 1 \/ m = 2
    BY <2>1
  <2> QED
    BY <2>1, <2>2 DEF NameChar
<1> QED
  BY <1>1, <1>2, <1>3 DEF Names

LEMMA BlankParts ==
  ASSUME NEW s \in BlankValues
  PROVE  s \in Seq(HeaderChar) /\ \A m \in 1 .. Len(s) : s[m] \in ValueChar
<1>0. BLANK \in HeaderChar
  BY DEF HeaderChar
<1>1. CASE s = <<>>
  <2>1. s \in Seq(HeaderChar) /\ Len(s) = 0
    BY <1>1
  <2> QED
    BY <2>1
<1>2. CASE s = <<BLANK>>
  <2>1. s \in Seq(HeaderChar) /\ Len(s) = 1 /\ s[1] = BLANK
    BY <1>0, <1>2, CharSeqs
  <2> QED
    BY <2>1 DEF ValueChar
<1> QED
  BY <1>1, <1>2 DEF BlankValues

Blanks(value) == Len(value) - Len(Trimmed(value))

\* A value is blanks, and then a token that starts with none.
LEMMA ValueParts ==
  ASSUME NEW s \in Values
  PROVE  /\ s \in Seq(HeaderChar) /\ \A m \in 1 .. Len(s) : s[m] \in ValueChar
         /\ Trimmed(s) \in Seq(HeaderChar) /\ Len(Trimmed(s)) >= 1
         /\ Blanks(s) \in Nat /\ Len(s) = Blanks(s) + Len(Trimmed(s))
         /\ \A m \in 1 .. Blanks(s) : s[m] = BLANK
         /\ \A m \in 1 .. Len(Trimmed(s)) : s[Blanks(s) + m] = Trimmed(s)[m]
         /\ Trimmed(s)[1] # BLANK
<1>0. /\ "v" \in HeaderChar /\ "w" \in HeaderChar /\ BLANK \in HeaderChar /\ KEY_SEP \in HeaderChar
      /\ "v" # BLANK /\ "w" # BLANK
      /\ "v" \in ValueChar /\ "w" \in ValueChar /\ BLANK \in ValueChar /\ KEY_SEP \in ValueChar
  BY Distinct DEF HeaderChar, ValueChar
<1>1. ASSUME s \in Seq(HeaderChar), Len(s) >= 1, s[1] # BLANK,
             \A m \in 1 .. Len(s) : s[m] \in ValueChar
      PROVE  /\ Trimmed(s) \in Seq(HeaderChar) /\ Len(Trimmed(s)) >= 1
             /\ Blanks(s) \in Nat /\ Len(s) = Blanks(s) + Len(Trimmed(s))
             /\ \A m \in 1 .. Blanks(s) : s[m] = BLANK
             /\ \A m \in 1 .. Len(Trimmed(s)) : s[Blanks(s) + m] = Trimmed(s)[m]
             /\ Trimmed(s)[1] # BLANK
  <2>1. Trimmed(s) = s
    <3>1. s # <<>>
      BY <1>1
    <3>2. Head(s) = s[1]
      BY <1>1, <3>1
    <3> QED
      BY <1>1, <3>2 DEF Trimmed
  <2>2. Len(s) \in Nat
    BY <1>1, LenProperties
  <2>3. Blanks(s) = 0
    BY <2>1, <2>2 DEF Blanks
  <2>4. \A m \in 1 .. Len(s) : 0 + m = m
    BY <2>2
  <2> QED
    BY <1>1, <2>1, <2>2, <2>3, <2>4
<1>2. CASE s = <<"v">>
  <2>1. s \in Seq(HeaderChar) /\ Len(s) = 1 /\ s[1] = "v"
    BY <1>0, <1>2, CharSeqs
  <2>2. /\ s \in Seq(HeaderChar) /\ Len(s) >= 1 /\ s[1] # BLANK
        /\ \A m \in 1 .. Len(s) : s[m] \in ValueChar
    BY <1>0, <2>1
  <2> QED
    BY <1>1, <2>2
<1>3. CASE s = <<"w">>
  <2>1. s \in Seq(HeaderChar) /\ Len(s) = 1 /\ s[1] = "w"
    BY <1>0, <1>3, CharSeqs
  <2>2. /\ s \in Seq(HeaderChar) /\ Len(s) >= 1 /\ s[1] # BLANK
        /\ \A m \in 1 .. Len(s) : s[m] \in ValueChar
    BY <1>0, <2>1
  <2> QED
    BY <1>1, <2>2
<1>4. CASE s = <<"v", BLANK>>
  <2>1. s \in Seq(HeaderChar) /\ Len(s) = 2 /\ s[1] = "v" /\ s[2] = BLANK
    BY <1>0, <1>4, CharSeqs
  <2>2. \A m \in 1 .. Len(s) : m = 1 \/ m = 2
    BY <2>1
  <2>3. /\ s \in Seq(HeaderChar) /\ Len(s) >= 1 /\ s[1] # BLANK
        /\ \A m \in 1 .. Len(s) : s[m] \in ValueChar
    BY <1>0, <2>1, <2>2
  <2> QED
    BY <1>1, <2>3
<1>5. CASE s = <<"v", KEY_SEP>>
  <2>1. s \in Seq(HeaderChar) /\ Len(s) = 2 /\ s[1] = "v" /\ s[2] = KEY_SEP
    BY <1>0, <1>5, CharSeqs
  <2>2. \A m \in 1 .. Len(s) : m = 1 \/ m = 2
    BY <2>1
  <2>3. /\ s \in Seq(HeaderChar) /\ Len(s) >= 1 /\ s[1] # BLANK
        /\ \A m \in 1 .. Len(s) : s[m] \in ValueChar
    BY <1>0, <2>1, <2>2
  <2> QED
    BY <1>1, <2>3
<1>6. CASE s = <<BLANK, "v">>
  <2>1. s \in Seq(HeaderChar) /\ Len(s) = 2 /\ s[1] = BLANK /\ s[2] = "v"
    BY <1>0, <1>6, CharSeqs
  <2>2. \A m \in 1 .. Len(s) : m = 1 \/ m = 2
    BY <2>1
  <2>3. Trimmed(s) = Tail(s)
    <3>1. Head(s) = s[1]
      BY <1>6
    <3> QED
      BY <2>1, <3>1 DEF Trimmed
  <2>4. PICK t : t = Trimmed(s)
    OBVIOUS
  <2>5. t = <<"v">>
    <3>1. Tail(<<BLANK, "v">>) = <<"v">>
      OBVIOUS
    <3> QED
      BY <1>6, <2>3, <2>4, <3>1
  <2>6. t \in Seq(HeaderChar) /\ Len(t) = 1 /\ t[1] = "v"
    BY <1>0, <2>5, CharSeqs
  <2>7. Blanks(s) = 1
    BY <2>1, <2>4, <2>6 DEF Blanks
  <2>8. /\ \A m \in 1 .. 1 : s[m] = BLANK
        /\ \A m \in 1 .. 1 : s[1 + m] = t[m]
    BY <2>1, <2>6
  <2> QED
    BY <1>0, <2>1, <2>2, <2>4, <2>6, <2>7, <2>8
<1> QED
  BY <1>2, <1>3, <1>4, <1>5, <1>6 DEF Values

LEMMA LineParts ==
  ASSUME NEW l \in HeaderLines
  PROVE  /\ l.name \in Names /\ l.sep \in {<<>>, <<KEY_SEP>>} /\ l.value \in Values \cup BlankValues
         /\ l.name \in Seq(HeaderChar) /\ l.sep \in Seq(HeaderChar) /\ l.value \in Seq(HeaderChar)
         /\ Len(l.name) >= 1 /\ \A m \in 1 .. Len(l.name) : l.name[m] \in NameChar
         /\ \A m \in 1 .. Len(l.sep) : l.sep[m] = KEY_SEP
         /\ \A m \in 1 .. Len(l.value) : l.value[m] \in ValueChar
         /\ WellFormed(l) => l.value \in Values /\ l.sep = <<KEY_SEP>>
<1>1. l.name \in Names /\ l.sep \in {<<>>, <<KEY_SEP>>} /\ l.value \in Values \cup BlankValues
  BY DEF HeaderLines, HeaderLine
<1>2. l.sep \in Seq(HeaderChar) /\ \A m \in 1 .. Len(l.sep) : l.sep[m] = KEY_SEP
  <2>1. KEY_SEP \in HeaderChar
    BY DEF HeaderChar
  <2>2. CASE l.sep = <<>>
    BY <2>2
  <2>3. CASE l.sep = <<KEY_SEP>>
    <3>1. PICK s : s = l.sep
      OBVIOUS
    <3>2. s \in Seq(HeaderChar) /\ Len(s) = 1 /\ s[1] = KEY_SEP
      BY <2>1, <2>3, <3>1, CharSeqs
    <3> QED
      BY <3>1, <3>2
  <2> QED
    BY <1>1, <2>2, <2>3
<1>3. WellFormed(l) => l.value \in Values /\ l.sep = <<KEY_SEP>>
  BY <1>1 DEF WellFormed
<1> QED
  BY <1>1, <1>2, <1>3, NameParts, ValueParts, BlankParts

LEMMA InRange ==
  ASSUME NEW a \in Nat, NEW b \in Nat, NEW c \in Nat
  PROVE  /\ \A m \in 1 .. a : m \in 1 .. a + b /\ m \in 1 .. a + b + c
         /\ \A m \in 1 .. b : a + m \in 1 .. a + b /\ a + m \in 1 .. a + b + c
         /\ \A m \in 1 .. c : a + b + m \in 1 .. a + b + c
  OBVIOUS

LineBytes(l) == l.name \o l.sep \o l.value \o CrLf

\* s is the line l, whose parts are that long.
LineIs(s, l, a, b, c) ==
    /\ a \in Nat /\ b \in Nat /\ c \in Nat
    /\ a = Len(l.name) /\ b = Len(l.sep) /\ c = Len(l.value)
    /\ Len(s) = a + b + c + 2
    /\ \A m \in 1 .. a : s[m] = l.name[m]
    /\ \A m \in 1 .. b : s[a + m] = l.sep[m]
    /\ \A m \in 1 .. c : s[a + b + m] = l.value[m]
    /\ s[a + b + c + 1] = CR /\ s[a + b + c + 2] = LF

LEMMA LineBytesOf ==
  ASSUME NEW l \in HeaderLines, NEW s, s = LineBytes(l)
  PROVE  s \in Seq(HeaderChar) /\ \E a, b, c : LineIs(s, l, a, b, c)
<1>0. PICK a \in Nat, b \in Nat, c \in Nat : a = Len(l.name) /\ b = Len(l.sep) /\ c = Len(l.value)
  BY LineParts, LenProperties
<1>n. a \in Nat /\ b \in Nat /\ c \in Nat
  BY <1>0
<1>1. PICK x \in Seq(HeaderChar), y \in Seq(HeaderChar), z \in Seq(HeaderChar), e \in Seq(HeaderChar) :
         x = l.name /\ y = l.sep /\ z = l.value /\ e = CrLf
  <2>1. CR \in HeaderChar /\ LF \in HeaderChar
    BY DEF HeaderChar
  <2>2. CrLf \in Seq(HeaderChar)
    BY <2>1, CharSeqs DEF CrLf
  <2> QED
    BY <2>2, LineParts
<1>2. x \in Seq(HeaderChar) /\ y \in Seq(HeaderChar) /\ z \in Seq(HeaderChar) /\ e \in Seq(HeaderChar)
  BY <1>1
<1>3. Len(x) = a /\ Len(y) = b /\ Len(z) = c /\ Len(e) = 2 /\ e[1] = CR /\ e[2] = LF
  BY <1>0, <1>1 DEF CrLf
<1>4. PICK xy \in Seq(HeaderChar) : xy = x \o y
  BY <1>2, JoinOf
<1>5. PICK xyz \in Seq(HeaderChar) : xyz = xy \o z
  <2>1. xy \in Seq(HeaderChar)
    BY <1>4
  <2> QED
    BY <1>2, <2>1, JoinOf
<1>6. xy \in Seq(HeaderChar) /\ xyz \in Seq(HeaderChar)
  BY <1>4, <1>5
<1>7. s = xyz \o e
  BY <1>1, <1>4, <1>5, Zenon DEF LineBytes
<1>8. /\ Len(x \o y) = Len(x) + Len(y)
      /\ \A m \in 1 .. Len(x) : (x \o y)[m] = x[m]
      /\ \A m \in 1 .. Len(y) : (x \o y)[Len(x) + m] = y[m]
  BY <1>2, JoinOf
<1>9. /\ Len(xy) = a + b
      /\ \A m \in 1 .. a : xy[m] = x[m]
      /\ \A m \in 1 .. b : xy[a + m] = y[m]
  BY <1>3, <1>4, <1>8, Zenon
<1>10. /\ Len(xy \o z) = Len(xy) + Len(z)
       /\ \A m \in 1 .. Len(xy) : (xy \o z)[m] = xy[m]
       /\ \A m \in 1 .. Len(z) : (xy \o z)[Len(xy) + m] = z[m]
  BY <1>2, <1>6, JoinOf
<1>11. /\ Len(xyz) = a + b + c
       /\ \A m \in 1 .. a + b : xyz[m] = xy[m]
       /\ \A m \in 1 .. c : xyz[a + b + m] = z[m]
  BY <1>3, <1>5, <1>9, <1>10, Zenon
<1>12. /\ xyz \o e \in Seq(HeaderChar)
       /\ Len(xyz \o e) = Len(xyz) + Len(e)
       /\ \A m \in 1 .. Len(xyz) : (xyz \o e)[m] = xyz[m]
       /\ \A m \in 1 .. Len(e) : (xyz \o e)[Len(xyz) + m] = e[m]
  BY <1>2, <1>6, JoinOf
<1>13. /\ s \in Seq(HeaderChar) /\ Len(s) = a + b + c + 2
       /\ \A m \in 1 .. a + b + c : s[m] = xyz[m]
       /\ \A m \in 1 .. 2 : s[a + b + c + m] = e[m]
  BY <1>3, <1>7, <1>11, <1>12, Zenon
<1>14. \A m \in 1 .. a : s[m] = x[m]
  <2>1. \A m \in 1 .. a : m \in 1 .. a + b /\ m \in 1 .. a + b + c
    BY InRange, Zenon
  <2> QED
    BY <1>9, <1>11, <1>13, <2>1
<1>15. \A m \in 1 .. b : s[a + m] = y[m]
  <2>1. \A m \in 1 .. b : a + m \in 1 .. a + b /\ a + m \in 1 .. a + b + c
    BY InRange, Zenon
  <2> QED
    BY <1>9, <1>11, <1>13, <2>1
<1>16. \A m \in 1 .. c : s[a + b + m] = z[m]
  <2>1. \A m \in 1 .. c : a + b + m \in 1 .. a + b + c
    BY InRange, Zenon
  <2> QED
    BY <1>11, <1>13, <2>1
<1>17. s[a + b + c + 1] = CR /\ s[a + b + c + 2] = LF
  <2>1. 1 \in 1 .. 2 /\ 2 \in 1 .. 2
    OBVIOUS
  <2> QED
    BY <1>3, <1>13, <2>1
<1>18. /\ a = Len(l.name) /\ b = Len(l.sep) /\ c = Len(l.value)
       /\ \A m \in 1 .. a : s[m] = l.name[m]
       /\ \A m \in 1 .. b : s[a + m] = l.sep[m]
       /\ \A m \in 1 .. c : s[a + b + m] = l.value[m]
  BY <1>0, <1>1, <1>14, <1>15, <1>16, Zenon
<1>19. LineIs(s, l, a, b, c)
  BY <1>n, <1>13, <1>17, <1>18, Zenon DEF LineIs
<1> QED
  BY <1>13, <1>19, Zenon

\* The bytes of some lines.
LEMMA BytesOf ==
  ASSUME NEW ls \in Seq(HeaderLines), NEW k \in Nat, k = Len(ls), NEW W, W = Bytes(ls)
  PROVE  /\ W \in Seq(HeaderChar)
         /\ \E start : Laid(start, W, [n \in 1 .. k |-> LineBytes(ls[n])], k)
<1> DEFINE seqs == [n \in 1 .. k |-> LineBytes(ls[n])]
<1>1. DOMAIN ls = 1 .. k
  BY LenProperties
<1>2. W = FlattenSeq(seqs)
  BY <1>1, Zenon DEF Bytes, LineBytes
<1>3. seqs \in Seq(Seq(HeaderChar)) /\ Len(seqs) = k
  <2>1. ASSUME NEW n \in 1 .. k  PROVE seqs[n] \in Seq(HeaderChar)
    <3>1. PICK l \in HeaderLines : l = ls[n]
      BY ElementOfSeq
    <3>2. PICK s : s = LineBytes(l)
      OBVIOUS
    <3>4. s \in Seq(HeaderChar)
      BY <3>2, LineBytesOf, Zenon
    <3>5. seqs[n] = s
      BY <3>1, <3>2
    <3> QED
      BY <3>4, <3>5, Zenon
  <2>2. seqs = [n \in 1 .. k |-> seqs[n]]
    OBVIOUS
  <2> HIDE DEF seqs
  <2>3. seqs \in [1 .. k -> Seq(HeaderChar)]
    BY <2>1, <2>2
  <2> QED
    BY <2>3
<1> HIDE DEF seqs
<1>4. W \in Seq(HeaderChar) /\ \E start : Laid(start, W, seqs, k)
  BY <1>2, <1>3, FlattenLaid
<1> QED
  BY <1>4 DEF seqs

LEMMA HeadOf ==
  ASSUME NEW head, head = FirstLine \o CrLf
  PROVE  /\ head \in Seq(HeaderChar) /\ Len(head) = 10
         /\ head[1] = "G" /\ head[2] = BLANK /\ head[3] = "u" /\ head[4] = "?" /\ head[5] = "u"
         /\ head[6] = BLANK /\ head[7] = "P" /\ head[8] = "P" /\ head[9] = CR /\ head[10] = LF
<1>0. {"G", BLANK, "u", "?", "P", CR, LF} \subseteq HeaderChar
  BY DEF HeaderChar
<1>1. FirstLine \in Seq(HeaderChar) /\ CrLf \in Seq(HeaderChar)
  <2>1. FirstLine \in Seq(HeaderChar)
    BY <1>0 DEF FirstLine
  <2>2. CrLf \in Seq(HeaderChar)
    BY <1>0 DEF CrLf
  <2> QED
    BY <2>1, <2>2
<1>2. PICK s \in Seq(HeaderChar), t \in Seq(HeaderChar) : s = FirstLine /\ t = CrLf
  BY <1>1
<1>n. s \in Seq(HeaderChar) /\ t \in Seq(HeaderChar)
  BY <1>2
<1>3. /\ Len(s) = 8 /\ s[1] = "G" /\ s[2] = BLANK /\ s[3] = "u" /\ s[4] = "?"
      /\ s[5] = "u" /\ s[6] = BLANK /\ s[7] = "P" /\ s[8] = "P"
  BY <1>2 DEF FirstLine
<1>4. Len(t) = 2 /\ t[1] = CR /\ t[2] = LF
  BY <1>2 DEF CrLf
<1>5. /\ s \o t \in Seq(HeaderChar)
      /\ Len(s \o t) = Len(s) + Len(t)
      /\ \A m \in 1 .. Len(s) : (s \o t)[m] = s[m]
      /\ \A m \in 1 .. Len(t) : (s \o t)[Len(s) + m] = t[m]
  BY <1>n, JoinOf
<1>6. head = s \o t
  BY <1>2
<1>7. /\ head \in Seq(HeaderChar) /\ Len(head) = 8 + 2
      /\ \A m \in 1 .. 8 : head[m] = s[m]
      /\ \A m \in 1 .. 2 : head[8 + m] = t[m]
  BY <1>3, <1>4, <1>5, <1>6, Zenon
<1>8. head[9] = CR /\ head[10] = LF
  <2>1. \A m \in 1 .. 2 : head[8 + m] = t[m]
    BY <1>7
  <2>2. 1 \in 1 .. 2 /\ 2 \in 1 .. 2 /\ 8 + 1 = 9 /\ 8 + 2 = 10
    OBVIOUS
  <2>3. head[8 + 1] = t[1] /\ head[8 + 2] = t[2]
    BY <2>1, <2>2, Zenon
  <2> QED
    BY <1>4, <2>2, <2>3
<1>9. /\ head[1] = s[1] /\ head[2] = s[2] /\ head[3] = s[3] /\ head[4] = s[4]
      /\ head[5] = s[5] /\ head[6] = s[6] /\ head[7] = s[7] /\ head[8] = s[8]
  <2>1. \A m \in 1 .. 8 : head[m] = s[m]
    BY <1>7
  <2>2. /\ 1 \in 1 .. 8 /\ 2 \in 1 .. 8 /\ 3 \in 1 .. 8 /\ 4 \in 1 .. 8
        /\ 5 \in 1 .. 8 /\ 6 \in 1 .. 8 /\ 7 \in 1 .. 8 /\ 8 \in 1 .. 8
    OBVIOUS
  <2> QED
    BY <2>1, <2>2, Zenon
<1>10. head \in Seq(HeaderChar) /\ Len(head) = 10
  BY <1>7
<1> QED
  BY <1>3, <1>8, <1>9, <1>10

\* What the client sent, whatever became of it.
SentInv ==
    /\ lines \in Seq(HeaderLines)
    /\ \E body \in Bodies : buf = FirstLine \o CrLf \o Bytes(lines) \o CrLf \o body

LEMMA BufferOf ==
  ASSUME SentInv, NEW B, B = Bytes(lines), NEW h, h = Len(B)
  PROVE  /\ buf \in Seq(HeaderChar) /\ h \in Nat /\ 10 + h + 2 <= Len(buf)
         /\ buf[1] = "G" /\ buf[2] = BLANK /\ buf[3] = "u" /\ buf[4] = "?" /\ buf[5] = "u"
         /\ buf[6] = BLANK /\ buf[7] = "P" /\ buf[8] = "P" /\ buf[9] = CR /\ buf[10] = LF
         /\ \A m \in 1 .. h : buf[10 + m] = B[m]
         /\ buf[10 + h + 1] = CR /\ buf[10 + h + 2] = LF
<1>1. PICK head : head = FirstLine \o CrLf
  OBVIOUS
<1>2. PICK body \in Bodies : buf = head \o B \o CrLf \o body
  BY <1>1, Zenon DEF SentInv
<1>3. CR \in HeaderChar /\ LF \in HeaderChar /\ "k" \in HeaderChar /\ "v" \in HeaderChar /\ KEY_SEP \in HeaderChar
  BY DEF HeaderChar
<1>4. body \in Seq(HeaderChar)
  <2>1. CASE body = <<>>
    BY <2>1
  <2>2. CASE body = <<"k", KEY_SEP, "v", CR, LF>>
    BY <1>3, <2>2
  <2> QED
    BY <2>1, <2>2 DEF Bodies
<1>5. head \in Seq(HeaderChar) /\ Len(head) = 10
  BY <1>1, HeadOf
<1>6. B \in Seq(HeaderChar) /\ h \in Nat
  <2>1. lines \in Seq(HeaderLines) /\ Len(lines) \in Nat
    BY LenProperties DEF SentInv
  <2>2. B \in Seq(HeaderChar)
    BY <2>1, BytesOf
  <2> QED
    BY <2>2, LenProperties
<1>7. CrLf \in Seq(HeaderChar) /\ Len(CrLf) = 2 /\ CrLf[1] = CR /\ CrLf[2] = LF
  BY <1>3, CharSeqs DEF CrLf
<1>8. PICK x \in Seq(HeaderChar) : x = head \o B
  BY <1>5, <1>6, JoinOf
<1>9. x \in Seq(HeaderChar)
  BY <1>8
<1>10. PICK y \in Seq(HeaderChar) : y = x \o CrLf
  BY <1>7, <1>9, JoinOf
<1>11. y \in Seq(HeaderChar)
  BY <1>10
<1>12. buf = y \o body
  BY <1>2, <1>8, <1>10, Zenon
<1>13. /\ Len(x) = 10 + h /\ \A m \in 1 .. 10 : x[m] = head[m]
       /\ \A m \in 1 .. h : x[10 + m] = B[m]
  <2>1. /\ Len(head \o B) = Len(head) + Len(B)
        /\ \A m \in 1 .. Len(head) : (head \o B)[m] = head[m]
        /\ \A m \in 1 .. Len(B) : (head \o B)[Len(head) + m] = B[m]
    <3>1. head \in Seq(HeaderChar) /\ B \in Seq(HeaderChar)
      BY <1>5, <1>6
    <3> QED
      BY <3>1, JoinOf
  <2> QED
    BY <1>5, <1>8, <2>1, Zenon
<1>14. /\ Len(y) = 10 + h + 2 /\ \A m \in 1 .. 10 + h : y[m] = x[m]
       /\ \A m \in 1 .. 2 : y[10 + h + m] = CrLf[m]
  <2>1. /\ Len(x \o CrLf) = Len(x) + Len(CrLf)
        /\ \A m \in 1 .. Len(x) : (x \o CrLf)[m] = x[m]
        /\ \A m \in 1 .. Len(CrLf) : (x \o CrLf)[Len(x) + m] = CrLf[m]
    <3>1. x \in Seq(HeaderChar) /\ CrLf \in Seq(HeaderChar)
      BY <1>7, <1>9
    <3> QED
      BY <3>1, JoinOf
  <2> QED
    BY <1>7, <1>10, <1>13, <2>1, Zenon
<1>15. /\ buf \in Seq(HeaderChar) /\ Len(buf) = 10 + h + 2 + Len(body) /\ Len(body) \in Nat
       /\ \A m \in 1 .. 10 + h + 2 : buf[m] = y[m]
  <2>1. /\ y \o body \in Seq(HeaderChar) /\ Len(y \o body) = Len(y) + Len(body) /\ Len(body) \in Nat
        /\ \A m \in 1 .. Len(y) : (y \o body)[m] = y[m]
    BY <1>4, <1>11, JoinOf
  <2> QED
    BY <1>12, <1>14, <2>1, Zenon
<1>16. ASSUME NEW m \in 1 .. 10  PROVE buf[m] = head[m]
  <2>1. m \in 1 .. 10 + h /\ m \in 1 .. 10 + h + 2
    BY <1>6
  <2>2. buf[m] = y[m]
    BY <1>15, <2>1, Zenon
  <2>3. y[m] = x[m]
    BY <1>14, <2>1, Zenon
  <2>4. x[m] = head[m]
    BY <1>13, Zenon
  <2> QED
    BY <2>2, <2>3, <2>4, Zenon
<1>17. ASSUME NEW m \in 1 .. h  PROVE buf[10 + m] = B[m]
  <2>1. 10 + m \in 1 .. 10 + h /\ 10 + m \in 1 .. 10 + h + 2
    BY <1>6
  <2>2. buf[10 + m] = y[10 + m]
    BY <1>15, <2>1, Zenon
  <2>3. y[10 + m] = x[10 + m]
    BY <1>14, <2>1, Zenon
  <2>4. x[10 + m] = B[m]
    BY <1>13, Zenon
  <2> QED
    BY <2>2, <2>3, <2>4, Zenon
<1>18. buf[10 + h + 1] = CR /\ buf[10 + h + 2] = LF
  <2>1. 1 \in 1 .. 2 /\ 2 \in 1 .. 2 /\ 10 + h + 1 \in 1 .. 10 + h + 2 /\ 10 + h + 2 \in 1 .. 10 + h + 2
    BY <1>6
  <2> QED
    BY <1>7, <1>14, <1>15, <2>1
<1>19. 10 + h + 2 <= Len(buf)
  BY <1>6, <1>15
<1>20. /\ buf[1] = "G" /\ buf[2] = BLANK /\ buf[3] = "u" /\ buf[4] = "?" /\ buf[5] = "u"
       /\ buf[6] = BLANK /\ buf[7] = "P" /\ buf[8] = "P" /\ buf[9] = CR /\ buf[10] = LF
  <2>1. /\ head[1] = "G" /\ head[2] = BLANK /\ head[3] = "u" /\ head[4] = "?" /\ head[5] = "u"
        /\ head[6] = BLANK /\ head[7] = "P" /\ head[8] = "P" /\ head[9] = CR /\ head[10] = LF
    BY <1>1, HeadOf
  <2> QED
    BY <1>16, <2>1
<1> QED
  BY <1>6, <1>15, <1>17, <1>18, <1>19, <1>20

\* The ends of the lines, as LineEnd counts them.
LEMMA LineEndOf ==
  ASSUME lines \in Seq(HeaderLines), NEW L \in Nat, L = Len(lines), NEW start, NEW W,
         Laid(start, W, [n \in 1 .. L |-> LineBytes(lines[n])], L), NEW n \in 0 .. L
  PROVE  LineEnd(n) = 9 + start[n + 1] /\ start[n + 1] \in Nat
<1>1. PICK ls : ls = SubSeq(lines, 1, n)
  OBVIOUS
<1>2. ls \in Seq(HeaderLines) /\ n \in Nat /\ n = Len(ls) /\ \A m \in 1 .. n : ls[m] = lines[m]
  <2>1. \A m \in 1 .. n : lines[m] \in HeaderLines
    <3>1. \A m \in 1 .. n : m \in 1 .. L
      OBVIOUS
    <3> QED
      BY <3>1, ElementOfSeq
  <2>2. /\ SubSeq(lines, 1, n) \in Seq(HeaderLines)
        /\ Len(SubSeq(lines, 1, n)) = IF 1 <= n THEN n - 1 + 1 ELSE 0
        /\ \A m \in 1 .. n - 1 + 1 : SubSeq(lines, 1, n)[m] = lines[1 + m - 1]
    BY <2>1, SubSeqProperties
  <2>3. /\ (IF 1 <= n THEN n - 1 + 1 ELSE 0) = n /\ n - 1 + 1 = n
        /\ \A m \in 1 .. n : 1 + m - 1 = m
    OBVIOUS
  <2> QED
    BY <1>1, <2>2, <2>3
<1>3. PICK V : V = Bytes(ls)
  OBVIOUS
<1>4. PICK begin : V \in Seq(HeaderChar) /\ Laid(begin, V, [m \in 1 .. n |-> LineBytes(ls[m])], n)
  BY <1>2, <1>3, BytesOf
<1>5. Len(V) = start[n + 1]
  <2>1. PICK some, seqs : some = [m \in 1 .. n |-> LineBytes(ls[m])]
                          /\ seqs = [m \in 1 .. L |-> LineBytes(lines[m])]
    OBVIOUS
  <2>2. \A m \in 1 .. n : some[m] = seqs[m]
    <3>1. \A m \in 1 .. n : m \in 1 .. L
      OBVIOUS
    <3> QED
      BY <1>2, <2>1, <3>1
  <2>3. Laid(begin, V, some, n) /\ Laid(start, W, seqs, L)
    BY <1>4, <2>1, Zenon
  <2>4. n \in Nat /\ n <= L
    OBVIOUS
  <2> QED
    BY <2>2, <2>3, <2>4, LaidFront
<1>6. Len(V) \in Nat
  BY <1>4, LenProperties
<1>7. PICK head \in Seq(HeaderChar) : head = FirstLine \o CrLf
  BY HeadOf
<1>8. Len(head \o V) = Len(head) + Len(V)
  <2>1. head \in Seq(HeaderChar) /\ V \in Seq(HeaderChar)
    BY <1>4, <1>7
  <2> QED
    BY <2>1, JoinOf
<1>9. LineEnd(n) = Len(head \o V) - 1
  BY <1>1, <1>3, <1>7, Zenon DEF LineEnd
<1>10. Len(head) = 10
  BY <1>7, HeadOf
<1> QED
  BY <1>5, <1>6, <1>8, <1>9, <1>10

\* The line l, between the CR before it, o, and its own, e.
LineAt(l, o, e) ==
    /\ e = o + 1 + Len(l.name) + Len(l.sep) + Len(l.value) + 1
    /\ \A m \in 1 .. Len(l.name) : buf[o + 1 + m] = l.name[m]
    /\ \A m \in 1 .. Len(l.sep) : buf[o + 1 + Len(l.name) + m] = l.sep[m]
    /\ \A m \in 1 .. Len(l.value) : buf[o + 1 + Len(l.name) + Len(l.sep) + m] = l.value[m]
    /\ buf[e] = CR /\ buf[e + 1] = LF

LEMMA LineOffsets ==
  ASSUME NEW z \in Nat, NEW a \in Nat, NEW b \in Nat, NEW c \in Nat, NEW d \in Nat, NEW e \in Nat,
         d = a + b + c + 2, e = 9 + z + d
  PROVE  /\ \A m \in 1 .. d : 10 + (z + m) = 9 + z + 1 + m
         /\ \A m \in 1 .. a : m \in 1 .. d
         /\ \A m \in 1 .. b : a + m \in 1 .. d /\ 9 + z + 1 + (a + m) = 9 + z + 1 + a + m
         /\ \A m \in 1 .. c : a + b + m \in 1 .. d /\ 9 + z + 1 + (a + b + m) = 9 + z + 1 + a + b + m
         /\ a + b + c + 1 \in 1 .. d /\ 9 + z + 1 + (a + b + c + 1) = e
         /\ a + b + c + 2 \in 1 .. d /\ 9 + z + 1 + (a + b + c + 2) = e + 1
         /\ e = 9 + z + 1 + a + b + c + 1
<1>1. \A m \in 1 .. d : 10 + (z + m) = 9 + z + 1 + m
  OBVIOUS
<1>2. \A m \in 1 .. a : m \in 1 .. d
  OBVIOUS
<1>3. \A m \in 1 .. b : a + m \in 1 .. d /\ 9 + z + 1 + (a + m) = 9 + z + 1 + a + m
  OBVIOUS
<1>4. \A m \in 1 .. c : a + b + m \in 1 .. d /\ 9 + z + 1 + (a + b + m) = 9 + z + 1 + a + b + m
  OBVIOUS
<1>5. /\ a + b + c + 1 \in 1 .. d /\ 9 + z + 1 + (a + b + c + 1) = e
      /\ a + b + c + 2 \in 1 .. d /\ 9 + z + 1 + (a + b + c + 2) = e + 1
      /\ e = 9 + z + 1 + a + b + c + 1
  OBVIOUS
<1> QED
  BY <1>1, <1>2, <1>3, <1>4, <1>5

LEMMA LineIsAt ==
  ASSUME NEW B, NEW h \in Nat, \A m \in 1 .. h : buf[10 + m] = B[m],
         NEW l \in HeaderLines, NEW s, s = LineBytes(l), NEW z \in Nat, z + Len(s) <= h,
         \A m \in 1 .. Len(s) : B[z + m] = s[m]
  PROVE  LineAt(l, 9 + z, 9 + z + Len(s))
<1>2. PICK a, b, c : LineIs(s, l, a, b, c)
  BY LineBytesOf, Zenon
<1>1. a \in Nat /\ b \in Nat /\ c \in Nat
  BY <1>2, Zenon DEF LineIs
<1>3. a = Len(l.name) /\ b = Len(l.sep) /\ c = Len(l.value)
  BY <1>2, Zenon DEF LineIs
<1>4. /\ Len(s) = a + b + c + 2
      /\ \A m \in 1 .. a : s[m] = l.name[m]
      /\ \A m \in 1 .. b : s[a + m] = l.sep[m]
      /\ \A m \in 1 .. c : s[a + b + m] = l.value[m]
      /\ s[a + b + c + 1] = CR /\ s[a + b + c + 2] = LF
  BY <1>2, Zenon DEF LineIs
<1>5. PICK d, e : d = a + b + c + 2 /\ e = 9 + z + d
  OBVIOUS
<1>6. d \in Nat /\ e \in Nat
  BY <1>1, <1>5
<1>7. /\ \A m \in 1 .. d : 10 + (z + m) = 9 + z + 1 + m
      /\ \A m \in 1 .. a : m \in 1 .. d
      /\ \A m \in 1 .. b : a + m \in 1 .. d /\ 9 + z + 1 + (a + m) = 9 + z + 1 + a + m
      /\ \A m \in 1 .. c : a + b + m \in 1 .. d /\ 9 + z + 1 + (a + b + m) = 9 + z + 1 + a + b + m
      /\ a + b + c + 1 \in 1 .. d /\ 9 + z + 1 + (a + b + c + 1) = e
      /\ a + b + c + 2 \in 1 .. d /\ 9 + z + 1 + (a + b + c + 2) = e + 1
      /\ e = 9 + z + 1 + a + b + c + 1
  <2>1. d = a + b + c + 2 /\ e = 9 + z + d
    BY <1>5
  <2> QED
    BY <1>1, <1>6, <2>1, LineOffsets
<1>8. \A m \in 1 .. d : buf[9 + z + 1 + m] = s[m]
  <2>1. z + d <= h /\ \A m \in 1 .. d : B[z + m] = s[m]
    BY <1>4, <1>5, Zenon
  <2>2. \A m \in 1 .. d : z + m \in 1 .. h
    BY <1>6, <2>1
  <2>3. \A m \in 1 .. d : buf[10 + (z + m)] = s[m]
    BY <2>1, <2>2, Zenon
  <2> QED
    BY <1>7, <2>3, Zenon
<1>9. \A m \in 1 .. a : buf[9 + z + 1 + m] = l.name[m]
  BY <1>4, <1>7, <1>8, Zenon
<1>10. ASSUME NEW m \in 1 .. b  PROVE buf[9 + z + 1 + a + m] = l.sep[m]
  <2>1. a + m \in 1 .. d /\ 9 + z + 1 + (a + m) = 9 + z + 1 + a + m
    BY <1>7, Zenon
  <2>2. buf[9 + z + 1 + (a + m)] = s[a + m]
    BY <1>8, <2>1, Zenon
  <2>3. s[a + m] = l.sep[m]
    BY <1>4, Zenon
  <2> QED
    BY <2>1, <2>2, <2>3, Zenon
<1>11. ASSUME NEW m \in 1 .. c  PROVE buf[9 + z + 1 + a + b + m] = l.value[m]
  <2>1. a + b + m \in 1 .. d /\ 9 + z + 1 + (a + b + m) = 9 + z + 1 + a + b + m
    BY <1>7, Zenon
  <2>2. buf[9 + z + 1 + (a + b + m)] = s[a + b + m]
    BY <1>8, <2>1, Zenon
  <2>3. s[a + b + m] = l.value[m]
    BY <1>4, Zenon
  <2> QED
    BY <2>1, <2>2, <2>3, Zenon
<1>12. buf[e] = CR /\ buf[e + 1] = LF
  BY <1>4, <1>7, <1>8, Zenon
<1>13. LineAt(l, 9 + z, e)
  BY <1>3, <1>7, <1>9, <1>10, <1>11, <1>12, Zenon DEF LineAt
<1> QED
  BY <1>4, <1>5, <1>13, Zenon

LEMMA Layout ==
  ASSUME SentInv, NEW L, L = Len(lines)
  PROVE  /\ L \in Nat /\ buf \in Seq(HeaderChar) /\ LineEnd(0) = 9
         /\ \A n \in 0 .. L : /\ LineEnd(n) \in Nat /\ 9 <= LineEnd(n) /\ LineEnd(n) + 3 <= Len(buf)
                              /\ buf[LineEnd(n) + 1] = LF
         /\ \A n \in 0 .. L - 1 : /\ lines[n + 1] \in HeaderLines
                                  /\ LineAt(lines[n + 1], LineEnd(n), LineEnd(n + 1))
         /\ buf[LineEnd(L) + 2] = CR
<1>1. L \in Nat /\ lines \in Seq(HeaderLines)
  BY LenProperties DEF SentInv
<1>2. PICK B, h : B = Bytes(lines) /\ h = Len(B)
  OBVIOUS
<1>3. /\ buf \in Seq(HeaderChar) /\ h \in Nat /\ 10 + h + 2 <= Len(buf) /\ buf[10] = LF
      /\ \A m \in 1 .. h : buf[10 + m] = B[m]
      /\ buf[10 + h + 1] = CR
  <2>1. buf \in Seq(HeaderChar) /\ h \in Nat /\ 10 + h + 2 <= Len(buf) /\ buf[10] = LF
    BY <1>2, BufferOf
  <2>2. \A m \in 1 .. h : buf[10 + m] = B[m]
    BY <1>2, BufferOf, SMTT(30)
  <2>3. buf[10 + h + 1] = CR
    BY <1>2, BufferOf, Zenon
  <2> QED
    BY <2>1, <2>2, <2>3, Zenon
<1>b. Len(buf) \in Nat
  BY <1>3, LenProperties
<1>4. PICK seqs : seqs = [n \in 1 .. L |-> LineBytes(lines[n])]
  OBVIOUS
<1>5. PICK start : Laid(start, B, seqs, L)
  BY <1>1, <1>2, <1>4, BytesOf
<1>6. /\ start \in [1 .. L + 1 -> Nat]
      /\ start[1] = 0 /\ start[L + 1] = h
      /\ \A n \in 1 .. L :
          /\ start[n + 1] = start[n] + Len(seqs[n])
          /\ start[n + 1] <= h
          /\ \A m \in 1 .. Len(seqs[n]) : B[start[n] + m] = seqs[n][m]
  BY <1>2, <1>5, Zenon DEF Laid
<1>7. ASSUME NEW n \in 0 .. L  PROVE LineEnd(n) = 9 + start[n + 1] /\ start[n + 1] \in Nat
  BY <1>1, <1>4, <1>5, LineEndOf
<1>8. LineEnd(0) = 9
  <2>1. 0 \in 0 .. L /\ 0 + 1 = 1
    BY <1>1
  <2>2. LineEnd(0) = 9 + start[0 + 1]
    BY <1>7, <2>1
  <2> QED
    BY <1>6, <2>1, <2>2
<1>9. LineEnd(L) = 9 + h
  <2>1. L \in 0 .. L
    BY <1>1
  <2> QED
    BY <1>6, <1>7, <2>1
<1>10. ASSUME NEW n \in 0 .. L, n # L
       PROVE  /\ lines[n + 1] \in HeaderLines
              /\ LineAt(lines[n + 1], LineEnd(n), LineEnd(n + 1))
              /\ start[(n + 1) + 1] <= h
  <2>1. PICK k \in 1 .. L : k = n + 1
    <3>1. n + 1 \in 1 .. L
      BY <1>1, <1>10
    <3> QED
      BY <3>1
  <2>2. PICK l \in HeaderLines : l = lines[k]
    BY <1>1, ElementOfSeq
  <2>3. PICK s : s = LineBytes(l) /\ s = seqs[k]
    BY <1>4, <2>2
  <2>4. PICK z \in Nat : z = start[k]
    BY <1>7, <2>1
  <2>5. start[k + 1] = z + Len(s) /\ start[k + 1] <= h /\ \A m \in 1 .. Len(s) : B[z + m] = s[m]
    BY <1>6, <2>3, <2>4, Zenon
  <2>6. LineAt(l, 9 + z, 9 + z + Len(s))
    <3>1. z + Len(s) <= h /\ z \in Nat /\ h \in Nat
      BY <1>3, <2>4, <2>5
    <3>2. /\ B = Bytes(lines) /\ h = Len(B) /\ \A m \in 1 .. h : buf[10 + m] = B[m]
      BY <1>2, <1>3
    <3>3. l \in HeaderLines /\ s = LineBytes(l) /\ \A m \in 1 .. Len(s) : B[z + m] = s[m]
      BY <2>2, <2>3, <2>5
    <3> QED
      BY <3>1, <3>2, <3>3, LineIsAt
  <2>7. LineEnd(n) = 9 + z
    BY <1>7, <2>1, <2>4
  <2>8. LineEnd(n + 1) = 9 + z + Len(s)
    <3>1. n + 1 \in 0 .. L
      BY <1>1, <1>10
    <3>2. LineEnd(n + 1) = 9 + start[(n + 1) + 1]
      BY <1>7, <3>1
    <3>3. start[(n + 1) + 1] = z + Len(s)
      BY <2>1, <2>5
    <3>4. Len(s) \in Nat
      <4>2. s \in Seq(HeaderChar)
        BY <2>3, LineBytesOf, Zenon
      <4> QED
        BY <4>2, LenProperties
    <3> QED
      BY <2>4, <3>2, <3>3, <3>4
  <2> QED
    BY <2>1, <2>2, <2>5, <2>6, <2>7, <2>8, Zenon
<1>11. ASSUME NEW n \in 0 .. L
       PROVE  /\ LineEnd(n) \in Nat /\ 9 <= LineEnd(n) /\ LineEnd(n) + 3 <= Len(buf)
              /\ buf[LineEnd(n) + 1] = LF
  <2>1. LineEnd(n) = 9 + start[n + 1] /\ start[n + 1] \in Nat
    BY <1>7
  <2>2. CASE n = 0
    <3>1. 9 + 1 = 10 /\ 9 + 3 <= Len(buf)
      BY <1>3, <1>b
    <3> QED
      BY <1>3, <1>8, <2>2, <3>1
  <2>3. CASE n # 0
    <3>1. PICK k \in 0 .. L : k # L /\ k + 1 = n
      <4>1. n - 1 \in 0 .. L /\ n - 1 # L /\ (n - 1) + 1 = n
        BY <1>1, <2>3
      <4> QED
        BY <4>1
    <3>2. LineAt(lines[k + 1], LineEnd(k), LineEnd(k + 1)) /\ start[(k + 1) + 1] <= h
      BY <1>10, <3>1
    <3>3. buf[LineEnd(n) + 1] = LF
      BY <3>1, <3>2, Zenon DEF LineAt
    <3>4. LineEnd(n) + 3 <= Len(buf)
      BY <1>3, <1>b, <2>1, <3>1, <3>2
    <3>5. LineEnd(n) \in Nat /\ 9 <= LineEnd(n)
      BY <2>1
    <3> QED
      BY <3>3, <3>4, <3>5, Zenon
  <2> QED
    BY <2>2, <2>3
<1>12. buf[LineEnd(L) + 2] = CR
  <2>1. (9 + h) + 2 = 10 + h + 1
    BY <1>3
  <2> QED
    BY <1>3, <1>9, <2>1
<1>13. ASSUME NEW n \in 0 .. L - 1
       PROVE  /\ lines[n + 1] \in HeaderLines
              /\ LineAt(lines[n + 1], LineEnd(n), LineEnd(n + 1))
  <2>1. n \in 0 .. L /\ n # L
    BY <1>1
  <2> QED
    BY <1>10, <2>1
<1> QED
  BY <1>1, <1>3, <1>8, <1>11, <1>12, <1>13

-----------------------------------------------------------------------------
(* HeaderParser: one byte *)

\* data is as long as buf, and the token no longer than what was read.
DataInv == i \in 0 .. Len(buf) /\ j \in 0 .. i /\ DOMAIN data = 0 .. Len(buf) - 1

\* data holds what was read of s since the first c bytes.
Holds(s, c) == j = i - c /\ \A m \in 1 .. j : data[m - 1] = s[m]

LEMMA WhichStep ==
  ASSUME HeaderNext
  PROVE  /\ i < Len(buf) /\ i' = i + 1 /\ lines' = lines /\ buf' = buf
         /\ ~Ends => Collect
         /\ Ends => \/ state = "key" /\ EndOfKey
                    \/ state = "val" /\ EndOfValue
                    \/ state \in {"method", "uri", "protocol"} /\ EndOfFirst
<1>1. Collect => i < Len(buf) /\ ~Ends
  BY DEF Collect
<1>2. EndOfFirst => i < Len(buf) /\ Ends /\ state \in {"method", "uri", "protocol"}
  BY DEF EndOfFirst, EndToken
<1>3. EndOfKey => i < Len(buf) /\ Ends /\ state = "key"
  BY DEF EndOfKey, EndToken
<1>4. EndOfValue => i < Len(buf) /\ Ends /\ state = "val"
  BY DEF EndOfValue, EndToken
<1> QED
  BY <1>1, <1>2, <1>3, <1>4 DEF HeaderNext

LEMMA CollectData ==
  ASSUME Len(buf) \in Nat, DataInv, i < Len(buf), Collect
  PROVE  /\ DOMAIN data' = 0 .. Len(buf) - 1 /\ j' \in 0 .. i + 1
         /\ Skips => data' = data /\ j' = j
         /\ ~Skips => /\ j' = j + 1 /\ data'[j] = ch
                      /\ \A m \in 1 .. j : data'[m - 1] = data[m - 1]
<1>1. data' = SetChar /\ j' = NextJ
  BY DEF Collect
<1>2. i \in Nat /\ j \in Nat /\ j <= i /\ j \in DOMAIN data
  BY DEF DataInv
<1>3. CASE Skips
  BY <1>1, <1>2, <1>3 DEF SetChar, NextJ, DataInv
<1>4. CASE ~Skips
  <2>1. data' = [data EXCEPT ![j] = ch] /\ j' = j + 1
    BY <1>1, <1>4 DEF SetChar, NextJ
  <2>2. DOMAIN data' = DOMAIN data /\ data'[j] = ch
    BY <1>2, <2>1
  <2>3. ASSUME NEW m \in 1 .. j  PROVE data'[m - 1] = data[m - 1]
    <3>1. m - 1 \in 0 .. Len(buf) - 1 /\ m - 1 # j
      BY <1>2, <1>2
    <3>2. m - 1 \in DOMAIN data
      BY <3>1 DEF DataInv
    <3> QED
      BY <2>1, <3>1, <3>2
  <2>4. j' \in 0 .. i + 1
    BY <1>2, <2>1
  <2> QED
    BY <1>4, <2>1, <2>2, <2>3, <2>4 DEF DataInv
<1> QED
  BY <1>3, <1>4

LEMMA EndData ==
  ASSUME NEW next, EndToken(next)
  PROVE  DOMAIN data' = DOMAIN data /\ j' = 0 /\ state' = next
  BY DEF EndToken, Terminated

LEMMA DataStep ==
  ASSUME Len(buf) \in Nat, DataInv, HeaderNext
  PROVE  DataInv'
<1>1. i < Len(buf) /\ i' = i + 1 /\ buf' = buf
  BY WhichStep
<1>2. DOMAIN data' = 0 .. Len(buf) - 1 /\ j' \in 0 .. i + 1
  <2>1. CASE Collect
    BY <1>1, <2>1, CollectData
  <2>2. CASE \E next : EndToken(next)
    <3>1. DOMAIN data' = DOMAIN data /\ j' = 0
      BY <2>2, EndData
    <3> QED
      BY <3>1 DEF DataInv
  <2> QED
    BY <2>1, <2>2 DEF HeaderNext, EndOfFirst, EndOfKey, EndOfValue
<1> QED
  BY <1>1, <1>2 DEF DataInv

\* What a token is when the collected bytes are known.
LEMMA TokenIs ==
  ASSUME Len(buf) \in Nat, DataInv, i < Len(buf), j # 0,
         NEW s \in Seq(HeaderChar), Len(s) = j, \A m \in 1 .. j : data[m - 1] = s[m]
  PROVE  Token = s
<1>1. i \in Nat /\ j \in Nat /\ j >= 1 /\ j <= i /\ j + 1 - 1 = j /\ j \in DOMAIN data
      /\ \A m \in 0 .. j : m \in DOMAIN data
  BY DEF DataInv
<1>2. NextJ = j + 1 /\ SetChar = [data EXCEPT ![j] = ch]
  BY DEF Skips, NextJ, SetChar
<1>3. \A m \in DOMAIN data : Terminated[m] = IF m = j THEN Nul ELSE data[m]
  BY <1>1, <1>2 DEF Terminated
<1>4. \A m \in 1 .. j : s[m] # Nul
  <2>1. \A m \in 1 .. j : s[m] \in HeaderChar
    BY <1>1, ElementOfSeq
  <2>2. Nul \notin HeaderChar
    BY Distinct DEF HeaderChar
  <2> QED
    BY <2>1, <2>2
<1>5. ASSUME NEW m \in 0 .. j - 1  PROVE Terminated[m] = s[m + 1] /\ s[m + 1] # Nul
  <2>1. m + 1 \in 1 .. j /\ (m + 1) - 1 = m /\ m # j /\ m \in 0 .. j
    BY <1>1
  <2>2. data[m] = s[m + 1] /\ s[m + 1] # Nul
    BY <1>4, <2>1
  <2> QED
    BY <1>1, <1>3, <2>1, <2>2
<1>6. Terminated[j] = Nul
  BY <1>1, <1>3
<1> DEFINE Ended(n) == Terminated[n] = Nul /\ \A m \in 0 .. n - 1 : Terminated[m] # Nul
           end == CHOOSE n \in DOMAIN data : Ended(n)
<1>7. Ended(j)
  BY <1>5, <1>6
<1>8. ASSUME NEW n \in DOMAIN data, Ended(n)  PROVE n = j
  <2>1. n \in Nat
    BY DEF DataInv
  <2>2. ~(n < j)
    <3>1. ASSUME n < j  PROVE FALSE
      <4>1. n \in 0 .. j - 1
        BY <1>1, <2>1, <3>1
      <4> QED
        BY <1>5, <1>8, <4>1
    <3> QED
      BY <3>1
  <2>3. ~(j < n)
    <3>1. ASSUME j < n  PROVE FALSE
      <4>1. j \in 0 .. n - 1
        BY <1>1, <2>1, <3>1
      <4> QED
        BY <1>6, <1>8, <4>1
    <3> QED
      BY <3>1
  <2> QED
    BY <1>1, <2>1, <2>2, <2>3
<1>9. end = j
  <2> HIDE DEF Ended
  <2> QED
    BY <1>1, <1>7, <1>8
<1>10. Token = [n \in 1 .. end |-> Terminated[n - 1]]
  BY Zenon DEF Token
<1>11. \A n \in 1 .. j : Terminated[n - 1] = s[n]
  <2>1. \A n \in 1 .. j : n - 1 \in 0 .. j - 1 /\ (n - 1) + 1 = n
    BY <1>1
  <2> QED
    BY <1>5, <2>1
<1>12. s = [n \in 1 .. j |-> s[n]]
  BY LenProperties
<1> HIDE DEF end
<1> QED
  BY <1>9, <1>10, <1>11, <1>12

LEMMA HoldsMore ==
  ASSUME Len(buf) \in Nat, DataInv, i < Len(buf), Collect, i' = i + 1,
         NEW s, NEW c \in Nat, Holds(s, c), ch = s[i + 1 - c], s[1] \notin {CR, LF, BLANK}
  PROVE  Holds(s, c)'
<1>1. i \in Nat /\ j \in Nat /\ j = i - c /\ j + 1 = i + 1 - c /\ \A m \in 1 .. j : data[m - 1] = s[m]
  BY DEF DataInv, Holds
<1>2. ~Skips
  <2>1. ASSUME Skips  PROVE FALSE
    <3>1. j = 0 /\ ch \in {CR, LF, BLANK}
      BY <2>1 DEF Skips
    <3>2. i + 1 - c = 1
      BY <1>1, <3>1
    <3> QED
      BY <3>1, <3>2
  <2> QED
    BY <2>1
<1>3. /\ j' = j + 1 /\ data'[j] = ch /\ \A m \in 1 .. j : data'[m - 1] = data[m - 1]
  BY <1>2, CollectData
<1>4. ASSUME NEW m \in 1 .. j + 1  PROVE data'[m - 1] = s[m]
  <2>1. CASE m = j + 1
    <3>1. m - 1 = j
      BY <1>1, <2>1
    <3> QED
      BY <1>1, <1>3, <2>1, <3>1
  <2>2. CASE m # j + 1
    <3>1. m \in 1 .. j
      BY <1>1, <2>2
    <3> QED
      BY <1>1, <1>3, <3>1
  <2> QED
    BY <2>1, <2>2
<1>5. j' = i' - c
  BY <1>1, <1>3
<1>6. 1 .. j' = 1 .. j + 1
  BY <1>3
<1> QED
  BY <1>4, <1>5, <1>6 DEF Holds

-----------------------------------------------------------------------------
(* HeaderParser: the first line *)

IsFunction(f) == f = [x \in DOMAIN f |-> f[x]]

LEMMA AppendIs ==
  ASSUME NEW T, NEW s \in Seq(T), NEW x \in T, NEW t \in Seq(T),
         Len(t) = Len(s) + 1, t[Len(s) + 1] = x, \A m \in 1 .. Len(s) : t[m] = s[m]
  PROVE  Append(s, x) = t
<1>0. PICK l \in Nat : l = Len(s)
  BY LenProperties
<1>1. PICK u : u = Append(s, x)
  OBVIOUS
<1>2. u \in Seq(T) /\ Len(u) = l + 1 /\ \A m \in 1 .. l : u[m] = s[m]
  BY <1>0, <1>1, AppendProperties
<1>3. u[l + 1] = x
  BY <1>0, <1>1, AppendProperties
<1>4. \A m \in 1 .. l + 1 : u[m] = t[m]
  <2>1. \A m \in 1 .. l + 1 : m \in 1 .. l \/ m = l + 1
    BY <1>0
  <2> QED
    BY <1>0, <1>2, <1>3, <2>1
<1>5. Len(u) = Len(t) /\ \A m \in 1 .. Len(u) : u[m] = t[m]
  BY <1>0, <1>2, <1>4
<1>6. u \in Seq(T)
  BY <1>2
<1> QED
  BY <1>1, <1>5, <1>6, SeqEqual

LEMMA ShortAppend ==
  ASSUME NEW a, NEW b, NEW c
  PROVE  Append(<<>>, a) = <<a>> /\ Append(<<a>>, b) = <<a, b>> /\ Append(<<a, b>>, c) = <<a, b, c>>
<1>0. PICK T : T = {a, b, c}
  OBVIOUS
<1>t. a \in T /\ b \in T /\ c \in T
  BY <1>0
<1>1. Append(<<>>, a) = <<a>>
  OBVIOUS
<1>2. Append(<<a>>, b) = <<a, b>>
  <2>1. PICK s, t : s = <<a>> /\ t = <<a, b>>
    OBVIOUS
  <2>2. s \in Seq(T) /\ Len(s) = 1 /\ s[1] = a
    BY <1>t, <2>1, CharSeqs
  <2>3. t \in Seq(T) /\ Len(t) = 2 /\ t[1] = a /\ t[2] = b
    BY <1>t, <2>1, CharSeqs
  <2>4. Len(t) = Len(s) + 1 /\ t[Len(s) + 1] = b /\ \A m \in 1 .. Len(s) : t[m] = s[m]
    BY <2>2, <2>3
  <2>5. Append(s, b) = t
    BY <1>t, <2>2, <2>3, <2>4, AppendIs
  <2> QED
    BY <2>1, <2>5
<1>3. Append(<<a, b>>, c) = <<a, b, c>>
  <2>1. PICK s, t : s = <<a, b>> /\ t = <<a, b, c>>
    OBVIOUS
  <2>2. s \in Seq(T) /\ Len(s) = 2 /\ s[1] = a /\ s[2] = b
    BY <1>t, <2>1, CharSeqs
  <2>3. t \in Seq(T) /\ Len(t) = 3 /\ t[1] = a /\ t[2] = b /\ t[3] = c
    BY <1>t, <2>1, CharSeqs
  <2>4. Len(t) = Len(s) + 1 /\ t[Len(s) + 1] = c /\ \A m \in 1 .. Len(s) : t[m] = s[m]
    <3>1. \A m \in 1 .. 2 : m = 1 \/ m = 2
      OBVIOUS
    <3> QED
      BY <2>2, <2>3, <3>1
  <2>5. Append(s, c) = t
    BY <1>t, <2>2, <2>3, <2>4, AppendIs
  <2> QED
    BY <2>1, <2>5
<1> QED
  BY <1>1, <1>2, <1>3

\* The token s of the first line is being read: its q bytes follow the first c.
FirstTokenAt(s, c, q) ==
    /\ s \in Seq(HeaderChar) /\ c \in Nat /\ q \in Nat /\ q = Len(s) /\ q # 0
    /\ state \in {"method", "uri", "protocol"} /\ i \in c .. c + q /\ Holds(s, c)
    /\ \A m \in 1 .. q : buf[c + m] = s[m] /\ s[m] \notin {CR, LF, BLANK}
    /\ buf[c + q + 1] = Delimiter[state]

\* It grows by a byte, or ends.
LEMMA FirstToken ==
  ASSUME Len(buf) \in Nat, DataInv, HeaderNext, NEW s, NEW c, NEW q, FirstTokenAt(s, c, q)
  PROVE  /\ dict' = dict
         /\ \/ i < c + q /\ Holds(s, c)' /\ state' = state /\ first' = first
            \/ i = c + q /\ j' = 0 /\ first' = Append(first, s) /\ EndOfFirst
<1>n. /\ s \in Seq(HeaderChar) /\ c \in Nat /\ q \in Nat /\ q = Len(s) /\ q # 0
      /\ state \in {"method", "uri", "protocol"} /\ i \in c .. c + q /\ Holds(s, c)
      /\ \A m \in 1 .. q : buf[c + m] = s[m] /\ s[m] \notin {CR, LF, BLANK}
      /\ buf[c + q + 1] = Delimiter[state]
  BY DEF FirstTokenAt
<1>1. i < Len(buf) /\ i' = i + 1 /\ i \in Nat
  BY WhichStep DEF DataInv
<1>2. Delimiter[state] \in {BLANK, CR} /\ state # "body" /\ state # "key" /\ state # "val"
  BY <1>n DEF Delimiter
<1>3. CASE i < c + q
  <2>1. PICK m \in 1 .. q : i + 1 - c = m /\ c + m = i + 1
    <3>1. i + 1 - c \in 1 .. q /\ c + (i + 1 - c) = i + 1
      BY <1>n, <1>1, <1>3
    <3> QED
      BY <3>1
  <2>2. ch = s[m] /\ s[m] \notin {CR, LF, BLANK}
    BY <1>n, <2>1 DEF ch
  <2>3. ~Ends
    BY <1>2, <2>2 DEF Ends
  <2>4. Collect
    BY <2>3, WhichStep
  <2>5. state' = state /\ first' = first /\ dict' = dict
    BY <1>2, <2>4 DEF Collect
  <2>6. s[1] \notin {CR, LF, BLANK}
    <3>1. 1 \in 1 .. q
      BY <1>n
    <3> QED
      BY <1>n, <3>1
  <2>7. ch = s[i + 1 - c]
    BY <2>1, <2>2
  <2>8. Holds(s, c)'
    BY <1>n, <1>1, <2>4, <2>6, <2>7, HoldsMore
  <2> QED
    BY <1>3, <2>5, <2>8
<1>4. CASE ~(i < c + q)
  <2>0. c \in Nat /\ q \in Nat /\ i \in c .. c + q
    BY <1>n, Zenon
  <2>1. i = c + q /\ i + 1 = c + q + 1
    BY <1>1, <1>4, <2>0
  <2>2. Ends
    BY <1>n, <1>2, <2>1 DEF Ends, ch
  <2>3. EndOfFirst
    BY <1>2, <2>2, WhichStep
  <2>4. j = q /\ \A m \in 1 .. j : data[m - 1] = s[m]
    BY <1>n, <2>1 DEF Holds
  <2>5. Token = s
    BY <1>n, <1>1, <2>4, TokenIs
  <2>6. first' = Append(first, s) /\ dict' = dict
    BY <2>3, <2>5 DEF EndOfFirst
  <2>7. j' = 0
    BY <2>3, EndData DEF EndOfFirst
  <2> QED
    BY <2>1, <2>3, <2>6, <2>7
<1> QED
  BY <1>3, <1>4

FirstRow ==
    \/ state = "method" /\ i \in 0 .. 1 /\ Holds(<<"G">>, 0) /\ first = <<>>
    \/ state = "uri" /\ i \in 2 .. 5 /\ Holds(<<"u", "?", "u">>, 2) /\ first = <<<<"G">>>>
    \/ state = "protocol" /\ i \in 6 .. 8 /\ Holds(<<"P", "P">>, 6)
       /\ first = <<<<"G">>, <<"u", "?", "u">>>>

LEMMA FirstRowStep ==
  ASSUME SentInv, Len(buf) \in Nat, DataInv, FirstRow, HeaderNext
  PROVE  /\ dict' = dict
         /\ \/ i' \in 0 .. 8 /\ FirstRow'
            \/ /\ i' = 9 /\ j' = 0 /\ state' = "key"
               /\ first' = <<<<"G">>, <<"u", "?", "u">>, <<"P", "P">>>>
<1>1. i' = i + 1 /\ i \in Nat
  BY WhichStep DEF DataInv
<1>2. /\ buf[1] = "G" /\ buf[2] = BLANK /\ buf[3] = "u" /\ buf[4] = "?" /\ buf[5] = "u"
      /\ buf[6] = BLANK /\ buf[7] = "P" /\ buf[8] = "P" /\ buf[9] = CR
  BY BufferOf
<1>3. /\ "G" \in HeaderChar /\ "u" \in HeaderChar /\ "?" \in HeaderChar /\ "P" \in HeaderChar
      /\ "G" \notin {CR, LF, BLANK} /\ "u" \notin {CR, LF, BLANK}
      /\ "?" \notin {CR, LF, BLANK} /\ "P" \notin {CR, LF, BLANK}
  BY Distinct DEF HeaderChar
<1>4. CASE state = "method" /\ i \in 0 .. 1 /\ Holds(<<"G">>, 0) /\ first = <<>>
  <2>1. PICK s : s = <<"G">>
    OBVIOUS
  <2>2. s \in Seq(HeaderChar) /\ 1 = Len(s) /\ s[1] = "G"
    BY <1>3, <2>1, CharSeqs
  <2>3. \A m \in 1 .. 1 : buf[0 + m] = s[m] /\ s[m] \notin {CR, LF, BLANK}
    BY <1>2, <1>3, <2>2
  <2>4. buf[0 + 1 + 1] = Delimiter[state]
    BY <1>2, <1>4 DEF Delimiter
  <2>5. Holds(s, 0) /\ i \in 0 .. 0 + 1 /\ state \in {"method", "uri", "protocol"}
    BY <1>4, <2>1
  <2>t. FirstTokenAt(s, 0, 1)
    BY <2>2, <2>3, <2>4, <2>5 DEF FirstTokenAt
  <2>6. /\ dict' = dict
        /\ \/ i < 0 + 1 /\ Holds(s, 0)' /\ state' = state /\ first' = first
           \/ i = 0 + 1 /\ j' = 0 /\ first' = Append(first, s) /\ EndOfFirst
    BY <2>t, FirstToken, Zenon
  <2>7. CASE i < 0 + 1 /\ Holds(s, 0)' /\ state' = state /\ first' = first
    BY <1>1, <1>4, <2>1, <2>6, <2>7 DEF FirstRow
  <2>8. CASE i = 0 + 1 /\ j' = 0 /\ first' = Append(first, s) /\ EndOfFirst
    <3>1. state' = "uri"
      BY <1>4, <2>8 DEF EndOfFirst, EndToken
    <3>2. first' = <<<<"G">>>>
      BY <1>4, <2>1, <2>8, ShortAppend, Zenon
    <3>3. i' = 2
      BY <1>1, <2>8
    <3>4. Holds(<<"u", "?", "u">>, 2)'
      BY <2>8, <3>3 DEF Holds
    <3> QED
      BY <2>6, <3>1, <3>2, <3>3, <3>4 DEF FirstRow
  <2> QED
    BY <2>6, <2>7, <2>8
<1>5. CASE state = "uri" /\ i \in 2 .. 5 /\ Holds(<<"u", "?", "u">>, 2) /\ first = <<<<"G">>>>
  <2>1. PICK s : s = <<"u", "?", "u">>
    OBVIOUS
  <2>2. s \in Seq(HeaderChar) /\ 3 = Len(s) /\ s[1] = "u" /\ s[2] = "?" /\ s[3] = "u"
    BY <1>3, <2>1
  <2>3. \A m \in 1 .. 3 : buf[2 + m] = s[m] /\ s[m] \notin {CR, LF, BLANK}
    <3>1. \A m \in 1 .. 3 : m = 1 \/ m = 2 \/ m = 3
      OBVIOUS
    <3> QED
      BY <1>2, <1>3, <2>2, <3>1
  <2>4. buf[2 + 3 + 1] = Delimiter[state]
    BY <1>2, <1>5 DEF Delimiter
  <2>5. Holds(s, 2) /\ i \in 2 .. 2 + 3 /\ state \in {"method", "uri", "protocol"}
    BY <1>5, <2>1
  <2>t. FirstTokenAt(s, 2, 3)
    BY <2>2, <2>3, <2>4, <2>5 DEF FirstTokenAt
  <2>6. /\ dict' = dict
        /\ \/ i < 2 + 3 /\ Holds(s, 2)' /\ state' = state /\ first' = first
           \/ i = 2 + 3 /\ j' = 0 /\ first' = Append(first, s) /\ EndOfFirst
    BY <2>t, FirstToken, Zenon
  <2>7. CASE i < 2 + 3 /\ Holds(s, 2)' /\ state' = state /\ first' = first
    BY <1>1, <1>5, <2>1, <2>6, <2>7 DEF FirstRow
  <2>8. CASE i = 2 + 3 /\ j' = 0 /\ first' = Append(first, s) /\ EndOfFirst
    <3>1. state' = "protocol"
      BY <1>5, <2>8 DEF EndOfFirst, EndToken
    <3>2. first' = <<<<"G">>, <<"u", "?", "u">>>>
      <4>1. first' = Append(first, s)
        BY <2>8
      <4> QED
        BY <1>5, <2>1, <4>1, ShortAppend, Zenon
    <3>3. i' = 6
      BY <1>1, <2>8
    <3>4. Holds(<<"P", "P">>, 6)'
      BY <2>8, <3>3 DEF Holds
    <3> QED
      BY <2>6, <3>1, <3>2, <3>3, <3>4 DEF FirstRow
  <2> QED
    BY <2>6, <2>7, <2>8
<1>6. CASE /\ state = "protocol" /\ i \in 6 .. 8 /\ Holds(<<"P", "P">>, 6)
           /\ first = <<<<"G">>, <<"u", "?", "u">>>>
  <2>1. PICK s : s = <<"P", "P">>
    OBVIOUS
  <2>2. s \in Seq(HeaderChar) /\ 2 = Len(s) /\ s[1] = "P" /\ s[2] = "P"
    BY <1>3, <2>1
  <2>3. \A m \in 1 .. 2 : buf[6 + m] = s[m] /\ s[m] \notin {CR, LF, BLANK}
    <3>1. \A m \in 1 .. 2 : m = 1 \/ m = 2
      OBVIOUS
    <3> QED
      BY <1>2, <1>3, <2>2, <3>1
  <2>4. buf[6 + 2 + 1] = Delimiter[state]
    BY <1>2, <1>6 DEF Delimiter
  <2>5. Holds(s, 6) /\ i \in 6 .. 6 + 2 /\ state \in {"method", "uri", "protocol"}
    BY <1>6, <2>1
  <2>t. FirstTokenAt(s, 6, 2)
    BY <2>2, <2>3, <2>4, <2>5 DEF FirstTokenAt
  <2>6. /\ dict' = dict
        /\ \/ i < 6 + 2 /\ Holds(s, 6)' /\ state' = state /\ first' = first
           \/ i = 6 + 2 /\ j' = 0 /\ first' = Append(first, s) /\ EndOfFirst
    BY <2>t, FirstToken, Zenon
  <2>7. CASE i < 6 + 2 /\ Holds(s, 6)' /\ state' = state /\ first' = first
    BY <1>1, <1>6, <2>1, <2>6, <2>7 DEF FirstRow
  <2>8. CASE i = 6 + 2 /\ j' = 0 /\ first' = Append(first, s) /\ EndOfFirst
    <3>1. state' = "key"
      BY <1>6, <2>8 DEF EndOfFirst, EndToken
    <3>2. first' = <<<<"G">>, <<"u", "?", "u">>, <<"P", "P">>>>
      <4>1. PICK a, b : a = <<"G">> /\ b = <<"u", "?", "u">>
        OBVIOUS
      <4>2. first' = Append(<<a, b>>, s)
        BY <1>6, <2>8, <4>1, Zenon
      <4>3. Append(<<a, b>>, s) = <<a, b, s>>
        BY ShortAppend, Zenon
      <4> QED
        BY <2>1, <4>1, <4>2, <4>3, Zenon
    <3>3. i' = 9
      BY <1>1, <2>8
    <3> QED
      BY <2>6, <2>8, <3>1, <3>2, <3>3
  <2> QED
    BY <2>6, <2>7, <2>8
<1> QED
  BY <1>4, <1>5, <1>6 DEF FirstRow

-----------------------------------------------------------------------------
(* HeaderParser: the lines *)

\* Reading the line l, when the CR before it is the byte o.
InLine(l, o) ==
    LET colon == o + 1 + Len(l.name)
        text == colon + 1 + Blanks(l.value)
    IN  \/ i = o /\ state = "key" /\ j = 0
        \/ i \in o + 1 .. colon /\ state = "key" /\ Holds(l.name, o + 1)
        \/ i \in colon + 1 .. text /\ state = "val" /\ key = WsgiKey(l.name) /\ j = 0
        \/ /\ i \in text .. colon + 1 + Len(l.value)
           /\ state = "val" /\ key = WsgiKey(l.name) /\ Holds(Trimmed(l.value), text)

\* Where the separator and the text of a well-formed line are: a bytes of name,
\* b blanks, and the p bytes of s.
LineHas(l, o, e, a, b, p, s) ==
    /\ a \in Nat /\ b \in Nat /\ p \in Nat /\ a >= 1 /\ p >= 1
    /\ a = Len(l.name) /\ b = Blanks(l.value) /\ s = Trimmed(l.value) /\ p = Len(s)
    /\ Len(l.value) = b + p /\ e = o + 1 + a + 1 + b + p + 1
    /\ s \in Seq(HeaderChar) /\ (\A m \in 1 .. p : s[m] \in ValueChar) /\ s[1] # BLANK
    /\ l.name \in Seq(HeaderChar) /\ \A m \in 1 .. a : l.name[m] \in NameChar
    /\ \A m \in 1 .. a : buf[o + 1 + m] = l.name[m]
    /\ buf[o + 1 + a + 1] = KEY_SEP
    /\ \A m \in 1 .. b : buf[o + 1 + a + 1 + m] = BLANK
    /\ \A m \in 1 .. p : buf[o + 1 + a + 1 + b + m] = s[m]
    /\ buf[e] = CR

LEMMA PlanOffsets ==
  ASSUME NEW o \in Nat, NEW a \in Nat, NEW b \in Nat, NEW p \in Nat
  PROVE  /\ \A m \in 1 .. p : /\ b + m \in 1 .. b + p
                            /\ o + 1 + a + 1 + (b + m) = o + 1 + a + 1 + b + m
         /\ \A m \in 1 .. b : m \in 1 .. b + p
         /\ o + 1 + a + 1 + (b + p) + 1 = o + 1 + a + 1 + b + p + 1
  OBVIOUS

LEMMA LinePlan ==
  ASSUME NEW l \in HeaderLines, WellFormed(l), NEW o \in Nat, NEW e, LineAt(l, o, e)
  PROVE  \E a, b, p, s : LineHas(l, o, e, a, b, p, s)
<1>0. PICK a, b, p, s : a = Len(l.name) /\ b = Blanks(l.value) /\ s = Trimmed(l.value) /\ p = Len(s)
  OBVIOUS
<1>1. /\ l.name \in Seq(HeaderChar) /\ l.value \in Values /\ l.sep = <<KEY_SEP>>
      /\ Len(l.name) >= 1 /\ \A m \in 1 .. Len(l.name) : l.name[m] \in NameChar
      /\ \A m \in 1 .. Len(l.sep) : l.sep[m] = KEY_SEP
  BY LineParts
<1>2. PICK v \in Values : v = l.value
  BY <1>1
<1>3. /\ s \in Seq(HeaderChar) /\ p >= 1 /\ b \in Nat /\ Len(v) = b + p
      /\ \A m \in 1 .. b : v[m] = BLANK
      /\ \A m \in 1 .. p : v[b + m] = s[m]
      /\ s[1] # BLANK /\ \A m \in 1 .. Len(v) : v[m] \in ValueChar
  BY <1>0, <1>2, ValueParts
<1>4. a \in Nat /\ p \in Nat
  BY <1>0, <1>1, <1>3, LenProperties
<1>q. /\ \A m \in 1 .. p : /\ b + m \in 1 .. b + p
                          /\ o + 1 + a + 1 + (b + m) = o + 1 + a + 1 + b + m
      /\ \A m \in 1 .. b : m \in 1 .. b + p
      /\ o + 1 + a + 1 + (b + p) + 1 = o + 1 + a + 1 + b + p + 1
  <2>1. o \in Nat /\ a \in Nat /\ b \in Nat /\ p \in Nat
    BY <1>3, <1>4
  <2> QED
    BY <2>1, PlanOffsets
<1>5. Len(l.sep) = 1
  BY <1>1
<1>6. /\ e = o + 1 + a + 1 + (b + p) + 1
      /\ \A m \in 1 .. a : buf[o + 1 + m] = l.name[m]
      /\ \A m \in 1 .. 1 : buf[o + 1 + a + m] = KEY_SEP
      /\ \A m \in 1 .. b + p : buf[o + 1 + a + 1 + m] = v[m]
      /\ buf[e] = CR
  <2>1. /\ e = o + 1 + Len(l.name) + Len(l.sep) + Len(l.value) + 1
        /\ \A m \in 1 .. Len(l.name) : buf[o + 1 + m] = l.name[m]
        /\ \A m \in 1 .. Len(l.sep) : buf[o + 1 + Len(l.name) + m] = l.sep[m]
        /\ \A m \in 1 .. Len(l.value) : buf[o + 1 + Len(l.name) + Len(l.sep) + m] = l.value[m]
        /\ buf[e] = CR
    BY Zenon DEF LineAt
  <2>2. \A m \in 1 .. 1 : l.sep[m] = KEY_SEP
    BY <1>1, <1>5
  <2>3. Len(l.value) = b + p
    BY <1>2, <1>3
  <2> QED
    BY <1>0, <1>2, <1>5, <2>1, <2>2, <2>3, Zenon
<1>7. e = o + 1 + a + 1 + b + p + 1
  BY <1>6, <1>q, Zenon
<1>8. buf[o + 1 + a + 1] = KEY_SEP
  BY <1>6
<1>9. \A m \in 1 .. b : buf[o + 1 + a + 1 + m] = BLANK
  <2>1. \A m \in 1 .. b : m \in 1 .. b + p
    BY <1>q, Zenon
  <2> QED
    BY <1>3, <1>6, <2>1, Zenon
<1>10. ASSUME NEW m \in 1 .. p
       PROVE  buf[o + 1 + a + 1 + b + m] = s[m] /\ s[m] \in ValueChar
  <2>1. b + m \in 1 .. b + p /\ o + 1 + a + 1 + (b + m) = o + 1 + a + 1 + b + m
    BY <1>q, Zenon
  <2>2. buf[o + 1 + a + 1 + (b + m)] = v[b + m] /\ v[b + m] \in ValueChar
    BY <1>3, <1>6, <2>1, Zenon
  <2>3. v[b + m] = s[m]
    BY <1>3, Zenon
  <2> QED
    BY <2>1, <2>2, <2>3, Zenon
<1>11. Len(l.value) = b + p
  BY <1>2, <1>3
<1>12. a >= 1 /\ \A m \in 1 .. a : l.name[m] \in NameChar
  BY <1>0, <1>1
<1>13. LineHas(l, o, e, a, b, p, s)
  BY <1>0, <1>1, <1>3, <1>4, <1>6, <1>7, <1>8, <1>9, <1>10, <1>11, <1>12, Zenon DEF LineHas
<1> QED
  BY <1>13

\* The value of the line is stored in the dictionary.
Stores(l) ==
    /\ state' = "key" /\ j' = 0
    /\ dict' = [k \in DOMAIN dict \cup {WsgiKey(l.name)} |->
                    IF k = WsgiKey(l.name) THEN Trimmed(l.value) ELSE dict[k]]

\* A well-formed line, a byte further.
LEMMA LineStep ==
  ASSUME Len(buf) \in Nat, DataInv, HeaderNext,
         NEW l \in HeaderLines, WellFormed(l), NEW o \in Nat, NEW e, LineAt(l, o, e),
         buf[o + 1] = LF, InLine(l, o), i < e
  PROVE  /\ first' = first /\ e \in Nat
         /\ \/ i + 1 < e /\ InLine(l, o)' /\ dict' = dict
            \/ i + 1 = e /\ Stores(l)
<1>0. PICK a, b, p, t : LineHas(l, o, e, a, b, p, t)
  BY LinePlan, Zenon
<1>1. /\ a \in Nat /\ b \in Nat /\ p \in Nat /\ a >= 1 /\ p >= 1
      /\ e = o + 1 + a + 1 + b + p + 1
  BY <1>0, Zenon DEF LineHas
<1>p. /\ a = Len(l.name) /\ b = Blanks(l.value) /\ t = Trimmed(l.value) /\ p = Len(t)
      /\ Len(l.value) = b + p
  BY <1>0, Zenon DEF LineHas
<1>s. /\ t \in Seq(HeaderChar) /\ (\A m \in 1 .. p : t[m] \in ValueChar) /\ t[1] # BLANK
      /\ l.name \in Seq(HeaderChar) /\ \A m \in 1 .. a : l.name[m] \in NameChar
  BY <1>0, Zenon DEF LineHas
<1>t. /\ \A m \in 1 .. a : buf[o + 1 + m] = l.name[m]
      /\ buf[o + 1 + a + 1] = KEY_SEP
      /\ \A m \in 1 .. b : buf[o + 1 + a + 1 + m] = BLANK
      /\ \A m \in 1 .. p : buf[o + 1 + a + 1 + b + m] = t[m]
      /\ buf[e] = CR
  BY <1>0, Zenon DEF LineHas
<1>e. e \in Nat
  BY <1>1
<1>2. i < Len(buf) /\ i' = i + 1 /\ i \in Nat /\ j \in Nat
  BY WhichStep DEF DataInv
<1>3. /\ \A c \in NameChar : c \notin {KEY_SEP, CR, LF, BLANK}
      /\ \A c \in ValueChar : c \notin {CR, LF}
      /\ KEY_SEP \notin {CR, LF} /\ LF # CR /\ BLANK # CR
  BY Distinct DEF NameChar, ValueChar
<1>4. InLine(l, o) <=>
        \/ i = o /\ state = "key" /\ j = 0
        \/ i \in o + 1 .. o + 1 + a /\ state = "key" /\ Holds(l.name, o + 1)
        \/ /\ i \in o + 1 + a + 1 .. o + 1 + a + 1 + b
           /\ state = "val" /\ key = WsgiKey(l.name) /\ j = 0
        \/ /\ i \in o + 1 + a + 1 + b .. o + 1 + a + 1 + (b + p)
           /\ state = "val" /\ key = WsgiKey(l.name) /\ Holds(t, o + 1 + a + 1 + b)
  BY <1>p, Zenon DEF InLine
<1>5. InLine(l, o)' <=>
        \/ i' = o /\ state' = "key" /\ j' = 0
        \/ i' \in o + 1 .. o + 1 + a /\ state' = "key" /\ Holds(l.name, o + 1)'
        \/ /\ i' \in o + 1 + a + 1 .. o + 1 + a + 1 + b
           /\ state' = "val" /\ key' = WsgiKey(l.name) /\ j' = 0
        \/ /\ i' \in o + 1 + a + 1 + b .. o + 1 + a + 1 + (b + p)
           /\ state' = "val" /\ key' = WsgiKey(l.name) /\ Holds(t, o + 1 + a + 1 + b)'
  BY <1>p, Zenon DEF InLine
<1>6. Delimiter["key"] = KEY_SEP /\ Delimiter["val"] = CR
  BY DEF Delimiter
\* The LF before the name.
<1>7. CASE i = o /\ state = "key" /\ j = 0
  <2>1. ch = LF
    BY <1>7 DEF ch
  <2>2. ~Ends /\ Skips
    BY <1>3, <1>6, <1>7, <2>1 DEF Ends, Skips
  <2>3. Collect
    BY <2>2, WhichStep
  <2>4. j' = 0
    BY <1>2, <1>7, <2>2, <2>3, CollectData
  <2>5. state' = "key" /\ first' = first /\ dict' = dict
    BY <1>3, <1>7, <2>1, <2>3 DEF Collect
  <2>6. i' = o + 1 /\ i' \in o + 1 .. o + 1 + a /\ i + 1 < e
    BY <1>1, <1>2, <1>7
  <2>7. Holds(l.name, o + 1)'
    BY <2>4, <2>6 DEF Holds
  <2> QED
    BY <1>e, <1>5, <2>5, <2>6, <2>7
\* The name, and its separator.
<1>8. CASE i \in o + 1 .. o + 1 + a /\ state = "key" /\ Holds(l.name, o + 1)
  <2>1. CASE i < o + 1 + a
    <3>1. PICK m \in 1 .. a : m = i + 1 - (o + 1) /\ o + 1 + m = i + 1
      <4>1. i + 1 - (o + 1) \in 1 .. a /\ o + 1 + (i + 1 - (o + 1)) = i + 1
        BY <1>1, <1>2, <1>8, <2>1
      <4> QED
        BY <4>1
    <3>2. ch = l.name[m] /\ ch \in NameChar
      BY <1>s, <1>t, <3>1 DEF ch
    <3>3. ~Ends
      BY <1>3, <1>6, <1>8, <3>2 DEF Ends
    <3>4. Collect
      BY <3>3, WhichStep
    <3>5. state' = "key" /\ first' = first /\ dict' = dict
      BY <1>3, <1>8, <3>2, <3>4 DEF Collect
    <3>6. l.name[1] \notin {CR, LF, BLANK}
      <4>1. 1 \in 1 .. a
        BY <1>1
      <4> QED
        BY <1>s, <1>3, <4>1
    <3>7. Holds(l.name, o + 1)'
      <4>1. PICK s : s = l.name
        OBVIOUS
      <4>2. Holds(s, o + 1) /\ ch = s[i + 1 - (o + 1)] /\ s[1] \notin {CR, LF, BLANK}
        BY <1>8, <3>1, <3>2, <3>6, <4>1
      <4>3. o + 1 \in Nat
        OBVIOUS
      <4>4. Holds(s, o + 1)'
        BY <1>2, <3>4, <4>2, <4>3, HoldsMore
      <4> QED
        BY <4>1, <4>4
    <3>8. i' \in o + 1 .. o + 1 + a /\ i + 1 < e
      BY <1>1, <1>2, <1>8, <2>1
    <3> QED
      BY <1>e, <1>5, <3>5, <3>7, <3>8
  <2>2. CASE ~(i < o + 1 + a)
    <3>1. i = o + 1 + a
      BY <1>1, <1>2, <1>8, <2>2
    <3>2. ch = KEY_SEP
      BY <1>t, <3>1 DEF ch
    <3>3. Ends
      BY <1>6, <1>8, <3>2 DEF Ends
    <3>4. EndOfKey
      BY <1>8, <3>3, WhichStep
    <3>5. j = a /\ j # 0 /\ \A m \in 1 .. j : data[m - 1] = l.name[m]
      BY <1>1, <1>8, <3>1 DEF Holds
    <3>6. Token = l.name
      <4>1. l.name \in Seq(HeaderChar) /\ Len(l.name) = j
        BY <1>p, <1>s, <3>5
      <4> QED
        BY <1>2, <3>5, <4>1, TokenIs
    <3>7. key' = WsgiKey(l.name) /\ first' = first /\ dict' = dict /\ EndToken("val")
      BY <3>4, <3>6 DEF EndOfKey
    <3>8. j' = 0 /\ state' = "val"
      BY <3>7, EndData
    <3>9. i' \in o + 1 + a + 1 .. o + 1 + a + 1 + b /\ i + 1 < e
      BY <1>1, <1>2, <3>1
    <3> QED
      BY <1>e, <1>5, <3>7, <3>8, <3>9
  <2> QED
    BY <2>1, <2>2
\* The blanks before the text.
<1>9. CASE /\ i \in o + 1 + a + 1 .. o + 1 + a + 1 + b
           /\ state = "val" /\ key = WsgiKey(l.name) /\ j = 0 /\ i < o + 1 + a + 1 + b
  <2>1. PICK m \in 1 .. b : o + 1 + a + 1 + m = i + 1
    <3>1. i - (o + 1 + a) \in 1 .. b /\ o + 1 + a + 1 + (i - (o + 1 + a)) = i + 1
      BY <1>1, <1>2, <1>9
    <3> QED
      BY <3>1
  <2>2. ch = BLANK
    BY <1>t, <2>1 DEF ch
  <2>3. ~Ends /\ Skips
    BY <1>3, <1>6, <1>9, <2>2 DEF Ends, Skips
  <2>4. Collect
    BY <2>3, WhichStep
  <2>5. j' = 0
    BY <1>2, <1>9, <2>3, <2>4, CollectData
  <2>6. state' = "val" /\ first' = first /\ dict' = dict /\ key' = key
    BY <1>9, <2>4 DEF Collect
  <2>7. i' \in o + 1 + a + 1 .. o + 1 + a + 1 + b /\ i + 1 < e
    BY <1>1, <1>2, <1>9
  <2> QED
    BY <1>e, <1>5, <1>9, <2>5, <2>6, <2>7
\* The text, and the end of the line.
<1>10. CASE /\ i \in o + 1 + a + 1 + b .. o + 1 + a + 1 + (b + p)
            /\ state = "val" /\ key = WsgiKey(l.name) /\ Holds(t, o + 1 + a + 1 + b)
  <2>1. CASE i < o + 1 + a + 1 + (b + p)
    <3>1. PICK m \in 1 .. p : m = i + 1 - (o + 1 + a + 1 + b) /\ o + 1 + a + 1 + b + m = i + 1
      <4>1. /\ i + 1 - (o + 1 + a + 1 + b) \in 1 .. p
            /\ o + 1 + a + 1 + b + (i + 1 - (o + 1 + a + 1 + b)) = i + 1
        BY <1>1, <1>2, <1>10, <2>1
      <4> QED
        BY <4>1
    <3>2. ch = t[m] /\ ch \in ValueChar
      BY <1>s, <1>t, <3>1 DEF ch
    <3>3. ~Ends
      BY <1>3, <1>6, <1>10, <3>2 DEF Ends
    <3>4. Collect
      BY <3>3, WhichStep
    <3>5. state' = "val" /\ first' = first /\ dict' = dict /\ key' = key
      BY <1>10, <3>4 DEF Collect
    <3>6. t[1] \notin {CR, LF, BLANK}
      <4>1. 1 \in 1 .. p
        BY <1>1
      <4> QED
        BY <1>s, <1>3, <4>1
    <3>7. Holds(t, o + 1 + a + 1 + b)'
      <4>1. ch = t[i + 1 - (o + 1 + a + 1 + b)]
        BY <3>1, <3>2
      <4>2. o + 1 + a + 1 + b \in Nat
        BY <1>1
      <4> QED
        BY <1>2, <1>10, <3>4, <3>6, <4>1, <4>2, HoldsMore
    <3>8. /\ i' \in o + 1 + a + 1 + b .. o + 1 + a + 1 + (b + p) /\ i + 1 < e
      BY <1>1, <1>2, <1>10, <2>1
    <3> QED
      BY <1>e, <1>5, <1>10, <3>5, <3>7, <3>8
  <2>2. CASE ~(i < o + 1 + a + 1 + (b + p))
    <3>1. i = o + 1 + a + 1 + (b + p) /\ i + 1 = e /\ i - (o + 1 + a + 1 + b) = p
      BY <1>1, <1>2, <1>10, <2>2
    <3>2. ch = CR
      BY <1>t, <3>1 DEF ch
    <3>3. Ends
      BY <1>6, <1>10, <3>2 DEF Ends
    <3>4. EndOfValue
      BY <1>10, <3>3, WhichStep
    <3>5. j = p /\ j # 0 /\ \A m \in 1 .. j : data[m - 1] = t[m]
      BY <1>1, <1>10, <3>1 DEF Holds
    <3>6. Token = t
      <4>1. t \in Seq(HeaderChar) /\ Len(t) = j
        BY <1>p, <1>s, <3>5
      <4> QED
        BY <1>2, <3>5, <4>1, TokenIs
    <3>7. first' = first /\ EndToken("key")
      BY <3>4 DEF EndOfValue
    <3>8. j' = 0 /\ state' = "key"
      BY <3>7, EndData
    <3>9. dict' = [k \in DOMAIN dict \cup {WsgiKey(l.name)} |->
                        IF k = WsgiKey(l.name) THEN t ELSE dict[k]]
      <4>1. dict' = [k \in DOMAIN dict \cup {key} |-> IF k = key THEN Token ELSE dict[k]]
        BY <3>4 DEF EndOfValue
      <4> QED
        BY <1>10, <3>6, <4>1
    <3>10. Stores(l)
      BY <1>p, <3>8, <3>9 DEF Stores
    <3> QED
      BY <1>e, <3>1, <3>7, <3>10
  <2> QED
    BY <2>1, <2>2
<1>11. CASE /\ i \in o + 1 + a + 1 .. o + 1 + a + 1 + b
            /\ state = "val" /\ key = WsgiKey(l.name) /\ j = 0 /\ ~(i < o + 1 + a + 1 + b)
  <2>1. i = o + 1 + a + 1 + b /\ i \in o + 1 + a + 1 + b .. o + 1 + a + 1 + (b + p)
    BY <1>1, <1>2, <1>11
  <2>2. Holds(t, o + 1 + a + 1 + b)
    BY <1>2, <1>11, <2>1 DEF Holds
  <2> QED
    BY <1>10, <1>11, <2>1, <2>2
<1> QED
  BY <1>4, <1>7, <1>8, <1>9, <1>10, <1>11

\* After the last line: the empty line, and the body.
AtEnd(o) == \/ i \in {o, o + 1} /\ state = "key" /\ j = 0
            \/ i > o + 1 /\ state = "body"

LEMMA EndStep ==
  ASSUME Len(buf) \in Nat, DataInv, HeaderNext, NEW o \in Nat, AtEnd(o),
         buf[o + 1] = LF, buf[o + 2] = CR
  PROVE  AtEnd(o)' /\ dict' = dict
<1>1. i < Len(buf) /\ i' = i + 1 /\ i \in Nat /\ j \in Nat
  BY WhichStep DEF DataInv
<1>2. Delimiter["key"] = KEY_SEP /\ KEY_SEP \notin {CR, LF} /\ CR # LF
  BY Distinct DEF Delimiter
<1>3. CASE i = o /\ state = "key" /\ j = 0
  <2>1. ch = LF
    BY <1>3 DEF ch
  <2>2. ~Ends /\ Skips
    BY <1>2, <1>3, <2>1 DEF Ends, Skips
  <2>3. Collect
    BY <2>2, WhichStep
  <2>4. j' = 0
    BY <1>1, <1>3, <2>2, <2>3, CollectData
  <2>5. state' = "key" /\ dict' = dict
    BY <1>2, <1>3, <2>1, <2>3 DEF Collect
  <2> QED
    BY <1>1, <1>3, <2>4, <2>5 DEF AtEnd
<1>4. CASE i = o + 1 /\ state = "key" /\ j = 0
  <2>1. ch = CR
    <3>1. i + 1 = o + 2
      BY <1>4
    <3> QED
      BY <3>1 DEF ch
  <2>2. ~Ends
    BY <1>2, <1>4, <2>1 DEF Ends
  <2>3. Collect
    BY <2>2, WhichStep
  <2>4. state' = "body" /\ dict' = dict
    BY <1>4, <2>1, <2>3 DEF Collect
  <2>5. i' > o + 1
    BY <1>1, <1>4
  <2> QED
    BY <2>4, <2>5 DEF AtEnd
<1>5. CASE i > o + 1 /\ state = "body"
  <2>1. Collect
    BY <1>5, WhichStep DEF Ends
  <2>2. state' = "body" /\ dict' = dict
    BY <1>5, <2>1 DEF Collect
  <2>3. i' > o + 1
    BY <1>1, <1>5
  <2> QED
    BY <2>2, <2>3 DEF AtEnd
<1> QED
  BY <1>3, <1>4, <1>5 DEF AtEnd

\* No byte of a line is a CR, so that one the parser makes nothing of leaves
\* the dictionary alone.
LEMMA NoCr ==
  ASSUME NEW l \in HeaderLines, NEW o \in Nat, NEW e, LineAt(l, o, e), buf[o + 1] = LF,
         NEW x \in Nat, o < x, x < e
  PROVE  buf[x] # CR
<1>1. PICK a \in Nat, b \in Nat, c \in Nat : a = Len(l.name) /\ b = Len(l.sep) /\ c = Len(l.value)
  BY LineParts, LenProperties
<1>2. a \in Nat /\ b \in Nat /\ c \in Nat
  BY <1>1
<1>3. /\ e = o + 1 + a + b + c + 1
      /\ \A m \in 1 .. a : buf[o + 1 + m] = l.name[m]
      /\ \A m \in 1 .. b : buf[o + 1 + a + m] = l.sep[m]
      /\ \A m \in 1 .. c : buf[o + 1 + a + b + m] = l.value[m]
  BY <1>1, Zenon DEF LineAt
<1>4. /\ \A m \in 1 .. a : l.name[m] \in NameChar
      /\ \A m \in 1 .. b : l.sep[m] = KEY_SEP
      /\ \A m \in 1 .. c : l.value[m] \in ValueChar
  BY <1>1, LineParts, Zenon
<1>5. CR \notin NameChar /\ CR # KEY_SEP /\ CR \notin ValueChar /\ CR # LF
  BY Distinct DEF NameChar, ValueChar
<1>6. \/ x = o + 1
      \/ \E m \in 1 .. a : x = o + 1 + m
      \/ \E m \in 1 .. b : x = o + 1 + a + m
      \/ \E m \in 1 .. c : x = o + 1 + a + b + m
  <2>1. x < o + 1 + a + b + c + 1
    BY <1>3
  <2>2. CASE x <= o + 1 + a /\ x # o + 1
    <3>1. x - (o + 1) \in 1 .. a /\ x = o + 1 + (x - (o + 1))
      BY <1>2, <2>2
    <3> QED
      BY <3>1
  <2>3. CASE o + 1 + a < x /\ x <= o + 1 + a + b
    <3>1. x - (o + 1 + a) \in 1 .. b /\ x = o + 1 + a + (x - (o + 1 + a))
      BY <1>2, <2>3
    <3> QED
      BY <3>1
  <2>4. CASE o + 1 + a + b < x
    <3>1. x - (o + 1 + a + b) \in 1 .. c /\ x = o + 1 + a + b + (x - (o + 1 + a + b))
      BY <1>2, <2>1, <2>4
    <3> QED
      BY <3>1
  <2>5. \/ x = o + 1
        \/ x <= o + 1 + a /\ x # o + 1
        \/ o + 1 + a < x /\ x <= o + 1 + a + b
        \/ o + 1 + a + b < x
    BY <1>2
  <2> QED
    BY <2>2, <2>3, <2>4, <2>5
<1>7. CASE \E m \in 1 .. a : x = o + 1 + m
  <2>1. PICK m \in 1 .. a : x = o + 1 + m
    BY <1>7
  <2>2. buf[o + 1 + m] = l.name[m]
    BY <1>3, Zenon
  <2>3. l.name[m] # CR
    BY <1>4, <1>5, Zenon
  <2> QED
    BY <2>1, <2>2, <2>3, Zenon
<1>8. CASE \E m \in 1 .. b : x = o + 1 + a + m
  <2>1. PICK m \in 1 .. b : x = o + 1 + a + m
    BY <1>8
  <2>2. buf[o + 1 + a + m] = l.sep[m]
    BY <1>3, Zenon
  <2>3. l.sep[m] # CR
    BY <1>4, <1>5, Zenon
  <2> QED
    BY <2>1, <2>2, <2>3, Zenon
<1>9. CASE \E m \in 1 .. c : x = o + 1 + a + b + m
  <2>1. PICK m \in 1 .. c : x = o + 1 + a + b + m
    BY <1>9
  <2>2. buf[o + 1 + a + b + m] = l.value[m]
    BY <1>3, Zenon
  <2>3. l.value[m] # CR
    BY <1>4, <1>5, Zenon
  <2> QED
    BY <2>1, <2>2, <2>3, Zenon
<1> QED
  BY <1>5, <1>6, <1>7, <1>8, <1>9

LEMMA QuietStep ==
  ASSUME HeaderNext
  PROVE  /\ state \in {"key", "val", "body"} => state' \in {"key", "val", "body"} /\ first' = first
         /\ state \in {"key", "val"} /\ ch # CR => state' \in {"key", "val"} /\ dict' = dict
<1>1. CASE Collect
  BY <1>1 DEF Collect
<1>2. CASE Ends /\ state = "key" /\ EndOfKey
  BY <1>2 DEF EndOfKey, EndToken
<1>3. CASE Ends /\ state = "val" /\ EndOfValue
  <2>1. ch = CR
    BY <1>3 DEF Ends, Delimiter
  <2> QED
    BY <1>3, <2>1 DEF EndOfValue, EndToken
<1>4. CASE Ends /\ state \in {"method", "uri", "protocol"}
  BY <1>4
<1> QED
  BY <1>1, <1>2, <1>3, <1>4, WhichStep

-----------------------------------------------------------------------------
(* HeaderParser: the dictionary *)

\* The line m is the last of the first n that says k.
IsLast(m, k, n) ==
    /\ WsgiKey(lines[m].name) = k
    /\ \A x \in m + 1 .. n : WsgiKey(lines[x].name) # k

\* The dictionary holds the first n lines.
DictIs(n) ==
    /\ IsFunction(dict) /\ DOMAIN dict = {WsgiKey(lines[m].name) : m \in 1 .. n}
    /\ \A k \in DOMAIN dict : \E m \in 1 .. n :
          IsLast(m, k, n) /\ dict[k] = Trimmed(lines[m].value)

LEMMA DictKept ==
  ASSUME NEW n, DictIs(n), dict' = dict, lines' = lines
  PROVE  DictIs(n)'
  BY DEF DictIs, IsLast, IsFunction

LEMMA DictLonger ==
  ASSUME NEW n \in Nat, DictIs(n), Stores(lines[n + 1]), lines' = lines
  PROVE  DictIs(n + 1)'
<1> DEFINE new == WsgiKey(lines[n + 1].name)
           text == Trimmed(lines[n + 1].value)
<1>1. dict' = [k \in DOMAIN dict \cup {new} |-> IF k = new THEN text ELSE dict[k]]
  BY DEF Stores
<1>2. /\ DOMAIN dict = {WsgiKey(lines[m].name) : m \in 1 .. n}
      /\ \A k \in DOMAIN dict : \E m \in 1 .. n :
            IsLast(m, k, n) /\ dict[k] = Trimmed(lines[m].value)
  BY DEF DictIs
<1>3. n + 1 \in 1 .. n + 1 /\ \A m \in 1 .. n : m \in 1 .. n + 1
  OBVIOUS
<1>4. \A m \in 1 .. n + 1 : m \in 1 .. n \/ m = n + 1
  OBVIOUS
<1>5. DOMAIN dict' = {WsgiKey(lines[m].name) : m \in 1 .. n + 1}
  <2>1. DOMAIN dict' = DOMAIN dict \cup {new}
    BY <1>1
  <2>2. \A k \in DOMAIN dict \cup {new} : \E m \in 1 .. n + 1 : k = WsgiKey(lines[m].name)
    BY <1>2, <1>3
  <2>3. \A m \in 1 .. n + 1 : WsgiKey(lines[m].name) \in DOMAIN dict \cup {new}
    BY <1>2, <1>4
  <2> QED
    BY <2>1, <2>2, <2>3
<1>6. ASSUME NEW k \in DOMAIN dict'
      PROVE  \E m \in 1 .. n + 1 : IsLast(m, k, n + 1) /\ dict'[k] = Trimmed(lines[m].value)
  <2>1. CASE k = new
    <3>1. dict'[k] = text
      BY <1>1, <2>1
    <3>2. (n + 1) + 1 .. n + 1 = {}
      OBVIOUS
    <3>3. IsLast(n + 1, k, n + 1)
      BY <2>1, <3>2 DEF IsLast
    <3> QED
      BY <1>3, <3>1, <3>3
  <2>2. CASE k # new
    <3>1. k \in DOMAIN dict /\ dict'[k] = dict[k]
      BY <1>1, <2>2
    <3>2. PICK m \in 1 .. n : IsLast(m, k, n) /\ dict[k] = Trimmed(lines[m].value)
      BY <1>2, <3>1
    <3>3. ASSUME NEW x \in m + 1 .. n + 1  PROVE WsgiKey(lines[x].name) # k
      <4>1. x \in m + 1 .. n \/ x = n + 1
        OBVIOUS
      <4> QED
        BY <2>2, <3>2, <4>1 DEF IsLast
    <3>4. IsLast(m, k, n + 1)
      BY <3>2, <3>3 DEF IsLast
    <3> QED
      BY <1>3, <3>1, <3>2, <3>4
  <2> QED
    BY <2>1, <2>2
<1>7. IsFunction(dict')
  BY <1>1, <1>5 DEF IsFunction
<1>8. \A m, k : IsLast(m, k, n + 1)' <=> IsLast(m, k, n + 1)
  BY DEF IsLast
<1> QED
  BY <1>5, <1>6, <1>7, <1>8 DEF DictIs, IsFunction

-----------------------------------------------------------------------------
(* HeaderParser: the invariant *)

\* The first n lines are complete, and no other one is.
IsComplete(n) ==
    /\ n > 0 => LineEnd(n) <= i
    /\ n < Len(lines) => i < LineEnd(n + 1)

\* Where the parser is in what follows the first n lines.
Position(n) ==
    \/ n = Len(lines) /\ AtEnd(LineEnd(n))
    \/ n < Len(lines) /\ WellFormed(lines[n + 1]) /\ InLine(lines[n + 1], LineEnd(n))
    \/ n < Len(lines) /\ ~WellFormed(lines[n + 1]) /\ state \in {"key", "val"}

Reading(n) == (\A m \in 1 .. n : WellFormed(lines[m])) => DictIs(n) /\ Position(n)

LEMMA LineEndStays ==
  ASSUME lines' = lines, NEW n  PROVE LineEnd(n)' = LineEnd(n)
  BY DEF LineEnd

\* A line is longer than the CR and the LF before it.
LEMMA LineEndGrows ==
  ASSUME SentInv, NEW n \in 0 .. Len(lines) - 1
  PROVE  LineEnd(n + 1) >= LineEnd(n) + 2 /\ LineEnd(n) \in Nat /\ LineEnd(n + 1) \in Nat
<1>0. PICK L : L = Len(lines)
  OBVIOUS
<1>1. /\ L \in Nat
      /\ \A m \in 0 .. L : LineEnd(m) \in Nat
      /\ lines[n + 1] \in HeaderLines
      /\ LineAt(lines[n + 1], LineEnd(n), LineEnd(n + 1))
  BY <1>0, Layout
<1>2. n \in 0 .. L /\ n + 1 \in 0 .. L
  BY <1>0, <1>1
<1>3. PICK l \in HeaderLines : l = lines[n + 1]
  BY <1>1
<1>4. PICK a \in Nat, b \in Nat, c \in Nat : a = Len(l.name) /\ b = Len(l.sep) /\ c = Len(l.value)
  BY LineParts, LenProperties
<1>5. PICK o, e : o = LineEnd(n) /\ e = LineEnd(n + 1)
  OBVIOUS
<1>6. LineAt(l, o, e)
  BY <1>1, <1>3, <1>5, Zenon
<1>7. e = o + 1 + a + b + c + 1
  BY <1>4, <1>6, Zenon DEF LineAt
<1>8. o \in Nat /\ e \in Nat
  BY <1>1, <1>2, <1>5
<1>9. a \in Nat /\ b \in Nat /\ c \in Nat
  BY <1>4
<1>10. e >= o + 2
  BY <1>7, <1>8, <1>9
<1> QED
  BY <1>5, <1>8, <1>10

LEMMA ReadingStep ==
  ASSUME SentInv, DataInv, HeaderNext,
         NEW n \in 0 .. Len(lines), LineEnd(n) <= i, IsComplete(n), Reading(n)
  PROVE  \E k \in 0 .. Len(lines) : LineEnd(k)' <= i' /\ IsComplete(k)' /\ Reading(k)'
<1>0. PICK L : L = Len(lines)
  OBVIOUS
<1>1. /\ L \in Nat /\ buf \in Seq(HeaderChar)
      /\ \A m \in 0 .. L : LineEnd(m) \in Nat /\ buf[LineEnd(m) + 1] = LF
      /\ \A m \in 0 .. L - 1 : /\ lines[m + 1] \in HeaderLines
                               /\ LineAt(lines[m + 1], LineEnd(m), LineEnd(m + 1))
      /\ buf[LineEnd(L) + 2] = CR
  BY <1>0, Layout
<1>b. Len(buf) \in Nat
  BY <1>1, LenProperties
<1>2. i' = i + 1 /\ i \in Nat /\ lines' = lines /\ Len(lines)' = L
  BY <1>0, WhichStep DEF DataInv
<1>3. PICK o \in Nat : o = LineEnd(n)
  BY <1>0, <1>1
<1>4. \A m : LineEnd(m)' = LineEnd(m)
  BY <1>2, LineEndStays
<1>5. o <= i /\ buf[o + 1] = LF
  BY <1>0, <1>1, <1>3
\* What is read of the lines before stays.
<1>6. CASE n = L
  <2>1. IsComplete(n)' /\ LineEnd(n)' <= i'
    BY <1>2, <1>3, <1>4, <1>5, <1>6 DEF IsComplete
  <2>2. ASSUME \A m \in 1 .. n : WellFormed(lines[m])
        PROVE  DictIs(n)' /\ Position(n)'
    <3>1. DictIs(n) /\ AtEnd(o)
      BY <1>0, <1>3, <1>6, <2>2 DEF Reading, Position
    <3>2. buf[o + 2] = CR
      BY <1>1, <1>3, <1>6
    <3>3. AtEnd(o)' /\ dict' = dict
      BY <1>b, <1>5, <3>1, <3>2, EndStep
    <3>4. DictIs(n)'
      BY <1>2, <3>1, <3>3, DictKept
    <3>5. AtEnd(LineEnd(n))'
      BY <1>3, <1>4, <3>3 DEF AtEnd
    <3> QED
      BY <1>2, <1>6, <3>4, <3>5 DEF Position
  <2>3. Reading(n)'
    BY <1>2, <2>2 DEF Reading
  <2> QED
    BY <2>1, <2>3
<1>7. CASE n # L
  <2>1. PICK l, e : /\ l = lines[n + 1] /\ e = LineEnd(n + 1)
                    /\ l \in HeaderLines /\ LineAt(l, o, e)
    <3>1. n \in 0 .. L - 1
      BY <1>0, <1>1, <1>7
    <3> QED
      BY <1>1, <1>3, <3>1
  <2>2. n < L /\ n + 1 \in 0 .. L /\ e \in Nat /\ n \in Nat
    <3>1. n < L /\ n + 1 \in 0 .. L /\ n \in Nat
      BY <1>0, <1>1, <1>7
    <3> QED
      BY <1>1, <2>1, <3>1
  <2>3. i < e
    BY <1>0, <2>1, <2>2 DEF IsComplete
  <2>4. ASSUME \A m \in 1 .. n : WellFormed(lines[m]), WellFormed(l)
        PROVE  /\ DictIs(n)
               /\ \/ i + 1 < e /\ InLine(l, o)' /\ dict' = dict
                  \/ i + 1 = e /\ Stores(l)
    <3>1. DictIs(n) /\ InLine(l, o)
      BY <1>0, <1>3, <1>7, <2>1, <2>4 DEF Reading, Position
    <3>2. l \in HeaderLines /\ LineAt(l, o, e)
      BY <2>1
    <3> QED
      BY <1>b, <1>5, <2>3, <2>4, <3>1, <3>2, LineStep
  <2>5. CASE i + 1 < e
    <3>1. IsComplete(n)' /\ LineEnd(n)' <= i'
      BY <1>2, <1>3, <1>4, <1>5, <2>1, <2>5 DEF IsComplete
    <3>2. ASSUME \A m \in 1 .. n : WellFormed(lines[m])
          PROVE  DictIs(n)' /\ Position(n)'
      <4>1. CASE WellFormed(l)
        <5>1. DictIs(n) /\ InLine(l, o)' /\ dict' = dict
          BY <1>2, <2>2, <2>4, <2>5, <3>2, <4>1
        <5>2. DictIs(n)'
          BY <1>2, <5>1, DictKept
        <5>3. InLine(lines[n + 1], LineEnd(n))'
          <6>1. PICK x, y : x = lines[n + 1] /\ y = LineEnd(n)
            OBVIOUS
          <6>2. x = l /\ y = o /\ lines'[n + 1] = x /\ LineEnd(n)' = y
            BY <1>2, <1>3, <1>4, <2>1, <6>1
          <6>3. InLine(x, y)'
            BY <5>1, <6>2
          <6> QED
            BY <6>2, <6>3 DEF InLine
        <5> QED
          BY <1>2, <2>1, <2>2, <4>1, <5>2, <5>3 DEF Position
      <4>2. CASE ~WellFormed(l)
        <5>1. DictIs(n) /\ state \in {"key", "val"}
          BY <1>0, <1>7, <2>1, <3>2, <4>2 DEF Reading, Position
        <5>2. ch # CR
          <6>1. i + 1 \in Nat /\ o < i + 1 /\ i + 1 < e
            BY <1>2, <1>5, <2>5
          <6>2. buf[i + 1] # CR
            BY <1>5, <2>1, <6>1, NoCr
          <6> QED
            BY <6>2 DEF ch
        <5>3. state' \in {"key", "val"} /\ dict' = dict
          BY <5>1, <5>2, QuietStep
        <5>4. DictIs(n)'
          BY <1>2, <5>1, <5>3, DictKept
        <5> QED
          BY <1>2, <2>1, <2>2, <4>2, <5>3, <5>4 DEF Position
      <4> QED
        BY <4>1, <4>2
    <3>3. Reading(n)'
      BY <1>2, <3>2 DEF Reading
    <3> QED
      BY <3>1, <3>3
  <2>6. CASE i + 1 = e
    <3>1. IsComplete(n + 1)' /\ LineEnd(n + 1)' <= i'
      <4>1. n + 1 < L => i + 1 < LineEnd(n + 1 + 1)
        <5>1. ASSUME n + 1 < L  PROVE i + 1 < LineEnd(n + 1 + 1)
          <6>1. n + 1 \in 0 .. Len(lines) - 1
            BY <1>0, <1>1, <2>2, <5>1
          <6>2. LineEnd(n + 1 + 1) >= e + 2 /\ LineEnd(n + 1 + 1) \in Nat
            BY <2>1, <6>1, LineEndGrows
          <6> QED
            BY <2>2, <2>6, <6>2
        <5> QED
          BY <5>1
      <4>2. LineEnd(n + 1)' <= i'
        BY <1>2, <1>4, <2>1, <2>2, <2>6
      <4> QED
        BY <1>2, <1>4, <4>1, <4>2 DEF IsComplete
    <3>2. ASSUME \A m \in 1 .. n + 1 : WellFormed(lines[m])
          PROVE  DictIs(n + 1)' /\ Position(n + 1)'
      <4>1. (\A m \in 1 .. n : WellFormed(lines[m])) /\ WellFormed(l)
        <5>1. n + 1 \in 1 .. n + 1 /\ \A m \in 1 .. n : m \in 1 .. n + 1
          BY <2>2
        <5> QED
          BY <2>1, <3>2, <5>1
      <4>2. DictIs(n) /\ Stores(l)
        BY <1>2, <2>4, <2>6, <4>1
      <4>3. DictIs(n + 1)'
        BY <1>2, <2>1, <2>2, <4>2, DictLonger
      <4>4. state' = "key" /\ j' = 0 /\ i' = e /\ LineEnd(n + 1)' = e
        BY <1>2, <1>4, <2>1, <2>6, <4>2 DEF Stores
      <4>5. CASE n + 1 = L
        <5>1. AtEnd(LineEnd(n + 1))'
          BY <4>4 DEF AtEnd
        <5> QED
          BY <1>2, <4>3, <4>5, <5>1 DEF Position
      <4>6. CASE n + 1 # L
        <5>1. n + 1 < L
          BY <1>1, <2>2, <4>6
        <5>2. InLine(lines[n + 1 + 1], LineEnd(n + 1))'
          BY <4>4 DEF InLine
        <5> QED
          BY <1>2, <4>3, <4>4, <5>1, <5>2 DEF Position
      <4> QED
        BY <4>5, <4>6
    <3>3. Reading(n + 1)'
      BY <1>2, <3>2 DEF Reading
    <3> QED
      BY <1>0, <2>2, <3>1, <3>3
  <2>7. i + 1 < e \/ i + 1 = e
    BY <1>2, <2>2, <2>3
  <2> QED
    BY <2>5, <2>6, <2>7
<1> QED
  BY <1>6, <1>7

\* What one pass keeps: a token of the first line, or the dictionary of the
\* lines that are complete and the place in the one that is not.
HeaderInv ==
    /\ SentInv /\ DataInv
    /\ \/ i \in 0 .. 8 /\ FirstRow /\ dict = [k \in {} |-> <<>>]
       \/ /\ state \in {"key", "val", "body"}
          /\ first = <<<<"G">>, <<"u", "?", "u">>, <<"P", "P">>>>
          /\ \E n \in 0 .. Len(lines) : LineEnd(n) <= i /\ IsComplete(n) /\ Reading(n)

LEMMA SentStays ==
  ASSUME SentInv, lines' = lines, buf' = buf
  PROVE  SentInv'
  BY DEF SentInv

LEMMA HeaderInvInit ==
  ASSUME HeaderInit
  PROVE  HeaderInv
<1>1. lines \in Seq(HeaderLines)
  BY HeaderAssumption DEF HeaderInit, SeqOf
<1>2. SentInv
  BY <1>1 DEF HeaderInit, SentInv
<1>3. buf \in Seq(HeaderChar)
  BY <1>2, Layout
<1>4. Len(buf) \in Nat
  BY <1>3, LenProperties
<1>5. DataInv
  BY <1>4 DEF HeaderInit, DataInv
<1>6. FirstRow
  BY DEF HeaderInit, FirstRow, Holds
<1> QED
  BY <1>2, <1>5, <1>6 DEF HeaderInit, HeaderInv

LEMMA HeaderInvNext ==
  ASSUME HeaderInv, HeaderNext
  PROVE  HeaderInv'
<1>0. PICK L : L = Len(lines)
  OBVIOUS
<1>1. /\ SentInv /\ DataInv /\ L \in Nat /\ buf \in Seq(HeaderChar) /\ LineEnd(0) = 9
      /\ L # 0 => LineEnd(1) \in Nat /\ LineEnd(1) >= 11
  <2>1. SentInv /\ DataInv
    BY DEF HeaderInv
  <2>2. L \in Nat /\ buf \in Seq(HeaderChar) /\ LineEnd(0) = 9
    BY <1>0, <2>1, Layout
  <2>3. ASSUME L # 0  PROVE LineEnd(1) \in Nat /\ LineEnd(1) >= 11
    <3>1. 0 \in 0 .. Len(lines) - 1 /\ 0 + 1 = 1
      BY <1>0, <2>2, <2>3
    <3>2. LineEnd(0 + 1) >= LineEnd(0) + 2 /\ LineEnd(0 + 1) \in Nat
      BY <2>1, <3>1, LineEndGrows
    <3> QED
      BY <2>2, <3>1, <3>2
  <2> QED
    BY <2>1, <2>2, <2>3
<1>2. Len(buf) \in Nat
  BY <1>1, LenProperties
<1>3. lines' = lines /\ buf' = buf /\ i' = i + 1 /\ i \in Nat
  BY <1>1, WhichStep DEF DataInv
<1>4. SentInv' /\ DataInv'
  BY <1>1, <1>2, <1>3, SentStays, DataStep
<1>5. CASE i \in 0 .. 8 /\ FirstRow /\ dict = [k \in {} |-> <<>>]
  <2>1. /\ dict' = dict
        /\ \/ i' \in 0 .. 8 /\ FirstRow'
           \/ /\ i' = 9 /\ j' = 0 /\ state' = "key"
              /\ first' = <<<<"G">>, <<"u", "?", "u">>, <<"P", "P">>>>
    BY <1>1, <1>2, <1>5, FirstRowStep
  <2>2. CASE i' \in 0 .. 8 /\ FirstRow'
    BY <1>4, <1>5, <2>1, <2>2 DEF HeaderInv
  <2>3. CASE /\ i' = 9 /\ j' = 0 /\ state' = "key"
             /\ first' = <<<<"G">>, <<"u", "?", "u">>, <<"P", "P">>>>
    <3>1. LineEnd(0)' = 9 /\ LineEnd(0 + 1)' = LineEnd(1)
      BY <1>1, <1>3, LineEndStays
    <3>2. IsComplete(0)' /\ LineEnd(0)' <= i'
      BY <1>0, <1>1, <1>3, <2>3, <3>1 DEF IsComplete
    <3>3. DictIs(0)'
      <4>1. IsFunction(dict') /\ DOMAIN dict' = {}
        BY <1>5, <2>1 DEF IsFunction
      <4>2. 1 .. 0 = {}
        OBVIOUS
      <4> QED
        BY <4>1, <4>2 DEF DictIs, IsFunction
    <3>4. Position(0)'
      <4>1. CASE L = 0
        <5>1. AtEnd(LineEnd(0))'
          BY <2>3, <3>1 DEF AtEnd
        <5> QED
          BY <1>0, <1>3, <4>1, <5>1 DEF Position
      <4>2. CASE L # 0
        <5>1. 0 < L
          BY <1>1, <4>2
        <5>2. InLine(lines[0 + 1], LineEnd(0))'
          BY <2>3, <3>1 DEF InLine
        <5> QED
          BY <1>0, <1>3, <2>3, <5>1, <5>2 DEF Position
      <4> QED
        BY <4>1, <4>2
    <3>5. Reading(0)'
      BY <3>3, <3>4 DEF Reading
    <3>6. 0 \in 0 .. Len(lines)'
      BY <1>0, <1>1, <1>3
    <3> QED
      BY <1>4, <2>3, <3>2, <3>5, <3>6 DEF HeaderInv
  <2> QED
    BY <2>1, <2>2, <2>3
<1>6. CASE /\ state \in {"key", "val", "body"}
           /\ first = <<<<"G">>, <<"u", "?", "u">>, <<"P", "P">>>>
           /\ \E n \in 0 .. Len(lines) : LineEnd(n) <= i /\ IsComplete(n) /\ Reading(n)
  <2>1. PICK n \in 0 .. Len(lines) : LineEnd(n) <= i /\ IsComplete(n) /\ Reading(n)
    BY <1>6
  <2>2. \E k \in 0 .. Len(lines) : LineEnd(k)' <= i' /\ IsComplete(k)' /\ Reading(k)'
    BY <1>1, <2>1, ReadingStep
  <2>3. state' \in {"key", "val", "body"} /\ first' = first
    BY <1>6, QuietStep
  <2> QED
    BY <1>3, <1>4, <1>6, <2>2, <2>3 DEF HeaderInv
<1> QED
  BY <1>5, <1>6 DEF HeaderInv

LEMMA HeaderInvStutters ==
  ASSUME HeaderInv, UNCHANGED headerVars
  PROVE  HeaderInv'
<1>1. /\ lines' = lines /\ buf' = buf /\ i' = i /\ j' = j /\ state' = state
      /\ data' = data /\ key' = key /\ first' = first /\ dict' = dict
  BY DEF headerVars
<1>2. SentInv' /\ DataInv'
  BY <1>1, SentStays DEF HeaderInv, DataInv
<1>3. \A s, c : Holds(s, c)' <=> Holds(s, c)
  BY <1>1 DEF Holds
<1>4. FirstRow' <=> FirstRow
  BY <1>1, <1>3 DEF FirstRow
<1>5. \A n : LineEnd(n)' = LineEnd(n)
  BY <1>1, LineEndStays
<1>6. \A n : IsComplete(n)' <=> IsComplete(n)
  BY <1>1, <1>5 DEF IsComplete
<1>7. \A n : DictIs(n) => DictIs(n)'
  BY <1>1, DictKept
<1>8. \A l, o : InLine(l, o)' <=> InLine(l, o)
  BY <1>1, <1>3 DEF InLine
<1>9. \A n : Position(n) => Position(n)'
  <2>1. \A n : AtEnd(LineEnd(n)) => AtEnd(LineEnd(n))'
    BY <1>1, <1>5 DEF AtEnd
  <2>2. \A n : InLine(lines[n + 1], LineEnd(n)) => InLine(lines[n + 1], LineEnd(n))'
    BY <1>1, <1>3, <1>5 DEF InLine
  <2> QED
    BY <1>1, <2>1, <2>2 DEF Position
<1>10. \A n : Reading(n) => Reading(n)'
  BY <1>1, <1>7, <1>9 DEF Reading
<1> QED
  BY <1>1, <1>2, <1>4, <1>5, <1>6, <1>10 DEF HeaderInv

\* Ends of lines come in the order of the lines.
LEMMA LineEndsInOrder ==
  ASSUME SentInv, NEW m \in 0 .. Len(lines), NEW n \in 0 .. Len(lines), m < n
  PROVE  LineEnd(m + 1) <= LineEnd(n)
<1>0. PICK L \in Nat : L = Len(lines)
  BY LenProperties DEF SentInv
<1> DEFINE Bad == {x \in m + 1 .. n : ~(LineEnd(m + 1) <= LineEnd(x))}
<1>1. \A x \in m + 1 .. n : x \in 0 .. L /\ LineEnd(x) \in Nat
  BY <1>0, Layout
<1>2. Bad = {}
  <2>1. ASSUME Bad # {}  PROVE FALSE
    <3>1. Bad \in SUBSET Nat
      BY <1>0
    <3>2. PICK x \in Bad : \A y \in Bad : x <= y
      <4> HIDE DEF Bad
      <4> QED
        BY <2>1, <3>1, LeastNatural
    <3>3. x \in m + 1 .. n /\ ~(LineEnd(m + 1) <= LineEnd(x))
      BY <3>2
    <3>4. LineEnd(x) \in Nat
      BY <1>1, <3>3
    <3>5. x # m + 1
      <4>1. ASSUME x = m + 1  PROVE FALSE
        BY <3>3, <3>4, <4>1
      <4> QED
        BY <4>1
    <3>6. PICK y \in m + 1 .. n : y + 1 = x /\ y \in 0 .. Len(lines) - 1 /\ ~(x <= y)
      <4>1. x - 1 \in m + 1 .. n /\ (x - 1) + 1 = x /\ x - 1 \in 0 .. Len(lines) - 1 /\ ~(x <= x - 1)
        BY <1>0, <3>3, <3>5
      <4> QED
        BY <4>1
    <3>7. y \notin Bad
      <4> HIDE DEF Bad
      <4> QED
        BY <3>2, <3>6
    <3>8. LineEnd(m + 1) <= LineEnd(y)
      BY <3>6, <3>7
    <3>9. LineEnd(y + 1) >= LineEnd(y) + 2 /\ LineEnd(y) \in Nat /\ LineEnd(y + 1) \in Nat
      BY <3>6, LineEndGrows
    <3>10. m + 1 \in m + 1 .. n
      BY <1>0
    <3>11. LineEnd(m + 1) \in Nat
      BY <1>1, <3>10
    <3> QED
      BY <3>3, <3>6, <3>8, <3>9, <3>11
  <2> QED
    BY <2>1
<1>3. n \in m + 1 .. n
  BY <1>0
<1> QED
  BY <1>2, <1>3

LEMMA CompleteIs ==
  ASSUME SentInv, i \in Nat, NEW n \in 0 .. Len(lines), IsComplete(n)
  PROVE  Complete = n
<1>0. PICK L \in Nat : L = Len(lines)
  BY LenProperties DEF SentInv
<1>1. ASSUME NEW m \in 0 .. Len(lines), NEW k \in 0 .. Len(lines),
             IsComplete(m), IsComplete(k), m < k
      PROVE  FALSE
  <2>1. LineEnd(m + 1) <= LineEnd(k)
    BY <1>1, LineEndsInOrder
  <2>2. i < LineEnd(m + 1) /\ LineEnd(k) <= i
    BY <1>0, <1>1 DEF IsComplete
  <2>3. m + 1 \in 0 .. L
    BY <1>0, <1>1
  <2>4. LineEnd(m + 1) \in Nat /\ LineEnd(k) \in Nat
    BY <1>0, <2>3, Layout
  <2> QED
    BY <2>1, <2>2, <2>4
<1>2. ASSUME NEW m \in 0 .. Len(lines), IsComplete(m)  PROVE m = n
  <2>1. m < n \/ n < m \/ m = n
    BY <1>0
  <2> QED
    BY <1>1, <1>2, <2>1
<1>3. Complete = CHOOSE m \in 0 .. Len(lines) : IsComplete(m)
  BY DEF Complete, IsComplete
<1> QED
  BY <1>2, <1>3

LEMMA DictIsDictOf ==
  ASSUME NEW n \in Nat, DictIs(n)
  PROVE  dict = DictOf(n)
<1> DEFINE last(k) == CHOOSE m \in 1 .. n : IsLast(m, k, n)
<1>1. DictOf(n) = [k \in {WsgiKey(lines[m].name) : m \in 1 .. n} |-> Trimmed(lines[last(k)].value)]
  BY DEF DictOf, IsLast
<1>2. ASSUME NEW k, NEW m \in 1 .. n, NEW x \in 1 .. n, IsLast(m, k, n), IsLast(x, k, n)
      PROVE  m = x
  <2>1. ~(m < x)
    <3>1. ASSUME m < x  PROVE FALSE
      <4>1. x \in m + 1 .. n
        BY <3>1
      <4> QED
        BY <1>2, <4>1 DEF IsLast
    <3> QED
      BY <3>1
  <2>2. ~(x < m)
    <3>1. ASSUME x < m  PROVE FALSE
      <4>1. m \in x + 1 .. n
        BY <3>1
      <4> QED
        BY <1>2, <4>1 DEF IsLast
    <3> QED
      BY <3>1
  <2> QED
    BY <2>1, <2>2
<1>3. ASSUME NEW k \in DOMAIN dict  PROVE dict[k] = Trimmed(lines[last(k)].value)
  <2>1. PICK m \in 1 .. n : IsLast(m, k, n) /\ dict[k] = Trimmed(lines[m].value)
    BY DEF DictIs
  <2>2. last(k) = m
    BY <1>2, <2>1
  <2> QED
    BY <2>1, <2>2
<1>4. IsFunction(dict) /\ DOMAIN dict = {WsgiKey(lines[m].name) : m \in 1 .. n}
  BY DEF DictIs
<1> HIDE DEF last
<1> QED
  BY <1>1, <1>3, <1>4 DEF IsFunction

LEMMA HeaderInvSuffices ==
  ASSUME HeaderInv
  PROVE  DictExact
<1>1. /\ SentInv /\ DataInv
  BY DEF HeaderInv
<1>2. PICK L \in Nat : L = Len(lines)
  BY <1>1, LenProperties DEF SentInv
<1>3. i \in Nat
  BY <1>1 DEF DataInv
<1>4. Len(FirstLine) = 8
  BY DEF FirstLine
<1>5. CASE i \in 0 .. 8 /\ FirstRow /\ dict = [k \in {} |-> <<>>]
  <2>1. LineEnd(0) = 9 /\ (L # 0 => LineEnd(1) \in Nat /\ LineEnd(1) >= 9)
    <3>1. /\ LineEnd(0) = 9
          /\ \A n \in 0 .. L : LineEnd(n) \in Nat /\ 9 <= LineEnd(n)
      BY <1>1, <1>2, Layout
    <3>2. L # 0 => 1 \in 0 .. L
      BY <1>2
    <3> QED
      BY <3>1, <3>2
  <2>2. 0 \in 0 .. Len(lines) /\ IsComplete(0)
    BY <1>2, <1>5, <2>1 DEF IsComplete
  <2>3. Complete = 0
    BY <1>1, <1>3, <2>2, CompleteIs
  <2>4. DictIs(0)
    <3>1. 1 .. 0 = {}
      OBVIOUS
    <3> QED
      BY <1>5, <3>1 DEF DictIs, IsFunction
  <2>5. dict = DictOf(0)
    BY <2>4, DictIsDictOf
  <2> QED
    BY <1>4, <1>5, <2>3, <2>5 DEF DictExact
<1>6. CASE /\ first = <<<<"G">>, <<"u", "?", "u">>, <<"P", "P">>>>
           /\ \E n \in 0 .. Len(lines) : LineEnd(n) <= i /\ IsComplete(n) /\ Reading(n)
  <2>1. PICK n \in 0 .. Len(lines) : IsComplete(n) /\ Reading(n)
    BY <1>6
  <2>2. Complete = n /\ n \in Nat
    BY <1>1, <1>2, <1>3, <2>1, CompleteIs
  <2>3. ASSUME \A m \in 1 .. n : WellFormed(lines[m])  PROVE dict = DictOf(n)
    BY <2>1, <2>2, <2>3, DictIsDictOf DEF Reading
  <2> QED
    BY <1>6, <2>2, <2>3 DEF DictExact
<1> QED
  BY <1>5, <1>6 DEF HeaderInv

\* After every byte of a request, of any number of header lines, well-formed
\* or not, header_to_dict's dictionary holds the lines that are complete, each
\* with the value of the last line of its key, unless one of them is malformed:
\* though the token is collected in a buffer that is never cleared, nothing of
\* an earlier token gets into a later one.
THEOREM HeadersComeBack == HeaderSpec => []DictExact
<1>1. HeaderInit => HeaderInv
  BY HeaderInvInit
<1>2. HeaderInv /\ [HeaderNext]_headerVars => HeaderInv'
  BY HeaderInvNext, HeaderInvStutters
<1>3. HeaderInv => DictExact
  BY HeaderInvSuffices
<1> QED
  BY <1>1, <1>2, <1>3, PTL DEF HeaderSpec

=============================================================================
