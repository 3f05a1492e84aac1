------------------------------- MODULE Multipart -------------------------------
(***************************************************************************)
(* contrib/multipart.py: MultipartFormData.write takes the body of a       *)
(* multipart POST apart, line by line, in one call per request; files go   *)
(* to disk under a name DiskVersioning chooses.  One action is one line.   *)
(*                                                                         *)
(* Text is a sequence of lines; every line ends with CR LF in the body.    *)
(***************************************************************************)
EXTENDS Integers, FiniteSets, Sequences, FiniteSetsExt

CONSTANTS
    Key,        \* names of form fields
    NoKey,      \* the empty string
    File,       \* file names without version and extension
    NoFile,     \* no file name
    MaxParts,   \* bound: parts of a request
    MaxFiles,   \* bound: files on disk
    MaxVersion  \* bound: versions clients use themselves

\* name + "_" + version; 0 stands for a name without underscore, and Word for
\* an underscore that is followed by no number.
Word == -1
Versions == {Word} \cup 0 .. MaxVersion
Path(name, version) == [name |-> name, version |-> version]
NoPath == Path(NoFile, 0)
Paths == [name : File, version : Versions]

ASSUME MultipartAssumption ==
    /\ NoKey \notin Key /\ NoFile \notin File
    /\ MaxParts \in Nat /\ MaxFiles \in Nat /\ MaxVersion \in Nat

\* A text has one line at least, which may be blank.
Texts == {<<"blank">>, <<"blank", "text">>}

\* A part has a Content-Type when it is a file, and also when it is the empty
\* file name of a form without one.
Parts == [key : Key, path : Paths \cup {NoPath}, type : BOOLEAN, text : Texts]
NoPart == [key |-> NoKey, path |-> NoPath, type |-> FALSE, text |-> <<>>]
IsFile(p) == p.path # NoPath

VARIABLES
    part,       \* the part the client is sending
    todo,       \* the lines of it that write has not seen
    sent,       \* history: the parts of this request
    stage,      \* "idle", "writing", or "failed": write raised
    inHeader,   \* _inheader
    paramkey,   \* the key of the part
    paramvalue, \* the path of its file
    paramattr,  \* whether Content-Type is among its attributes
    content,    \* its text, when it is no file
    fpath,      \* filerepository.fpath: the open file
    disk,       \* disk[p]: the lines of file p
    results,    \* results[k]
    before      \* history: the files there were when the request came

multipartVars == <<part, todo, sent, stage, inHeader, paramkey, paramvalue, paramattr,
          content, fpath, disk, results, before>>

NoFiles == [p \in {} |-> <<>>]

MultipartInit ==
    /\ part = NoPart /\ todo = <<>> /\ sent = <<>>
    /\ stage = "idle"
    /\ inHeader = FALSE
    /\ paramkey = NoKey /\ paramvalue = NoPath /\ paramattr = FALSE
    /\ content = <<>>
    /\ fpath = NoPath
    /\ disk = NoFiles
    /\ results = [k \in Key |-> <<>>]
    /\ before = {}

\* The lines of a part, after its boundary.
Lines(p) ==
    <<"disposition">> \o (IF p.type THEN <<"type">> ELSE <<>>)
        \o <<"blank">> \o p.text

\* The next part of the request, or none after the last.
Sends(next) ==
    /\ part' = next
    /\ todo' = IF next = NoPart THEN <<>> ELSE Lines(next)

-----------------------------------------------------------------------------
(* DiskVersioning *)

\* Mutant: the version is not looked at.
DefineFileNameAsIs(p) == p

\* _definefilename: count up while there is such a file.
DefineFileName(p) ==
    Path(p.name, Min({v \in p.version .. p.version + Cardinality(DOMAIN disk) :
                          Path(p.name, v) \notin DOMAIN disk}))

\* int(version) raises.
NoVersion(p) == p.version = Word /\ p \in DOMAIN disk

-----------------------------------------------------------------------------
(* One line *)

\* A new request: a new MultipartFormData, and a body that starts with the
\* boundary.
Request(first) ==
    /\ stage # "writing"
    /\ stage' = "writing"
    /\ inHeader' = TRUE
    /\ Sends(first)
    /\ sent' = <<first>>
    /\ before' = DOMAIN disk
    /\ paramkey' = NoKey /\ paramvalue' = NoPath /\ paramattr' = FALSE
    /\ content' = <<>>
    /\ fpath' = NoPath
    /\ results' = [k \in Key |-> <<>>]
    /\ UNCHANGED disk

\* strip() of a text, which may have one blank line, at its start.
Stripped(text) ==
    IF text # <<>> /\ Head(text) = "blank" THEN Tail(text) ELSE text

\* A value, with the dictionary that follows it when there are attributes.
Entry ==
    [text |-> Stripped(content),
     path |-> paramvalue,
     type |-> paramattr,
     size |-> IF fpath = NoPath THEN 0 ELSE Len(disk[paramvalue])]

\* The end of a part; after the last one the body ends.  paramkey is not reset.
EndPart(next) ==
    /\ stage = "writing" /\ todo = <<>>
    /\ results' = [results EXCEPT ![paramkey] = Append(@, Entry)]
    /\ inHeader' = TRUE
    /\ paramvalue' = NoPath /\ content' = <<>>
    /\ Sends(next)
    /\ sent' = IF next = NoPart THEN sent ELSE Append(sent, next)
    /\ stage' = IF next = NoPart THEN "idle" ELSE "writing"
    /\ UNCHANGED <<paramkey, disk, before>>

\* Mutant: the attributes stay for the next part.
BoundaryKeepsAttributes(next) ==
    EndPart(next) /\ fpath' = NoPath /\ UNCHANGED paramattr

\* A line with the boundary closes the file and resets what the part had.
Boundary(next) ==
    EndPart(next) /\ fpath' = NoPath /\ paramattr' = FALSE

NextLine(line) ==
    /\ stage = "writing" /\ todo # <<>> /\ Head(todo) = line
    /\ todo' = Tail(todo)
    /\ UNCHANGED <<part, sent, before, results>>

\* The name a file is stored under.
Versioned(p) == IF p \in DOMAIN disk THEN DefineFileName(p) ELSE p

\* Content-Disposition with a file name: the file is created, or truncated.
OpenFile(path) ==
    /\ fpath' = path
    /\ paramvalue' = path
    /\ disk' = [p \in DOMAIN disk \cup {path} |-> IF p = path THEN <<>> ELSE disk[p]]

Disposition ==
    /\ NextLine("disposition")
    /\ paramkey' = part.key
    /\ ~(IsFile(part) /\ NoVersion(part.path))
    /\ IF IsFile(part) THEN OpenFile(Versioned(part.path))
                       ELSE UNCHANGED <<fpath, paramvalue, disk>>
    /\ UNCHANGED <<stage, inHeader, paramattr, content>>

\* write raises; its caller, manage_header_body, does not look: the file name
\* has no version to count up from ...
DispositionRaises ==
    /\ NextLine("disposition")
    /\ IsFile(part) /\ NoVersion(part.path)
    /\ stage' = "failed"
    /\ UNCHANGED <<inHeader, paramkey, paramvalue, paramattr, content, fpath, disk>>

\* ... or split() finds too many or too few pieces: the client's line has two
\* ':' (one of them in a file name) or none, or an attribute without '='.
HeaderRaises(line) ==
    /\ NextLine(line)
    /\ stage' = "failed"
    /\ UNCHANGED <<inHeader, paramkey, paramvalue, paramattr, content, fpath, disk>>

\* In a file name with a ';' the name before it is taken for the whole one,
\* and the file opened, before what is after it raises.
DispositionCut ==
    /\ NextLine("disposition")
    /\ IsFile(part) /\ ~NoVersion(part.path)
    /\ OpenFile(Versioned(part.path))
    /\ paramkey' = part.key
    /\ stage' = "failed"
    /\ UNCHANGED <<inHeader, paramattr, content>>

\* Any other header.
Attribute ==
    /\ NextLine("type")
    /\ paramattr' = TRUE
    /\ UNCHANGED <<stage, inHeader, paramkey, paramvalue, content, fpath, disk>>

EmptyLine ==
    /\ NextLine("blank") /\ inHeader
    /\ inHeader' = FALSE
    /\ UNCHANGED <<stage, paramkey, paramvalue, paramattr, content, fpath, disk>>

\* Lines of text are written with their line ends.
Content(line) ==
    /\ NextLine(line) /\ ~inHeader
    /\ IF fpath # NoPath
       THEN /\ disk' = [disk EXCEPT ![fpath] = Append(@, line)]
            /\ UNCHANGED content
       ELSE /\ content' = Append(content, line)
            /\ UNCHANGED disk
    /\ UNCHANGED <<stage, inHeader, paramkey, paramvalue, paramattr, fpath>>

-----------------------------------------------------------------------------
\* BOUND: MaxParts parts in a request, MaxFiles files on disk.
InBounds(next, others) ==
    /\ others < MaxParts
    /\ IsFile(next) => Cardinality(DOMAIN disk) < MaxFiles

MultipartNext ==
    \/ \E next \in Parts : InBounds(next, 0) /\ Request(next)
    \/ \E next \in Parts : InBounds(next, Len(sent)) /\ Boundary(next)
    \/ Boundary(NoPart)
    \/ Disposition \/ DispositionRaises \/ DispositionCut
    \/ \E line \in {"disposition", "type"} : HeaderRaises(line)
    \/ Attribute
    \/ EmptyLine
    \/ \E line \in {"text", "blank"} : Content(line)

MultipartSpec == MultipartInit /\ [][MultipartNext]_multipartVars

-----------------------------------------------------------------------------
(* Properties *)

\* Whether e is what the application should find of part p.
Received(e, p) ==
    /\ e.type = p.type
    /\ IF IsFile(p)
       THEN /\ e.path \in DOMAIN disk \ before /\ e.path.name = p.path.name
            /\ disk[e.path] = p.text
            /\ e.size = Len(p.text) /\ e.text = <<>>
       ELSE /\ e.path = NoPath /\ e.size = 0
            /\ e.text = Stripped(p.text)

\* The n-th parts of the request, for n in ns, are what results has for key k:
\* "which" says which part an entry is of.
RecordedFor(k, ns) ==
    \E which \in [DOMAIN results[k] -> ns] :
        /\ \A i, j \in DOMAIN results[k] : i < j => which[i] < which[j]
        /\ \A n \in ns : sent[n].key = k => \E i \in DOMAIN results[k] : which[i] = n
        /\ \A i \in DOMAIN results[k] :
              sent[which[i]].key = k /\ Received(results[k][i], sent[which[i]])

\* After a request the application finds, under each key, the parts sent with
\* that key, all of them, in their order, each with its own text, attributes
\* and file: nothing of a part shows up in another (write, 88-101).
ResultsExact ==
    stage = "idle" => \A k \in Key : RecordedFor(k, DOMAIN sent)

\* A file that is not being written never changes, in this request or a later
\* one ("avoid the overwrite syndrome", _definefilename).
NeverOverwrites ==
    [][\A p \in DOMAIN disk \ {fpath} :
           p \in DOMAIN disk' /\ disk'[p] = disk[p]]_multipartVars
=============================================================================
