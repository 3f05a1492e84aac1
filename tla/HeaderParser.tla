----------------------------- MODULE HeaderParser -----------------------------
(***************************************************************************)
(* header_to_dict (wsgi.c): one pass over the bytes of a request, which    *)
(* collects the current token in a buffer that is never cleared, and at    *)
(* the end of a token makes it a part of the first line, a key or a value. *)
(*                                                                         *)
(* Characters are the ones the parser tells apart, and a few others.  The  *)
(* dictionary after i bytes is also that of a request cut off there, since *)
(* the pass keeps no account of how much is to come.  QUERY_STRING is left *)
(* out: py_build_method_variables overwrites it.                           *)
(***************************************************************************)
EXTENDS Integers, Sequences, SequencesExt

CONSTANTS
    MaxHeaders,     \* bound: headers of a request
    Malformed       \* header lines that are sent too: see HeaderLines

CR == "\r"
LF == "\n"
BLANK == " "
KEY_SEP == ":"
Nul == "\\0"
Junk == "junk"  \* what malloc left

ASSUME HeaderAssumption ==
    /\ MaxHeaders \in Nat
    /\ Malformed \subseteq {"blank_value", "no_colon"}

Names == {<<"k">>, <<"K">>, <<"k", "-">>}
BlankValues == {<<>>, <<BLANK>>}
Values == {<<"v">>, <<BLANK, "v">>, <<"v", BLANK>>, <<"v", KEY_SEP>>, <<"w">>}

\* A header line, without its line end: name, separator and value.
HeaderLine(name, sep, value) == [name |-> name, sep |-> sep, value |-> value]
HeaderLines ==
    {HeaderLine(n, <<KEY_SEP>>, v) : n \in Names, v \in Values}
    \cup (IF "blank_value" \in Malformed
          THEN {HeaderLine(n, <<KEY_SEP>>, v) : n \in Names, v \in BlankValues} ELSE {})
    \cup (IF "no_colon" \in Malformed
          THEN {HeaderLine(n, <<>>, v) : n \in Names, v \in Values} ELSE {})

WellFormed(l) == l.sep # <<>> /\ l.value \notin BlankValues

FirstLine == <<"G", BLANK, "u", "?", "u", BLANK, "P", "P">>
CrLf == <<CR, LF>>

\* The body may look like a header.
Bodies == {<<>>, <<"k", KEY_SEP, "v", CR, LF>>}

Bytes(lines) == FlattenSeq([n \in DOMAIN lines |->
                    lines[n].name \o lines[n].sep \o lines[n].value \o CrLf])

VARIABLES
    lines,      \* the header lines the client sent
    buf,        \* input_header
    i, j,       \* offsets into buf and data
    state,
    data,       \* the token, and what is left of those before it
    key,        \* pyheader_key
    first,      \* REQUEST_METHOD, fapws.uri and SERVER_PROTOCOL
    dict        \* the other entries; their keys without HTTP_

headerVars == <<lines, buf, i, j, state, data, key, first, dict>>

HeaderInit ==
    /\ lines \in SeqOf(HeaderLines, MaxHeaders)
    /\ \E body \in Bodies :
           buf = FirstLine \o CrLf \o Bytes(lines) \o CrLf \o body
    /\ i = 0 /\ j = 0
    /\ state = "method"
    /\ data = [n \in 0 .. Len(buf) - 1 |-> Junk]
    /\ key = <<>>
    /\ first = <<>>
    /\ dict = [k \in {} |-> <<>>]

-----------------------------------------------------------------------------
ch == buf[i + 1]

\* Mutant: the LF in front of a line becomes part of its name.
SkipsBlanksOnly == j = 0 /\ ch = BLANK

\* set_char: white space in front of a token is skipped.
Skips == j = 0 /\ ch \in {CR, LF, BLANK}

SetChar == IF Skips THEN data ELSE [data EXCEPT ![j] = ch]
NextJ == IF Skips THEN j ELSE j + 1

\* data[j-1] = '\0', in the place of the delimiter.  When the token is blank
\* its delimiter was skipped, and the byte in front of data is set instead:
\* data still holds the token before.
Terminated == [n \in DOMAIN data |-> IF n = NextJ - 1 THEN Nul ELSE SetChar[n]]

\* The C string in data.
Token ==
    LET end == CHOOSE n \in DOMAIN data :
                   Terminated[n] = Nul /\ \A m \in 0 .. n - 1 : Terminated[m] # Nul
    IN [n \in 1 .. end |-> Terminated[n - 1]]

\* transform_header_key_to_wsgi_key, but for the prefix HTTP_.
WsgiChar(c) ==
    CASE c = "k" -> "K" [] c = "v" -> "V" [] c = "w" -> "W" [] c = "-" -> "_" [] OTHER -> c
WsgiKey(name) == [n \in DOMAIN name |-> WsgiChar(name[n])]

Delimiter ==
    [method |-> BLANK, uri |-> BLANK, protocol |-> CR, key |-> KEY_SEP, val |-> CR]

Ends == state # "body" /\ ch = Delimiter[state]

\* A byte that ends nothing.  The empty line ends the header, and so does any
\* line without KEY_SEP.
Collect ==
    /\ i < Len(buf) /\ ~Ends
    /\ data' = SetChar
    /\ j' = NextJ
    /\ state' = IF state = "key" /\ ch = CR THEN "body" ELSE state
    /\ UNCHANGED <<key, first, dict>>

EndToken(next) ==
    /\ i < Len(buf) /\ Ends
    /\ data' = Terminated
    /\ j' = 0
    /\ state' = next

EndOfFirst ==
    /\ \/ state = "method" /\ EndToken("uri")
       \/ state = "uri" /\ EndToken("protocol")
       \/ state = "protocol" /\ EndToken("key")
    /\ first' = Append(first, Token)
    /\ UNCHANGED <<key, dict>>

EndOfKey ==
    /\ state = "key" /\ EndToken("val")
    /\ key' = WsgiKey(Token)
    /\ UNCHANGED <<first, dict>>

\* PyDict_SetItem: a key that is there already gets the new value.
EndOfValue ==
    /\ state = "val" /\ EndToken("key")
    /\ dict' = [k \in DOMAIN dict \cup {key} |-> IF k = key THEN Token ELSE dict[k]]
    /\ UNCHANGED <<key, first>>

HeaderNext ==
    /\ Collect \/ EndOfFirst \/ EndOfKey \/ EndOfValue
    /\ i' = i + 1
    /\ UNCHANGED <<lines, buf>>

HeaderSpec == HeaderInit /\ [][HeaderNext]_headerVars

-----------------------------------------------------------------------------
(* Properties *)

\* How many header lines are complete, up to their CR, in the first i bytes.
LineEnd(n) == Len(FirstLine \o CrLf \o Bytes(SubSeq(lines, 1, n))) - 1
Complete == CHOOSE n \in 0 .. Len(lines) :
                /\ n > 0 => LineEnd(n) <= i
                /\ n < Len(lines) => i < LineEnd(n + 1)

Trimmed(value) == IF Head(value) = BLANK THEN Tail(value) ELSE value

\* The reference: the last line with a name says its value.
DictOf(n) ==
    LET last(k) == CHOOSE m \in 1 .. n :
                       /\ WsgiKey(lines[m].name) = k
                       /\ \A o \in m + 1 .. n : WsgiKey(lines[o].name) # k
    IN [k \in {WsgiKey(lines[m].name) : m \in 1 .. n} |-> Trimmed(lines[last(k)].value)]

\* After every byte the dictionary holds the lines that are complete, each
\* with its value and without the blanks before it, the later one where two
\* names become the same key, and nothing of what follows the empty line;
\* unless one of those lines is malformed.  The first line is in its parts.
DictExact ==
    /\ (\A n \in 1 .. Complete : WellFormed(lines[n])) => dict = DictOf(Complete)
    /\ i > Len(FirstLine) => first = <<<<"G">>, <<"u", "?", "u">>, <<"P", "P">>>>

=============================================================================
