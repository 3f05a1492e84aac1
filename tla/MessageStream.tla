----------------------------- MODULE MessageStream -----------------------------
(***************************************************************************)
(* The list of messages of a push channel: MessageStream in                *)
(* sample/push/push.py, a Python list indexed by message ids, with None in *)
(* the places ("holes") no message was published for.                      *)
(***************************************************************************)
EXTENDS Integers, Sequences, SequencesExt, FiniteSetsExt

CONSTANTS
    Content,    \* what a message says
    NoMessage   \* None

Message == [mid : Int, content : Content]
Streams == Seq(Message \cup {NoMessage})

\* Python's list: negative indices count from the end, a slice is cut off at
\* both ends of the list.
Index(s, i) == IF i < 0 THEN Len(s) + i + 1 ELSE i + 1
Slice(s, from, to) ==
    LET Cut(i) == IF i < 0 THEN Max({0, Len(s) + i}) ELSE Min({Len(s), i})
    IN  SubSeq(s, Cut(from) + 1, Cut(to))

Holes(n) == [i \in 1 .. n |-> NoMessage]

\* Mutant: what follows an overwritten message is lost.
InsertCutsOff(s, m) ==
    IF m.mid < Len(s) THEN Append(SubSeq(s, 1, Index(s, m.mid) - 1), m)
    ELSE Append(s \o Holes(m.mid - Len(s)), m)

\* insert: fills up with holes to the message's place, or overwrites it.
Insert(s, m) ==
    IF m.mid < Len(s) THEN [s EXCEPT ![Index(s, m.mid)] = m]
    ELSE Append(s \o Holes(m.mid - Len(s)), m)

\* There is no such element to overwrite, or to read.
IndexError(s, i) == Index(s, i) < 1

Has(s, mid) == mid < Len(s)

\* takewhile: the elements before the first hole.
BeforeHole(s) ==
    IF Contains(s, NoMessage)
    THEN SubSeq(s, 1, Min({i \in DOMAIN s : s[i] = NoMessage}) - 1)
    ELSE s

\* Mutant: the messages in the order they are taken.
LastOnesReversed(s, count) ==
    BeforeHole(Reverse(Slice(s, Len(s) - count, Len(s))))

\* range, front and back
FromMid(s, start, count) == BeforeHole(Slice(s, start, start + count))
FirstOnes(s, count) == BeforeHole(Slice(s, 0, count))
LastOnes(s, count) ==
    Reverse(BeforeHole(Reverse(Slice(s, Len(s) - count, Len(s)))))

-----------------------------------------------------------------------------

\* A stretch of messages of s without a hole, from place a to place b.
Stretch(s, a, b) ==
    /\ a >= 1 /\ b <= Len(s)
    /\ \A i \in a .. b : s[i] # NoMessage

\* What the doc strings promise of front and back, and the comment "Retrieve
\* all messages starting from mid, up to count" of range: the longest stretch
\* of at most count messages from one end, or from a message.  Where back
\* promises more than it does, LastExact says what it does: asked for more
\* messages than there are it starts at a negative index, which Python counts
\* from the end, and takes that many fewer.
FirstExact(s, count) ==
    \E n \in 0 .. Min({count, Len(s)}) :
        /\ FirstOnes(s, count) = SubSeq(s, 1, n)
        /\ Stretch(s, 1, n)
        /\ n < count => ~Stretch(s, 1, n + 1)

FromExact(s, start, count) ==
    \E n \in 0 .. Min({count, Len(s) - start}) :
        /\ FromMid(s, start, count) = SubSeq(s, start + 1, start + n)
        /\ Stretch(s, start + 1, start + n)
        /\ n < count => ~Stretch(s, start + 1, start + n + 1)

Reach(s, count) == IF count <= Len(s) THEN count ELSE count - Len(s)

LastExact(s, count) ==
    \E n \in 0 .. Min({Reach(s, count), Len(s)}) :
        /\ LastOnes(s, count) = SubSeq(s, Len(s) - n + 1, Len(s))
        /\ Stretch(s, Len(s) - n + 1, Len(s))
        /\ n < Reach(s, count) => ~Stretch(s, Len(s) - n, Len(s))

=============================================================================
