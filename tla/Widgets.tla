------------------------------- MODULE Widgets -------------------------------
(***************************************************************************)
(* contrib/siforms/widgets.py: the fields of forms.  A widget is made once, *)
(* as an attribute of a form's class, and shared by all requests; render   *)
(* changes it.  Here: what its class is, what of it changes (params and    *)
(* label_attr), what render shows and what isvalid says, as functions.     *)
(***************************************************************************)
EXTENDS Integers, FiniteSets

CONSTANTS
    Value,      \* texts a field may hold
    Blank,      \* the empty one
    MinusOne,   \* "-1", of a dropdown the line that is no choice
    Length,     \* Length[v]
    Signs,      \* Signs[v]: the places, of those dates have signs in, that hold theirs
    Number      \* the texts int() accepts

ASSUME ValuesAssumption ==
    /\ {Blank, MinusOne} \subseteq Value
    /\ Length \in [Value -> Nat] /\ Length[Blank] = 0
    /\ Signs \in [Value -> SUBSET {4, 7, 13, 16}]
    /\ Number \subseteq Value \ {Blank}

-----------------------------------------------------------------------------
(* The classes; link is what Foreignkey and jFile add after the field *)

Widget == [name |-> "Widget", base |-> "", type |-> "", label |-> "table", link |-> FALSE]
Text == [Widget EXCEPT !.name = "Text", !.base = "input", !.type = "text"]
ReadonlyText == [Text EXCEPT !.name = "ReadonlyText"]
Hidden == [Widget EXCEPT !.name = "Hidden", !.base = "input", !.type = "hidden"]
Integer == [Text EXCEPT !.name = "Integer"]
Area == [Widget EXCEPT !.name = "Area", !.base = "textarea", !.label = "bellow"]
Check == [Widget EXCEPT !.name = "Check", !.base = "input", !.type = "checkbox"]
Password == [Text EXCEPT !.name = "Password", !.type = "password"]
Dropdown == [Widget EXCEPT !.name = "Dropdown", !.base = "select"]
Foreignkey == [Dropdown EXCEPT !.link = TRUE]
Date == [Text EXCEPT !.name = "Date"]
DateTime == [Text EXCEPT !.name = "DateTime"]
File == [Widget EXCEPT !.name = "File", !.base = "input", !.type = "file"]
jFile == [File EXCEPT !.name = "jFile", !.type = "text", !.link = TRUE]

Classes ==
    {Text, ReadonlyText, Hidden, Integer, Area, Check, Password, Dropdown,
     Foreignkey, Date, DateTime, File, jFile}

\* A widget as the form's class makes it.  options is None until somebody
\* sets the attribute: reading it raises.
None == {}
Definitions ==
    [class : Classes, labelled : BOOLEAN, required : BOOLEAN,
     default : Value, class_ : BOOLEAN, options : SUBSET Value]

\* The part that render changes: the name of the class parameter, the
\* parameter checked, and how often "required" is in the label's class.
New(d) ==
    [class |-> IF d.class_ THEN "class_" ELSE "none", checked |-> FALSE, required |-> 0]

-----------------------------------------------------------------------------
(* render *)

\* _manage_class
ManageClass(s) == IF s.class = "class_" THEN [s EXCEPT !.class = "class"] ELSE s

\* getlabel
GetLabel(d, s) ==
    IF d.labelled /\ d.required /\ s.required = 0
    THEN [s EXCEPT !.required = 1] ELSE s

\* Mutant: what is checked stays so.
CheckedStays(d, s, v) == [s EXCEPT !.checked = @ \/ Blank # d.default \/ Blank # v]

\* Check.render
Checked(d, s, v) == [s EXCEPT !.checked = (Blank # d.default \/ Blank # v)]

\* The widget after render; a dropdown without options has come to its label
\* when it raises.
Rendered(d, s, v) ==
    GetLabel(d, ManageClass(IF d.class = Check THEN Checked(d, s, v) ELSE s))

\* The value shown: that of a checkbox is always 1, of a dropdown an option.
ShownValue(d, v) == IF v = Blank THEN d.default ELSE v

\* The lines of a dropdown that are selected.
Selected(d, v) == {o \in d.options : o = ShownValue(d, v)}

\* What render returns, s being the widget after it.
Html(d, s, v) ==
    [base |-> d.class.base, type |-> d.class.type, link |-> d.class.link,
     class |-> s.class, checked |-> s.checked,
     label |-> IF d.labelled THEN <<d.class.label, s.required>> ELSE <<>>,
     value |-> CASE d.class = Check             -> {}
                 [] d.class.base = "select"     -> Selected(d, v)
                 [] OTHER                       -> {ShownValue(d, v)}]

-----------------------------------------------------------------------------
(* isvalid: sets of error messages *)

Message(condition, text) == IF condition THEN {text} ELSE {}

\* isrequired
IsRequired(d, v) == Message(d.required /\ v = Blank, "empty")

\* Mutant: an empty number is never wrong.
IntegerErrorsBlank(d, v) == IF v = Blank THEN {} ELSE Message(v \notin Number, "integer")

IntegerErrors(d, v) ==
    IF ~d.required /\ v = Blank THEN {}
    ELSE IsRequired(d, v) \cup Message(v \notin Number, "integer")

DropdownErrors(d, v) ==
    IsRequired(d, v) \cup
    IF d.required
    THEN Message(v \notin d.options, "list") \cup Message(v = MinusOne, "choice")
    ELSE {}

\* One sign in its place is enough.
DateErrors(d, v) ==
    IsRequired(d, v) \cup
    Message(v # Blank /\ (Length[v] # 10 \/ Signs[v] \cap {4, 7} = {}), "date")

DateTimeErrors(d, v) ==
    IsRequired(d, v) \cup
    Message(v # Blank /\ (Length[v] # 19 \/ Signs[v] = {}), "datetime")

\* isvalid of the widget's class; a checkbox accepts everything.
IsValid(d, v) ==
    CASE d.class = Integer          -> IntegerErrors(d, v)
      [] d.class.base = "select"    -> DropdownErrors(d, v)
      [] d.class = Date             -> DateErrors(d, v)
      [] d.class = DateTime         -> DateTimeErrors(d, v)
      [] d.class = Check            -> {}
      [] OTHER                      -> IsRequired(d, v)

=============================================================================
