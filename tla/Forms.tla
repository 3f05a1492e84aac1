-------------------------------- MODULE Forms --------------------------------
(***************************************************************************)
(* contrib/siforms/forms.py: each request makes its Form, but the widgets  *)
(* are attributes of the form's class, the same for all.  Requests may be  *)
(* answered piece by piece, so several forms are in use at a time, and one *)
(* may be validated and rendered more than once.                           *)
(***************************************************************************)
EXTENDS Widgets, Sequences, SequencesExt

CONSTANTS
    Field,      \* attributes of the form's class that are widgets
    Private,    \* those whose name starts with "_"
    Form,       \* Form objects in use at a time
    Fields,     \* the lists of fields the application asks for
    Made,       \* what the widgets may be: functions from Field to Definitions
    Inputs      \* what a client may send: functions from some fields to Value

ASSUME FormsAssumption ==
    /\ Private \subseteq Field
    /\ Fields \subseteq Seq(Field)
    /\ Made \subseteq [Field -> Definitions]
    /\ Inputs \subseteq UNION {[sent -> Value] : sent \in SUBSET Field}

VARIABLES
    def,        \* def[n]: widget n as its class makes it
    widget,     \* widget[n]: what render has made of it
    errors,     \* errors[f][n]: the messages for n; {} if n is no key
    values,     \* values[f][n]: its value as a set; {} if n is no key
    page,       \* what render_form returned last, by field, or that it raised
    asked       \* history: what the last validate of form f was given

vars == <<def, widget, errors, values, page, asked>>

NoErrors == [n \in Field |-> {}]
NoValues == [n \in Field |-> {}]
Unasked == <<>>
NoPage == <<>>

Init ==
    /\ def \in Made
    /\ widget = [n \in Field |-> New(def[n])]
    /\ errors = [f \in Form |-> NoErrors]
    /\ values = [f \in Form |-> NoValues]
    /\ page = NoPage
    /\ asked = [f \in Form |-> Unasked]

-----------------------------------------------------------------------------

\* FormFactory: the fields a form knows.
Datas == Field \ Private

\* A field nobody knows, or options nobody set: KeyError, AttributeError.
RenderRaises ==
    {n \in Field : n \notin Datas \/ (def[n].class.base = "select" /\ def[n].options = None)}
ValidateRaises == {n \in RenderRaises : n \notin Datas \/ def[n].required}

\* The fields of a list before the first that raises: the loop goes so far.
Before(list, raising) ==
    {list[i] : i \in {j \in DOMAIN list : \A k \in 1 .. j : list[k] \notin raising}}

\* A request makes a form.
Opens(f) ==
    /\ errors' = [errors EXCEPT ![f] = NoErrors]
    /\ values' = [values EXCEPT ![f] = NoValues]
    /\ asked' = [asked EXCEPT ![f] = Unasked]
    /\ page' = NoPage
    /\ UNCHANGED <<def, widget>>

\* What validate looks at: a field that was not sent is blank.
Input(input, n) == IF n \in DOMAIN input THEN input[n] ELSE Blank

\* Mutant: errors of the last time stay.
ValidateKeepsErrors(f, input, list) ==
    LET done == Before(list, ValidateRaises)
        Found(n) == IF n \in done THEN IsValid(def[n], Input(input, n)) ELSE {}
    IN  /\ errors' = [errors EXCEPT ![f] = [n \in Field |-> @[n] \cup Found(n)]]
        /\ values' = [values EXCEPT ![f] = [n \in Field |->
                IF n \in done /\ Found(n) = {} THEN {Input(input, n)} ELSE @[n]]]
        /\ asked' = [asked EXCEPT ![f] =
                [fields |-> done, input |-> input, raised |-> done # ToSet(list)]]
        /\ page' = NoPage
        /\ UNCHANGED <<def, widget>>

\* validate.  A value of an earlier time stays when the new one is rejected.
Validate(f, input, list) ==
    LET done == Before(list, ValidateRaises)
        Found(n) == IF n \in done THEN IsValid(def[n], Input(input, n)) ELSE {}
    IN  /\ errors' = [errors EXCEPT ![f] = [n \in Field |-> Found(n)]]
        /\ values' = [values EXCEPT ![f] = [n \in Field |->
                IF n \in done /\ Found(n) = {} THEN {Input(input, n)} ELSE @[n]]]
        /\ asked' = [asked EXCEPT ![f] =
                [fields |-> done, input |-> input, raised |-> done # ToSet(list)]]
        /\ page' = NoPage
        /\ UNCHANGED <<def, widget>>

\* values.get(name, ""), which render is given.
Current(f, n) == IF values[f][n] = {} THEN Blank ELSE CHOOSE v \in values[f][n] : TRUE

\* render_form and render_error.  A dropdown that raises is changed, too.
Render(f, list) ==
    LET done == Before(list, RenderRaises)
        at == Cardinality(done) + 1
        touched == done \cup (IF at <= Len(list) THEN {list[at]} \cap Datas ELSE {})
        after == [n \in Field |->
            IF n \in touched THEN Rendered(def[n], widget[n], Current(f, n))
            ELSE widget[n]]
    IN  /\ widget' = after
        /\ page' = [form |-> f,
                    raised |-> done # ToSet(list),
                    html |-> [n \in done |-> Html(def[n], after[n], Current(f, n))],
                    errors |-> [n \in done |-> errors[f][n]]]
        /\ UNCHANGED <<def, errors, values, asked>>

Next ==
    \E f \in Form :
        \/ Opens(f)
        \/ \E list \in Fields :
            \/ Render(f, list)
            \/ \E input \in Inputs : Validate(f, input, list)

Spec == Init /\ [][Next]_vars

-----------------------------------------------------------------------------
(* Properties *)

\* A page is what a form of its own with new widgets would show: nothing of
\* it comes from a page rendered before, for this request or another.
PageIsFresh ==
    page # NoPage => \A n \in DOMAIN page.html :
        LET v == Current(page.form, n)
        IN  page.html[n] = Html(def[n], Rendered(def[n], New(def[n]), v), v)

\* The page of a form that was validated has messages at the fields that were
\* rejected and at no other, and shows the user what was accepted of his.  At
\* a rejected field it shows the default, or a text the same form accepted
\* in an earlier try (validate does not drop it), but never a rejected one.
PageShowsInput ==
    page # NoPage /\ asked[page.form] # Unasked =>
        LET last == asked[page.form]
        IN  \A n \in DOMAIN page.html \cap last.fields :
            LET v == Input(last.input, n)
            IN  IF IsValid(def[n], v) = {}
                THEN /\ page.errors[n] = {}
                     /\ page.html[n].value \subseteq {ShownValue(def[n], v)}
                     /\ def[n].class = Check /\ v # Blank => page.html[n].checked
                ELSE /\ page.errors[n] # {}
                     /\ \A w \in page.html[n].value \ {def[n].default} :
                            IsValid(def[n], w) = {}

\* After a validate that came to its end without an error, every field of its
\* list holds what was sent then, nothing of an earlier try, and meets what
\* its widget demands: required fields are there (a checkbox may be off),
\* numbers are numbers, a required choice is one of the options, a date has
\* its length and a sign in place.  (The code demands no more of a date: the
\* format its message names need not be there.)  Of other fields, and after
\* an exception, nothing is said: they keep what an earlier try left.
Meets(d, v) ==
    /\ d.required /\ v = Blank => d.class = Check
    /\ d.class = Integer => v \in Number \cup {Blank}
    /\ d.class.base = "select" /\ d.required => v \in d.options \ {MinusOne}
    /\ d.class = Date /\ v # Blank => Length[v] = 10 /\ Signs[v] \cap {4, 7} # {}
    /\ d.class = DateTime /\ v # Blank => Length[v] = 19 /\ Signs[v] # {}

NoErrorMeansValid ==
    \A f \in Form :
        asked[f] # Unasked /\ ~asked[f].raised /\ errors[f] = NoErrors =>
            \A n \in asked[f].fields :
                LET v == Input(asked[f].input, n)
                IN  values[f][n] = {v} /\ Meets(def[n], v)

=============================================================================
