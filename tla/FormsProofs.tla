----------------------------- MODULE FormsProofs -----------------------------
(***************************************************************************)
(* Forms for any fields, widgets, texts and number of forms in use: what a *)
(* page shows comes from the widgets' definitions and the form's last      *)
(* validation, never from what was rendered before or for somebody else.   *)
(***************************************************************************)
EXTENDS Forms, TLAPS

USE FormsAssumption, ValuesAssumption

-----------------------------------------------------------------------------
(* Widgets *)

\* What a widget can have become: its class parameter is renamed, its label
\* marked once, and only a checkbox is ever checked.
Worn(d, s) ==
    /\ s = [class |-> s.class, checked |-> s.checked, required |-> s.required]
    /\ s.class \in IF d.class_ THEN {"class_", "class"} ELSE {"none"}
    /\ d.class # Check => s.checked = FALSE
    /\ s.required = 0 \/ (s.required = 1 /\ d.labelled /\ d.required)

LEMMA NewIsWorn == \A d : Worn(d, New(d))
  BY DEF Worn, New

\* render does to every widget what it does to a new one.
LEMMA RenderedAnew ==
  ASSUME NEW d, NEW s, Worn(d, s), NEW v
  PROVE  /\ Rendered(d, s, v) = Rendered(d, New(d), v)
         /\ Worn(d, Rendered(d, s, v))
<1> DEFINE done == [class |-> IF d.class_ THEN "class" ELSE "none",
                    checked |-> IF d.class = Check THEN Blank # d.default \/ Blank # v
                                ELSE FALSE,
                    required |-> IF d.labelled /\ d.required THEN 1 ELSE 0]
<1>1. ASSUME NEW t, Worn(d, t)  PROVE Rendered(d, t, v) = done
  <2> DEFINE a == IF d.class = Check THEN Checked(d, t, v) ELSE t
  <2>1. a = [class |-> t.class, required |-> t.required,
             checked |-> IF d.class = Check THEN Blank # d.default \/ Blank # v
                         ELSE FALSE]
    BY <1>1 DEF Worn, Checked
  <2> HIDE DEF a
  <2> DEFINE m == ManageClass(a)
  <2>2. m = [class |-> IF d.class_ THEN "class" ELSE "none", required |-> t.required,
             checked |-> IF d.class = Check THEN Blank # d.default \/ Blank # v
                         ELSE FALSE]
    BY <1>1, <2>1 DEF ManageClass, Worn
  <2> HIDE DEF m
  <2>3. GetLabel(d, m) = done
    BY <1>1, <2>2 DEF GetLabel, Worn
  <2> QED
    BY <2>3 DEF m, a, Rendered
<1>2. Worn(d, done)
  BY DEF Worn
<1> HIDE DEF done
<1>3. Rendered(d, s, v) = done
  BY <1>1
<1>4. Rendered(d, New(d), v) = done
  BY <1>1, NewIsWorn
<1> QED
  BY <1>2, <1>3, <1>4

\* The classes whose isvalid is their own are none of the dropdowns.
LEMMA OwnClasses ==
  /\ Integer.base = "input" /\ Date.base = "input"
  /\ DateTime.base = "input" /\ Check.base = "input"
  /\ Integer # Date /\ Integer # DateTime /\ Integer # Check
  /\ Date # DateTime /\ Date # Check /\ DateTime # Check
<1>1. Integer.name = "Integer" /\ Date.name = "Date"
      /\ DateTime.name = "DateTime" /\ Check.name = "Check"
  BY DEF Widget, Text, Integer, Date, DateTime, Check
<1> QED
  BY <1>1 DEF Widget, Text, Integer, Date, DateTime, Check

\* What a text without error messages is.
LEMMA ValidText ==
  ASSUME NEW d, NEW v, IsValid(d, v) = {}
  PROVE  Meets(d, v)
<1> USE DEF Meets
<1>1. CASE d.class = Integer
  <2>1. IntegerErrors(d, v) = {}
    BY <1>1, OwnClasses DEF IsValid
  <2> QED
    BY <1>1, <2>1, OwnClasses DEF IntegerErrors, IsRequired, Message
<1>2. CASE d.class.base = "select"
  <2>1. DropdownErrors(d, v) = {}
    BY <1>2, OwnClasses DEF IsValid
  <2> QED
    BY <1>2, <2>1, OwnClasses DEF DropdownErrors, IsRequired, Message
<1>3. CASE d.class = Date
  <2>1. DateErrors(d, v) = {}
    BY <1>3, OwnClasses DEF IsValid
  <2>2. v # Blank => Length[v] = 10 /\ Signs[v] \cap {4, 7} # {}
    BY <2>1 DEF DateErrors, Message
  <2>3. ~(d.required /\ v = Blank)
    BY <2>1 DEF DateErrors, IsRequired, Message
  <2> QED
    BY <1>3, <2>2, <2>3, OwnClasses
<1>6. CASE d.class = DateTime
  <2>1. DateTimeErrors(d, v) = {}
    BY <1>6, OwnClasses DEF IsValid
  <2>2. v # Blank => Length[v] = 19 /\ Signs[v] # {}
    BY <2>1 DEF DateTimeErrors, Message
  <2>3. ~(d.required /\ v = Blank)
    BY <2>1 DEF DateTimeErrors, IsRequired, Message
  <2> QED
    BY <1>6, <2>2, <2>3, OwnClasses
<1>4. CASE d.class \notin {Integer, Date, DateTime, Check} /\ d.class.base # "select"
  <2>1. IsRequired(d, v) = {}
    BY <1>4 DEF IsValid
  <2> QED
    BY <1>4, <2>1 DEF IsRequired, Message
<1>5. CASE d.class = Check
  BY <1>5, OwnClasses
<1> QED
  BY <1>1, <1>2, <1>3, <1>4, <1>5, <1>6

-----------------------------------------------------------------------------
(* Forms *)

TypeInv ==
    /\ DOMAIN widget = Field
    /\ DOMAIN errors = Form /\ DOMAIN values = Form /\ DOMAIN asked = Form
    /\ \A f \in Form : asked[f] # Unasked => asked[f].fields \subseteq Field

WidgetInv == \A n \in Field : Worn(def[n], widget[n])

\* What the last validate left of the fields it came to.
Validated(f, n) ==
    LET v == Input(asked[f].input, n)
    IN  /\ errors[f][n] = IsValid(def[n], v)
        /\ errors[f][n] = {} => values[f][n] = {v}

\* validate keeps no text but those isvalid accepted.
ValuesInv == \A f \in Form, n \in Field : \A v \in values[f][n] : IsValid(def[n], v) = {}

AskedInv == \A f \in Form : asked[f] # Unasked => \A n \in asked[f].fields : Validated(f, n)

\* The page is of what the form holds now: whatever changes it drops the page.
Shows(n) ==
    LET v == Current(page.form, n)
    IN  /\ page.errors[n] = errors[page.form][n]
        /\ page.html[n] = Html(def[n], Rendered(def[n], New(def[n]), v), v)

PageInv ==
    page # NoPage =>
        page.form \in Form /\ DOMAIN page.html \subseteq Field
            /\ \A n \in DOMAIN page.html : Shows(n)

IInv == TypeInv /\ WidgetInv /\ ValuesInv /\ AskedInv /\ PageInv

\* What a form holds is not changed by what is done to another.
LEMMA OtherForms ==
  ASSUME NEW g, NEW n, Validated(g, n), def' = def, asked'[g] = asked[g],
         errors'[g] = errors[g], values'[g] = values[g]
  PROVE  Validated(g, n)'
  BY DEF Validated

LEMMA BeforeIsOfFields ==
  ASSUME NEW list \in Fields, NEW raising
  PROVE  Before(list, raising) \subseteq Field
<1>1. list \in Seq(Field)
  OBVIOUS
<1> QED
  BY <1>1 DEF Before

LEMMA InitIInv == Init => IInv
<1> SUFFICES ASSUME Init  PROVE IInv
  OBVIOUS
<1>1. TypeInv
  BY DEF Init, TypeInv
<1>2. WidgetInv
  BY NewIsWorn DEF Init, WidgetInv
<1>3. AskedInv /\ PageInv
  BY DEF Init, AskedInv, PageInv
<1>4. ValuesInv
  BY DEF Init, ValuesInv, NoValues
<1> QED
  BY <1>1, <1>2, <1>3, <1>4 DEF IInv

LEMMA OpensIInv ==
  ASSUME IInv, NEW f \in Form, Opens(f)
  PROVE  IInv'
<1>1. TypeInv'
  BY DEF IInv, TypeInv, Opens
<1>2. WidgetInv'
  BY DEF IInv, WidgetInv, Opens
<1>3. AskedInv'
  <2> SUFFICES ASSUME NEW g \in Form, asked'[g] # Unasked, NEW n \in asked'[g].fields
               PROVE  Validated(g, n)'
    BY DEF AskedInv
  <2>1. g # f
    BY DEF IInv, TypeInv, Opens
  <2>2. asked'[g] = asked[g] /\ errors'[g] = errors[g] /\ values'[g] = values[g] /\ def' = def
    BY <2>1 DEF Opens
  <2>3. Validated(g, n)
    BY <2>2 DEF IInv, AskedInv
  <2> QED
    BY <2>2, <2>3, OtherForms
<1>4. PageInv'
  BY DEF PageInv, Opens
<1>5. ValuesInv'
  BY DEF IInv, ValuesInv, TypeInv, Opens, NoValues
<1> QED
  BY <1>1, <1>2, <1>3, <1>4, <1>5 DEF IInv

LEMMA ValidateIInv ==
  ASSUME IInv, NEW f \in Form, NEW list \in Fields, NEW input, Validate(f, input, list)
  PROVE  IInv'
<1> DEFINE done == Before(list, ValidateRaises)
           Found(n) == IF n \in done THEN IsValid(def[n], Input(input, n)) ELSE {}
           found == [n \in Field |-> Found(n)]
           valid == [n \in Field |->
               IF n \in done /\ Found(n) = {} THEN {Input(input, n)} ELSE values[f][n]]
<1>1. /\ errors' = [errors EXCEPT ![f] = found]
      /\ values' = [values EXCEPT ![f] = valid]
      /\ asked' = [asked EXCEPT ![f] =
             [fields |-> done, input |-> input, raised |-> done # ToSet(list)]]
      /\ page' = NoPage /\ def' = def /\ widget' = widget
  BY DEF Validate
<1>2. done \subseteq Field
  BY BeforeIsOfFields
<1>3. \A n \in done : found[n] = IsValid(def[n], Input(input, n))
                      /\ (found[n] = {} => valid[n] = {Input(input, n)})
  BY <1>2
<1>8. \A n \in Field : \A v \in valid[n] :
          v \in values[f][n] \/ IsValid(def[n], v) = {}
  BY <1>2
<1> HIDE DEF done, found, valid
<1>4. TypeInv'
  BY <1>1, <1>2 DEF IInv, TypeInv
<1>5. WidgetInv'
  BY <1>1 DEF IInv, WidgetInv
<1>6. AskedInv'
  <2> SUFFICES ASSUME NEW g \in Form, asked'[g] # Unasked, NEW n \in asked'[g].fields
               PROVE  Validated(g, n)'
    BY DEF AskedInv
  <2>1. CASE g = f
    <3>1. /\ asked'[g].fields = done /\ asked'[g].input = input
          /\ errors'[g] = found /\ values'[g] = valid
      BY <1>1, <2>1 DEF IInv, TypeInv
    <3> QED
      BY <1>1, <1>3, <3>1 DEF Validated
  <2>2. CASE g # f
    <3>1. /\ asked'[g] = asked[g] /\ errors'[g] = errors[g]
          /\ values'[g] = values[g] /\ def' = def
      BY <1>1, <2>2
    <3>2. Validated(g, n)
      BY <3>1 DEF IInv, AskedInv
    <3> QED
      BY <3>1, <3>2, OtherForms
  <2> QED
    BY <2>1, <2>2
<1>7. PageInv'
  BY <1>1 DEF PageInv
<1>9. ValuesInv'
  <2> SUFFICES ASSUME NEW g \in Form, NEW n \in Field, NEW v \in values'[g][n]
               PROVE  IsValid(def[n], v) = {}
    BY <1>1 DEF ValuesInv
  <2>1. CASE g = f
    BY <1>1, <1>8, <2>1 DEF IInv, TypeInv, ValuesInv
  <2>2. CASE g # f
    <3>1. values'[g] = values[g]
      BY <1>1, <2>2 DEF IInv, TypeInv
    <3> QED
      BY <3>1 DEF IInv, ValuesInv
  <2> QED
    BY <2>1, <2>2
<1> QED
  BY <1>4, <1>5, <1>6, <1>7, <1>9 DEF IInv

LEMMA RenderIInv ==
  ASSUME IInv, NEW f \in Form, NEW list \in Fields, Render(f, list)
  PROVE  IInv'
<1> DEFINE done == Before(list, RenderRaises)
           at == Cardinality(done) + 1
           touched == done \cup (IF at <= Len(list) THEN {list[at]} \cap Datas ELSE {})
           after == [n \in Field |->
               IF n \in touched THEN Rendered(def[n], widget[n], Current(f, n))
               ELSE widget[n]]
           made == [n \in done |-> Html(def[n], after[n], Current(f, n))]
           said == [n \in done |-> errors[f][n]]
<1>1. /\ widget' = after
      /\ page' = [form |-> f, raised |-> done # ToSet(list), html |-> made, errors |-> said]
      /\ UNCHANGED <<def, errors, values, asked>>
  BY DEF Render
<1>2. done \subseteq Field /\ done \subseteq touched
  BY BeforeIsOfFields
<1>3. \A n \in touched \cap Field :
          after[n] = Rendered(def[n], New(def[n]), Current(f, n))
  BY RenderedAnew DEF IInv, WidgetInv
<1>4. DOMAIN after = Field
  OBVIOUS
<1>5. \A n \in Field : Worn(def[n], after[n])
  BY RenderedAnew DEF IInv, WidgetInv
<1>6. DOMAIN made = done
      /\ \A n \in done : made[n] = Html(def[n], after[n], Current(f, n))
                         /\ said[n] = errors[f][n]
  OBVIOUS
<1> HIDE DEF done, touched, after, made, said
<1>7. TypeInv'
  BY <1>1, <1>4 DEF IInv, TypeInv
<1>8. WidgetInv'
  BY <1>1, <1>5 DEF WidgetInv
<1>9. AskedInv'
  BY <1>1 DEF IInv, AskedInv, Validated
<1>10. PageInv'
  <2>1. page'.form = f /\ page'.html = made /\ page'.errors = said
    BY <1>1
  <2>2. ASSUME NEW n \in done  PROVE Shows(n)'
    <3> DEFINE v == Current(f, n)
    <3>1. Current(page.form, n)' = v
      BY <1>1, <2>1 DEF Current
    <3>2. page'.html[n] = Html(def[n], Rendered(def[n], New(def[n]), v), v)
          /\ page'.errors[n] = errors[f][n]
      BY <1>2, <1>3, <1>6, <2>1
    <3> HIDE DEF v
    <3> QED
      BY <1>1, <2>1, <3>1, <3>2 DEF Shows
  <2> QED
    BY <1>2, <1>6, <2>1, <2>2 DEF PageInv
<1>11. ValuesInv'
  BY <1>1 DEF IInv, ValuesInv
<1> QED
  BY <1>7, <1>8, <1>9, <1>10, <1>11 DEF IInv

LEMMA NextIInv == IInv /\ [Next]_vars => IInv'
<1> SUFFICES ASSUME IInv, [Next]_vars  PROVE IInv'
  OBVIOUS
<1>1. ASSUME NEW f \in Form, Opens(f)  PROVE IInv'
  BY <1>1, OpensIInv
<1>2. ASSUME NEW f \in Form, NEW list \in Fields, Render(f, list)  PROVE IInv'
  BY <1>2, RenderIInv
<1>3. ASSUME NEW f \in Form, NEW list \in Fields, NEW input \in Inputs, Validate(f, input, list)
      PROVE  IInv'
  BY <1>3, ValidateIInv
<1>4. CASE UNCHANGED vars
  <2>1. TypeInv' /\ WidgetInv' /\ ValuesInv'
    BY <1>4 DEF vars, IInv, TypeInv, WidgetInv, ValuesInv
  <2>2. AskedInv'
    BY <1>4, OtherForms DEF vars, IInv, AskedInv
  <2>3. PageInv'
    BY <1>4 DEF vars, IInv, PageInv, Shows, Current
  <2> QED
    BY <2>1, <2>2, <2>3 DEF IInv
<1> QED
  BY <1>1, <1>2, <1>3, <1>4 DEF Next

LEMMA Invariance == Spec => []IInv
  BY InitIInv, NextIInv, PTL DEF Spec

-----------------------------------------------------------------------------

\* What is shown is what a form of its own would show, with widgets nobody
\* rendered before.
THEOREM FreshPages == Spec => []PageIsFresh
<1>1. IInv => PageIsFresh
  BY DEF IInv, PageInv, Shows, PageIsFresh
<1> QED
  BY <1>1, Invariance, PTL

\* Messages are shown at the rejected fields and at no other, and what was
\* accepted is shown again; what was rejected never is.
THEOREM InputShown == Spec => []PageShowsInput
<1>1. IInv => PageShowsInput
  <2> SUFFICES ASSUME IInv, page # NoPage, asked[page.form] # Unasked,
                      NEW n \in DOMAIN page.html \cap asked[page.form].fields
               PROVE  LET v == Input(asked[page.form].input, n)
                      IN  IF IsValid(def[n], v) = {}
                          THEN /\ page.errors[n] = {}
                               /\ page.html[n].value \subseteq {ShownValue(def[n], v)}
                               /\ def[n].class = Check /\ v # Blank => page.html[n].checked
                          ELSE /\ page.errors[n] # {}
                               /\ \A w \in page.html[n].value \ {def[n].default} :
                                      IsValid(def[n], w) = {}
    BY DEF PageShowsInput
  <2> DEFINE v == Input(asked[page.form].input, n)
  <2>1. Shows(n) /\ Validated(page.form, n)
    BY DEF IInv, PageInv, AskedInv
  <2>2. page.errors[n] = IsValid(def[n], v)
    BY <2>1 DEF Shows, Validated
  <2>3. ASSUME IsValid(def[n], v) = {}
        PROVE  /\ page.html[n].value \subseteq {ShownValue(def[n], v)}
               /\ def[n].class = Check /\ v # Blank => page.html[n].checked
    <3>1. Current(page.form, n) = v
      BY <2>1, <2>3 DEF Validated, Current
    <3>2. page.html[n] = Html(def[n], Rendered(def[n], New(def[n]), v), v)
      BY <2>1, <3>1 DEF Shows
    <3> HIDE DEF v
    <3>3. page.html[n].value \subseteq {ShownValue(def[n], v)}
      BY <3>2, OwnClasses DEF Html, Selected
    <3>4. ASSUME def[n].class = Check, v # Blank  PROVE page.html[n].checked
      <4>1. Rendered(def[n], New(def[n]), v).checked
        BY <3>4 DEF Rendered, New, Checked, ManageClass, GetLabel
      <4> QED
        BY <3>2, <4>1 DEF Html
    <3> QED
      BY <3>3, <3>4
  <2>4. ASSUME NEW w \in page.html[n].value \ {def[n].default}
        PROVE  IsValid(def[n], w) = {}
    <3> DEFINE u == Current(page.form, n)
    <3>1. n \in Field /\ page.form \in Form
      BY DEF IInv, PageInv
    <3>2. page.html[n] = Html(def[n], Rendered(def[n], New(def[n]), u), u)
      BY <2>1 DEF Shows
    <3>3. u # Blank => u \in values[page.form][n]
      BY DEF Current
    <3> HIDE DEF u
    <3>4. page.html[n].value \subseteq {ShownValue(def[n], u)}
      BY <3>2 DEF Html, Selected
    <3>5. w = u /\ u # Blank
      BY <3>4 DEF ShownValue
    <3> QED
      BY <3>1, <3>3, <3>5 DEF IInv, ValuesInv
  <2> QED
    BY <2>2, <2>3, <2>4
<1> QED
  BY <1>1, Invariance, PTL

\* After a validate to its end without errors, its fields hold what was sent,
\* and that meets the demands, dates included, as the code makes them.
THEOREM ValidForms == Spec => []NoErrorMeansValid
<1>1. IInv => NoErrorMeansValid
  <2> SUFFICES ASSUME IInv, NEW f \in Form, asked[f] # Unasked, errors[f] = NoErrors,
                      NEW n \in asked[f].fields
               PROVE  LET v == Input(asked[f].input, n)
                      IN  values[f][n] = {v} /\ Meets(def[n], v)
    BY DEF NoErrorMeansValid
  <2>1. n \in Field /\ Validated(f, n)
    BY DEF IInv, TypeInv, AskedInv
  <2>2. errors[f][n] = {}
    BY <2>1 DEF NoErrors
  <2>3. IsValid(def[n], Input(asked[f].input, n)) = {}
        /\ values[f][n] = {Input(asked[f].input, n)}
    BY <2>1, <2>2 DEF Validated
  <2> QED
    BY <2>3, ValidText
<1> QED
  BY <1>1, Invariance, PTL

=============================================================================
