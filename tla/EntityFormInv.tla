--------------------------- MODULE EntityFormInv ---------------------------
(***************************************************************************)
(* What the element forms of a page guarantee to their users.              *)
(***************************************************************************)
EXTENDS EntityForm

AnyValue == UNION {Values[x] : x \in Fields}

Row == {r \in [Fields -> AnyValue] : \A x \in Fields : r[x] \in Values[x]}

Part == {r \in [Fields -> AnyValue \cup {None}] : \A x \in Fields : r[x] \in Values[x] \cup {None}}

CallType(m) ==
  /\ DOMAIN m = {"form", "no", "kind", "docid", "values", "retry", "state", "ok", "id", "row"}
  /\ m.form \in Forms /\ m.kind \in {"save", "load", "defaults", "fields"}
  /\ m.docid \in Ids \cup {None} /\ m.values \in Part
  /\ m.state \in {"sent", "served"} /\ m.retry \in 0..MaxRetries
  /\ m.ok \in BOOLEAN /\ m.id \in Ids \cup {None} /\ m.row \in Row

TypeOK ==
  /\ rows \in [Ids -> Row \cup {None}]
  /\ window \in [Forms -> {"none", "open", "closed"}]
  /\ docid \in [Forms -> Ids \cup {None}]
  /\ isNew \in [Forms -> BOOLEAN] /\ shouldBeClosed \in [Forms -> BOOLEAN]
  /\ value \in [Forms -> Row] /\ formValue \in [Forms -> Part]
  /\ pending \in [Forms -> Part]
  /\ masked \in [Forms -> BOOLEAN] /\ finished \in [Forms -> BOOLEAN]
  /\ loaded \in [Forms -> BOOLEAN]
  /\ windowKey \in [Forms -> Ids \cup Forms \cup {None}]
  /\ winkey \in [Forms -> Ids \cup Forms \cup {None}]
  /\ windows \in [Ids \cup Forms -> Forms \cup {None}]
  /\ \A m \in calls : CallType(m)
  /\ ordered \in 0..MaxCalls
  /\ typed \in [Forms -> SUBSET Fields]
  /\ created \in [Forms -> Nat]
  /\ hasty \subseteq Forms /\ lost \subseteq Forms /\ stuck \subseteq Forms

\* A value the field gives back as it was loaded, so that it counts as changed
\* only when it is.
GivenBack(x, v) == Shown[x][v] = v /\ x \notin ByIdentity

\* What a save of a stored element sends of a field: what the user has filled in;
\* or else, of a field that does not give back what it was loaded with, the value
\* loaded as the field shows it - over what others have written meanwhile.  A
\* field that does give it back is not sent, and what others have written to it
\* stays (formValue, isChanged, setData).
OnlyTypedFieldsWritten ==
  [][\A m \in calls' \ calls :
       m.kind = "save" /\ m.docid # None /\ ordered' # ordered =>
         \A x \in Fields :
           LET loadedWith == formValue[m.form][x]
           IN  m.values[x] # None =>
                 \/ x \in typed[m.form] \/ loadedWith = None
                 \/ ~GivenBack(x, loadedWith) /\ m.values[x] = Shown[x][loadedWith]]_vars

\* A user who leaves a form alone while its save is under way loses nothing
\* typed: until it is in the database, or given up by closing or refreshing the
\* form, it stands in the open form - after a refusal, a lost call, a save by
\* another user or the answer to another form.
PatientEditsKept ==
  \A f \in Forms \ hasty, x \in Fields :
    pending[f][x] # None => window[f] = "open" /\ value[f][x] = pending[f][x]

\* ... and a new element is created once: later saves go to the row the first
\* one created.
CreatedOnce ==
  \A f \in Forms \ (hasty \cup lost) :
    /\ created[f] <= 1
    /\ created[f] = 1 /\ ~Saving(f) /\ window[f] = "open" => docid[f] # None

\* ... and every open window is the one its key and its button stand for, so
\* that closing a form closes that form.
WindowsRegistered ==
  \A f \in Forms \ hasty :
    /\ window[f] = "open" => windows[windowKey[f]] = f /\ winkey[f] = windowKey[f]
    /\ \A k \in DOMAIN windows : windows[k] = f => window[f] = "open"

\* The mask of a form is there for an answer still to come - of its load, or of
\* its denormaliser - unless a callback raised: whichever of the two comes first,
\* lost, refused or sent again, no form stays masked for ever.
MaskAwaitsAnswer ==
  \A f \in Forms \ stuck :
    window[f] = "open" /\ masked[f] => \E m \in calls : m.form = f /\ m.kind # "save"

-----------------------------------------------------------------------------
(* The inductive invariant.                                                *)

\* A row that is there.
Stored(i) == i \in Ids /\ rows[i] # None

Creates(m) == m.kind = "save" /\ m.docid = None /\ m.ok

\* A call asks about the row its form stands for, or about none if it was sent
\* before there was one; an answer is there once it is served.
CallOK(m) ==
  /\ window[m.form] # "none"
  /\ m.docid # None => m.docid = docid[m.form]
  /\ m.kind \in {"load", "fields"} => m.docid # None
  /\ m.ok => m.state = "served"
  /\ m.kind = "save" /\ m.ok => Stored(m.id)

\* The denormaliser is called once; a row is created by one call.
CallsApart ==
  \A m, n \in calls :
    \/ m = n
    \/ /\ m.kind = "fields" /\ n.kind = "fields" => m.form # n.form
       /\ Creates(m) /\ Creates(n) => m.id # n.id

\* What the form shows other than loaded, its user has filled in.
TypedOnly(f) ==
  \A x \in Fields :
    \/ x \in typed[f] \/ formValue[f][x] = None
    \/ value[f][x] = Shown[x][formValue[f][x]]

\* The denormaliser has not finished while it is called; nothing else is under
\* way with the defaults of a new element, and nothing has been loaded before.
Waiting(f) ==
  \A m \in CallsOf(f) :
    /\ m.kind = "fields" => ~finished[f]
    /\ m.kind = "defaults" =>
         /\ CallsOf(f) = {m} /\ docid[f] = None /\ formValue[f] = NoValues
         /\ window[f] = "open" => masked[f]

\* A form goes by the row it stands for or by itself; a window has one button.
FormOK(f) ==
  /\ docid[f] # None => Stored(docid[f])
  /\ window[f] = "none" =>
       /\ docid[f] = None /\ windowKey[f] = None /\ formValue[f] = NoValues
       /\ pending[f] = NoValues /\ created[f] = 0 /\ ~loaded[f]
  /\ window[f] # "none" => windowKey[f] = IF docid[f] = None THEN f ELSE docid[f]
  /\ window[f] = "open" => winkey[f] = windowKey[f]
  /\ window[f] # "none" /\ docid[f] = None => isNew[f] /\ ~loaded[f]
  /\ window[f] = "open" /\ docid[f] = None => windows[f] = f
  /\ TypedOnly(f) /\ Waiting(f)

Buttons ==
  \A k \in Ids \cup Forms :
    windows[k] # None => window[windows[k]] = "open" /\ winkey[windows[k]] = k

BaseInv ==
  /\ TypeOK /\ CallsApart /\ Buttons
  /\ \A m \in calls : CallOK(m)
  /\ \A f \in Forms : FormOK(f)

\* What the mask of a form waits for.
MaskOK(f) ==
  window[f] = "open" =>
    /\ ~finished[f] => \E m \in CallsOf(f) : m.kind = "fields"
    /\ masked[f] /\ ~loaded[f] => \E m \in CallsOf(f) : m.kind \in {"load", "defaults"}
    /\ masked[f] => \E m \in CallsOf(f) : m.kind # "save"

MaskInv == \A f \in Forms \ stuck : MaskOK(f)

\* Forms that may yet do something with a window.
Alive == {g \in Forms : window[g] = "open" \/ Saving(g)}

\* The key of a patient user's form is, and will be, no other form's.
KeyOwn(f) ==
  /\ window[f] = "open" =>
       /\ windows[windowKey[f]] = f
       /\ \A m \in calls : Creates(m) /\ m.form # f /\ docid[m.form] = None => m.id # docid[f]
  /\ f \in Alive =>
       /\ window[f] = "open"
       /\ \A g \in Alive \ {f} : windowKey[g] # windowKey[f]
  /\ \A m \in CallsOf(f) : Creates(m) /\ docid[f] = None =>
       \A g \in Forms \ {f} : window[g] # "none" => docid[g] # m.id

\* A save is under way alone, a load with nothing typed.
OneByOne(f) ==
  /\ \A m, n \in CallsOf(f) :
       \/ m = n
       \/ /\ m.kind # "save" /\ n.kind # "save"
          /\ m.kind = "fields" \/ n.kind = "fields"
          /\ window[f] = "open" => ~loaded[f]
  /\ \A m \in CallsOf(f) :
       IF m.kind = "save" THEN m.docid = docid[f] ELSE window[f] = "open" => masked[f]

\* What is typed and not saved is shown, and what is sent of it is all of it.
EditsKept(f) ==
  /\ \A x \in Fields : pending[f][x] # None =>
       /\ window[f] = "open" /\ ~masked[f]
       /\ value[f][x] = pending[f][x] /\ pending[f][x] # formValue[f][x]
       /\ \A m \in CallsOf(f) : m.kind = "save" => ~m.ok /\ m.values[x] = pending[f][x]

Patience(f) == KeyOwn(f) /\ OneByOne(f) /\ EditsKept(f)

PatienceInv == \A f \in Forms \ hasty : Patience(f)

\* The row a form has created is the one it stands for, or will once answered.
CreatedOK(f) ==
  /\ created[f] \in {0, 1}
  /\ created[f] = 1 /\ docid[f] = None => \E m \in CallsOf(f) : Creates(m)

CreatedInv == \A f \in Forms \ (hasty \cup lost) : CreatedOK(f)

EntityInv == BaseInv /\ MaskInv /\ PatienceInv /\ CreatedInv
=============================================================================
