-------------------------- MODULE EntityFormProofs --------------------------
(***************************************************************************)
(* Proofs about EntityForm, for any forms, rows and fields.                *)
(***************************************************************************)
EXTENDS EntityFormInv, TLAPS

-----------------------------------------------------------------------------
(* Values and calls *)

LEMMA NoneIs ==
  /\ None \notin Row /\ NoRow \in Row /\ NoValues \in Part /\ Row \subseteq Part
  /\ None \notin Ids /\ None \notin Forms
  /\ \A x \in Fields : None \notin Values[x]
BY FormAssumption DEF Row, Part, AnyValue, NoRow, NoValues

LEMMA RowSet ==
  ASSUME NEW r \in Row, NEW x \in Fields, NEW v \in Values[x]
  PROVE  [r EXCEPT ![x] = v] \in Row
<1>1. v \in AnyValue
  BY DEF AnyValue
<1> QED
  BY <1>1 DEF Row

LEMMA SetDataIs ==
  ASSUME NEW r \in Row
  PROVE  SetData(r) \in Row
<1>1. \A x \in Fields : Shown[x][r[x]] \in Values[x]
  BY FormAssumption DEF Row
<1>2. \A x \in Fields : Shown[x][r[x]] \in AnyValue
  BY <1>1 DEF AnyValue
<1> QED
  BY <1>1, <1>2 DEF SetData, Row

LEMMA PartSet ==
  ASSUME NEW r \in Part, NEW x \in Fields, NEW v \in Values[x] \cup {None}
  PROVE  [r EXCEPT ![x] = v] \in Part
<1>1. v \in AnyValue \cup {None}
  BY DEF AnyValue
<1> QED
  BY <1>1 DEF Part

\* A call as it is sent.
SentAs(c, f, kind, id, values) ==
  /\ CallType(c)
  /\ c.form = f /\ c.kind = kind /\ c.docid = id /\ c.values = values
  /\ c.state = "sent" /\ c.ok = FALSE

LEMMA CallIs ==
  ASSUME NEW f \in Forms, NEW no, NEW kind \in {"save", "load", "defaults", "fields"},
         NEW id \in Ids \cup {None}, NEW values \in Part
  PROVE  SentAs(Call(f, no, kind, id, values), f, kind, id, values)
BY NoneIs, FormAssumption DEF Call, SentAs, CallType

LEMMA LoadIs ==
  ASSUME NEW f \in Forms, NEW id \in Ids \cup {None}
  PROVE  SentAs(Load(f, id), f, IF id # None THEN "load" ELSE "defaults", id, NoValues)
BY CallIs, NoneIs DEF Load

\* A call as it is answered.
Reply(m, ok, id, r) == [m EXCEPT !.state = "served", !.ok = ok, !.id = id, !.row = r]

RepliesTo(c, m, ok, id, r) ==
  /\ CallType(c)
  /\ c.form = m.form /\ c.kind = m.kind /\ c.docid = m.docid /\ c.values = m.values
  /\ c.state = "served" /\ c.ok = ok /\ c.id = id /\ c.row = r

LEMMA ReplyIs ==
  ASSUME NEW m, CallType(m), NEW ok \in BOOLEAN, NEW id \in Ids \cup {None}, NEW r \in Row
  PROVE  RepliesTo(Reply(m, ok, id, r), m, ok, id, r)
BY DEF Reply, RepliesTo, CallType

\* ... or sent again.
Again(m) ==
  [m EXCEPT !.retry = @ + 1, !.state = "sent", !.ok = FALSE, !.id = None, !.row = NoRow]

LEMMA AgainIs ==
  ASSUME NEW m, CallType(m), m.retry < MaxRetries
  PROVE  SentAs(Again(m), m.form, m.kind, m.docid, m.values)
BY NoneIs, FormAssumption DEF Again, SentAs, CallType

LEMMA FormDataIs ==
  ASSUME TypeOK, NEW f \in Forms
  PROVE  FormData(f) \in Part
BY DEF TypeOK, FormData, Row, Part, AnyValue

\* The calls of one form change.
LEMMA CallsMove ==
  ASSUME NEW f, NEW gone, NEW new, calls' = (calls \ gone) \cup new,
         \A m \in gone \cup new : m.form = f
  PROVE  /\ CallsOf(f)' = (CallsOf(f) \ gone) \cup new
         /\ \A g : g # f => CallsOf(g)' = CallsOf(g)
BY DEF CallsOf

LEMMA ApartAdded ==
  ASSUME CallsApart, NEW c, calls' = calls \cup {c},
         c.kind # "fields", ~Creates(c)
  PROVE  CallsApart'
BY DEF CallsApart, Creates

LEMMA ApartReplaced ==
  ASSUME CallsApart, NEW m \in calls, NEW c, calls' = (calls \ {m}) \cup {c},
         c.form = m.form, c.kind = m.kind, ~Creates(c)
  PROVE  CallsApart'
BY DEF CallsApart, Creates

LEMMA ApartRemoved ==
  ASSUME CallsApart, calls' \subseteq calls
  PROVE  CallsApart'
BY DEF CallsApart, Creates

-----------------------------------------------------------------------------
(* A step of one form leaves the others alone *)

Same(g) ==
  /\ docid'[g] = docid[g] /\ isNew'[g] = isNew[g] /\ loaded'[g] = loaded[g]
  /\ value'[g] = value[g] /\ formValue'[g] = formValue[g] /\ typed'[g] = typed[g]
  /\ masked'[g] = masked[g] /\ finished'[g] = finished[g]
  /\ pending'[g] = pending[g] /\ created'[g] = created[g]
  /\ window'[g] = window[g] /\ windowKey'[g] = windowKey[g] /\ winkey'[g] = winkey[g]
  /\ windows'[g] = windows[g]
  /\ g \notin hasty' => g \notin hasty
  /\ g \notin lost' => g \notin lost
  /\ g \notin stuck' => g \notin stuck

OnlyForm(f) == \A g \in Forms \ {f} : Same(g)

RowsStay == \A i : Stored(i) => Stored(i)'

\* What has to be shown of the form that moves, its key left aside.
Own(f) ==
  /\ FormOK(f)
  /\ f \notin stuck => MaskOK(f)
  /\ f \notin hasty => OneByOne(f) /\ EditsKept(f)
  /\ f \notin hasty \cup lost => CreatedOK(f)

LEMMA OwnKept ==
  ASSUME NEW g \in Forms, Same(g), CallsOf(g)' = CallsOf(g), RowsStay, Own(g)
  PROVE  Own(g)'
<1> DEFINE C == CallsOf(g)
<1>1. FormOK(g)'
  <2>1. Waiting(g)'
    BY DEF Own, FormOK, Waiting, Same
  <2> QED
    BY <2>1 DEF Own, FormOK, TypedOnly, Same, RowsStay
<1>2. MaskOK(g) => MaskOK(g)'
  BY DEF MaskOK, Same
<1>3. OneByOne(g) => OneByOne(g)'
  BY DEF OneByOne, Same
<1>4. EditsKept(g) => EditsKept(g)'
  BY DEF EditsKept, Same
<1>5. CreatedOK(g) => CreatedOK(g)'
  BY DEF CreatedOK, Creates, Same
<1> QED
  BY <1>1, <1>2, <1>3, <1>4, <1>5 DEF Own, Same

LEMMA OwnIs ==
  ASSUME EntityInv, NEW g \in Forms
  PROVE  Own(g)
BY DEF EntityInv, BaseInv, MaskInv, PatienceInv, Patience, CreatedInv, Own

\* A step that moves no window and gives no form another row.
Moves(f, gone, new) ==
  /\ calls' = (calls \ gone) \cup new
  /\ \A m \in gone \cup new : m.form = f
  /\ UNCHANGED <<docid, registry>> /\ RowsStay /\ OnlyForm(f)
  /\ \A g \in Forms : g \notin hasty' => g \notin hasty
  /\ \A m \in new :
       /\ CallOK(m)'
       /\ m.kind = "save" => window[f] = "open" \/ Saving(f)
       /\ Creates(m) /\ docid[f] = None =>
            \A g \in Forms \ {f} : window[g] # "none" => docid[g] # m.id

LEMMA Moved ==
  ASSUME EntityInv, NEW f \in Forms, NEW gone, NEW new, Moves(f, gone, new),
         TypeOK', CallsApart', Own(f)'
  PROVE  EntityInv'
<1> USE DEF Moves
<1>1. /\ CallsOf(f)' = (CallsOf(f) \ gone) \cup new
      /\ \A g : g # f => CallsOf(g)' = CallsOf(g)
  BY CallsMove
<1>2. \A g \in Forms : Own(g)'
  BY <1>1, OwnIs, OwnKept DEF OnlyForm
<1>3. \A m \in calls' : CallOK(m)'
  BY DEF EntityInv, BaseInv, CallOK, registry, RowsStay
<1>4. Buttons'
  BY DEF EntityInv, BaseInv, Buttons, registry
<1>5. Alive' \subseteq Alive
  BY <1>1 DEF Alive, Saving, CallsOf, registry
<1>6. ASSUME NEW h \in Forms, h \notin hasty' PROVE KeyOwn(h)'
  <2>1. KeyOwn(h)
    BY <1>6 DEF EntityInv, PatienceInv, Patience
  <2>2. window'[h] = "open" =>
          /\ windows'[windowKey'[h]] = h
          /\ \A m \in calls' : Creates(m) /\ m.form # h /\ docid'[m.form] = None => m.id # docid'[h]
    BY <1>6, <2>1 DEF KeyOwn, registry
  <2>3. h \in Alive' =>
          /\ window'[h] = "open"
          /\ \A g \in Alive' \ {h} : windowKey'[g] # windowKey'[h]
    BY <1>5, <2>1 DEF KeyOwn, registry
  <2>4. \A m \in CallsOf(h)' : Creates(m) /\ docid'[h] = None =>
          \A g \in Forms \ {h} : window'[g] # "none" => docid'[g] # m.id
    BY <1>1, <2>1 DEF KeyOwn, registry
  <2> QED
    BY <2>2, <2>3, <2>4 DEF KeyOwn, Creates
<1> QED
  BY <1>2, <1>3, <1>4, <1>6 DEF EntityInv, BaseInv, MaskInv, PatienceInv, Patience, CreatedInv, Own

LEMMA MovedNone ==
  ASSUME EntityInv, NEW f \in Forms, UNCHANGED <<calls, docid, registry>>, RowsStay, OnlyForm(f),
         \A g \in Forms : g \notin hasty' => g \notin hasty,
         TypeOK', Own(f)'
  PROVE  EntityInv'
<1>1. CallsApart'
  BY ApartRemoved DEF EntityInv, BaseInv, Creates
<1>2. Moves(f, {}, {})
  BY DEF Moves, Creates, Saving
<1> QED
  BY <1>1, <1>2, Moved

LEMMA MovedAdd ==
  ASSUME EntityInv, NEW f \in Forms, NEW c, calls' = calls \cup {c}, c.form = f,
         UNCHANGED <<docid, registry>>, RowsStay, OnlyForm(f),
         \A g \in Forms : g \notin hasty' => g \notin hasty,
         TypeOK', CallOK(c)', c.kind # "fields", ~c.ok, window[f] = "open", Own(f)'
  PROVE  EntityInv'
<1>1. CallsApart'
  BY ApartAdded DEF EntityInv, BaseInv, Creates
<1>2. Moves(f, {}, {c})
  BY DEF Moves, Creates, Saving
<1> QED
  BY <1>1, <1>2, Moved

\* A call is answered or sent again.
LEMMA MovedReplace ==
  ASSUME EntityInv, NEW m \in calls, NEW c, calls' = (calls \ {m}) \cup {c}, m.form \in Forms,
         c.form = m.form, c.kind = m.kind, ~Creates(c),
         UNCHANGED <<docid, registry>>, RowsStay, OnlyForm(m.form),
         \A g \in Forms : g \notin hasty' => g \notin hasty,
         TypeOK', CallOK(c)', Own(m.form)'
  PROVE  EntityInv'
<1>1. CallsApart'
  BY ApartReplaced DEF EntityInv, BaseInv, Creates
<1>2. Moves(m.form, {m}, {c})
  BY DEF Moves, Creates, Saving
<1> QED
  BY <1>1, <1>2, Moved

LEMMA MovedRemove ==
  ASSUME EntityInv, NEW m \in calls, calls' = calls \ {m}, m.form \in Forms,
         UNCHANGED <<docid, registry>>, RowsStay, OnlyForm(m.form),
         \A g \in Forms : g \notin hasty' => g \notin hasty,
         TypeOK', Own(m.form)'
  PROVE  EntityInv'
<1>1. CallsApart'
  BY ApartRemoved DEF EntityInv, BaseInv, Creates
<1>2. Moves(m.form, {m}, {})
  BY DEF Moves, Creates, Saving
<1> QED
  BY <1>1, <1>2, Moved

\* A step that leaves the forms and their calls alone.
LEMMA Unmoved ==
  ASSUME EntityInv, UNCHANGED <<form, registry, calls, ordered, history>>, RowsStay,
         rows' \in [Ids -> Row \cup {None}]
  PROVE  EntityInv'
<1>1. TypeOK'
  BY DEF EntityInv, BaseInv, TypeOK, form, registry, history
<1>2. CASE Forms = {}
  <2>1. calls = {} /\ calls' = {}
    BY <1>2 DEF EntityInv, BaseInv, TypeOK, CallType
  <2>2. CallsApart' /\ \A m \in calls' : CallOK(m)'
    BY <2>1 DEF CallsApart
  <2>3. Buttons'
    BY DEF EntityInv, BaseInv, Buttons, registry
  <2> QED
    BY <1>1, <1>2, <2>2, <2>3 DEF EntityInv, BaseInv, MaskInv, PatienceInv, CreatedInv
<1>3. ASSUME NEW f \in Forms PROVE EntityInv'
  <2>1. \A g \in Forms : Same(g)
    BY DEF Same, form, registry, history
  <2>2. CallsOf(f)' = CallsOf(f)
    BY DEF CallsOf
  <2>3. Own(f)'
    BY <2>1, <2>2, OwnIs, OwnKept
  <2> QED
    BY <1>1, <2>1, <2>3, MovedNone DEF OnlyForm, form, history
<1> QED
  BY <1>2, <1>3

LEMMA HurryIs ==
  ASSUME NEW f, Hurry(f), hasty \subseteq Forms, f \in Forms
  PROVE  /\ hasty' \subseteq Forms
         /\ \A g \in Forms : g \notin hasty' => g \notin hasty
         /\ f \notin hasty' => ~Saving(f)
BY DEF Hurry

-----------------------------------------------------------------------------
(* The user at a form *)

LEMMA TypeStep ==
  ASSUME EntityInv, NEW f \in Forms, NEW x \in Fields, NEW v \in Values[x], Type(f, x, v)
  PROVE  EntityInv'
<1> USE DEF EntityInv, BaseInv, TypeOK
<1>1. /\ window[f] = "open" /\ ~masked[f] /\ Hurry(f)
      /\ value' = [value EXCEPT ![f][x] = v]
      /\ typed' = [typed EXCEPT ![f] = @ \cup {x}]
      /\ pending' = [pending EXCEPT ![f][x] = IF v = formValue[f][x] THEN None ELSE v]
      /\ UNCHANGED <<rows, docid, isNew, shouldBeClosed, formValue, masked, finished, loaded,
                     registry, calls, ordered, created, lost, stuck>>
  BY DEF Type, Usable
<1>2. CallsOf(f)' = CallsOf(f)
  BY <1>1 DEF CallsOf
<1>3. [value[f] EXCEPT ![x] = v] \in Row
  BY RowSet
<1>4. [pending[f] EXCEPT ![x] = IF v = formValue[f][x] THEN None ELSE v] \in Part
  BY PartSet
<1>5. TypeOK'
  BY <1>1, <1>3, <1>4, HurryIs DEF registry, CallType
<1>6. OnlyForm(f)
  BY <1>1, HurryIs DEF OnlyForm, Same, registry
<1>7. FormOK(f)'
  <2>1. TypedOnly(f)'
    BY <1>1 DEF FormOK, TypedOnly, Row
  <2>2. Waiting(f)'
    BY <1>1, <1>2 DEF FormOK, Waiting, registry
  <2> QED
    BY <1>1, <2>1, <2>2 DEF FormOK, Stored, registry
<1>8. MaskOK(f) => MaskOK(f)'
  BY <1>1, <1>2 DEF MaskOK, registry
<1>9. ASSUME f \notin hasty' PROVE OneByOne(f)' /\ EditsKept(f)'
  <2>1. Patience(f) /\ ~Saving(f)
    BY <1>1, <1>9, HurryIs DEF PatienceInv
  <2>2. \A m \in CallsOf(f) : m.kind # "save"
    BY <2>1 DEF Saving, CallsOf
  <2>3. OneByOne(f)'
    BY <1>1, <1>2, <2>1 DEF Patience, OneByOne, registry
  <2>4. \A y \in Fields : pending'[f][y] # None =>
          value'[f][y] = pending'[f][y] /\ pending'[f][y] # formValue[f][y]
    BY <1>1, <2>1 DEF Patience, EditsKept, Row, Part
  <2> QED
    BY <1>1, <1>2, <2>2, <2>3, <2>4 DEF EditsKept, registry
<1>10. CreatedOK(f) => CreatedOK(f)'
  BY <1>1, <1>2 DEF CreatedOK, Creates
<1>11. Own(f)'
  BY <1>1, <1>7, <1>8, <1>9, <1>10, HurryIs, OwnIs DEF Own
<1>12. RowsStay
  BY <1>1 DEF RowsStay, Stored
<1> QED
  BY <1>1, <1>5, <1>6, <1>11, <1>12, HurryIs, MovedNone

LEMMA RefreshStep ==
  ASSUME EntityInv, NEW f \in Forms, Refresh(f)
  PROVE  EntityInv'
<1> USE DEF EntityInv, BaseInv, TypeOK
<1>1. /\ window[f] = "open" /\ ~masked[f] /\ loaded[f] /\ Hurry(f)
      /\ ordered < MaxCalls /\ ordered' = ordered + 1
      /\ masked' = [masked EXCEPT ![f] = TRUE]
      /\ calls' = calls \cup {Load(f, docid[f])}
      /\ pending' = [pending EXCEPT ![f] = NoValues]
      /\ UNCHANGED <<rows, docid, isNew, shouldBeClosed, value, formValue, finished, loaded,
                     registry, typed, created, lost, stuck>>
  BY DEF Refresh, Usable
<1>2. docid[f] # None /\ docid[f] \in Ids
  BY <1>1 DEF FormOK
<1>3. PICK c : c = Load(f, docid[f]) /\ SentAs(c, f, "load", docid[f], NoValues)
  BY <1>2, LoadIs
<1>4. /\ calls' = calls \cup {c} /\ CallType(c) /\ c.form = f /\ c.kind = "load"
      /\ c.docid = docid[f] /\ c.state = "sent" /\ ~c.ok
  BY <1>1, <1>3 DEF SentAs
<1>5. CallsOf(f)' = CallsOf(f) \cup {c}
  BY <1>4 DEF CallsOf
<1>6. TypeOK'
  <2>1. \A m \in calls' : CallType(m)'
    BY <1>4 DEF CallType
  <2>2. ordered' \in 0..MaxCalls
    BY <1>1, FormAssumption
  <2> QED
    BY <1>1, <2>1, <2>2, NoneIs, HurryIs DEF registry
<1>7. OnlyForm(f)
  BY <1>1, HurryIs DEF OnlyForm, Same, registry
<1>8. CallOK(c)'
  BY <1>1, <1>2, <1>4 DEF CallOK, registry
<1>9. FormOK(f)'
  <2>1. TypedOnly(f)'
    BY <1>1 DEF FormOK, TypedOnly
  <2>2. Waiting(f)'
    BY <1>1, <1>2, <1>4, <1>5 DEF FormOK, Waiting, registry
  <2> QED
    BY <1>1, <2>1, <2>2 DEF FormOK, Stored, registry
<1>10. MaskOK(f) => MaskOK(f)'
  BY <1>1, <1>4, <1>5 DEF MaskOK, registry
<1>11. ASSUME f \notin hasty' PROVE OneByOne(f)' /\ EditsKept(f)'
  <2>1. Patience(f) /\ ~Saving(f)
    BY <1>1, <1>11, HurryIs DEF PatienceInv
  <2>2. CallsOf(f) = {}
    BY <1>1, <2>1 DEF Saving, Patience, OneByOne, CallsOf
  <2>3. OneByOne(f)'
    BY <1>1, <1>4, <1>5, <2>2 DEF OneByOne
  <2>4. \A y \in Fields : pending'[f][y] = None
    BY <1>1 DEF NoValues
  <2> QED
    BY <2>3, <2>4 DEF EditsKept
<1>12. CreatedOK(f) => CreatedOK(f)'
  BY <1>1, <1>2 DEF CreatedOK
<1>13. Own(f)'
  BY <1>1, <1>9, <1>10, <1>11, <1>12, HurryIs, OwnIs DEF Own
<1>14. RowsStay
  BY <1>1 DEF RowsStay, Stored
<1> QED
  BY <1>1, <1>4, <1>6, <1>7, <1>8, <1>13, <1>14, HurryIs, MovedAdd

LEMMA SaveSent ==
  ASSUME EntityInv, NEW f \in Forms, NEW close \in BOOLEAN, Save(f, close), Changed(f) # {}
  PROVE  EntityInv'
<1> USE DEF EntityInv, BaseInv, TypeOK
<1>1. /\ window[f] = "open" /\ ~masked[f] /\ Hurry(f)
      /\ ordered < MaxCalls /\ ordered' = ordered + 1
      /\ shouldBeClosed' = [shouldBeClosed EXCEPT ![f] = close]
      /\ calls' = calls \cup {Call(f, Fresh(f), "save", docid[f], FormData(f))}
      /\ UNCHANGED <<rows, docid, isNew, value, formValue, masked, finished, loaded,
                     registry, typed, pending, created, lost, stuck>>
  BY DEF Save, Usable, registry
<1>2. PICK c : /\ c = Call(f, Fresh(f), "save", docid[f], FormData(f))
               /\ SentAs(c, f, "save", docid[f], FormData(f))
  BY CallIs, FormDataIs
<1>3. /\ calls' = calls \cup {c} /\ CallType(c) /\ c.form = f /\ c.kind = "save"
      /\ c.docid = docid[f] /\ c.values = FormData(f) /\ c.state = "sent" /\ ~c.ok
  BY <1>1, <1>2 DEF SentAs
<1>4. CallsOf(f)' = CallsOf(f) \cup {c}
  BY <1>3 DEF CallsOf
<1>5. TypeOK'
  <2>1. \A m \in calls' : CallType(m)'
    BY <1>3 DEF CallType
  <2>2. ordered' \in 0..MaxCalls
    BY <1>1, FormAssumption
  <2> QED
    BY <1>1, <2>1, <2>2, HurryIs DEF registry
<1>6. OnlyForm(f)
  BY <1>1, HurryIs DEF OnlyForm, Same, registry
<1>7. CallOK(c)'
  BY <1>1, <1>3 DEF CallOK, registry
<1>8. \A m \in CallsOf(f) : m.kind # "defaults"
  BY <1>1 DEF FormOK, Waiting
<1>9. FormOK(f)'
  <2>1. TypedOnly(f)'
    BY <1>1 DEF FormOK, TypedOnly
  <2>2. Waiting(f)'
    BY <1>1, <1>3, <1>4, <1>8 DEF FormOK, Waiting
  <2> QED
    BY <1>1, <2>1, <2>2 DEF FormOK, Stored, registry
<1>10. MaskOK(f) => MaskOK(f)'
  BY <1>1, <1>4 DEF MaskOK, registry
<1>11. ASSUME f \notin hasty' PROVE OneByOne(f)' /\ EditsKept(f)'
  <2>1. Patience(f) /\ ~Saving(f)
    BY <1>1, <1>11, HurryIs DEF PatienceInv
  <2>2. CallsOf(f) = {}
    BY <1>1, <2>1 DEF Saving, Patience, OneByOne, CallsOf
  <2>3. OneByOne(f)'
    BY <1>1, <1>3, <1>4, <2>2 DEF OneByOne
  <2>4. \A x \in Fields : pending[f][x] # None => c.values[x] = pending[f][x]
    BY <1>3, <2>1 DEF Patience, EditsKept, FormData, Changed
  <2>5. EditsKept(f)'
    BY <1>1, <1>3, <1>4, <2>1, <2>2, <2>4 DEF Patience, EditsKept, registry
  <2> QED
    BY <2>3, <2>5
<1>12. CreatedOK(f) => CreatedOK(f)'
  BY <1>1, <1>4 DEF CreatedOK, Creates
<1>13. Own(f)'
  BY <1>1, <1>9, <1>10, <1>11, <1>12, HurryIs, OwnIs DEF Own
<1>14. RowsStay
  BY <1>1 DEF RowsStay, Stored
<1> QED
  BY <1>1, <1>3, <1>5, <1>6, <1>7, <1>13, <1>14, HurryIs, MovedAdd

LEMMA NothingSaved ==
  ASSUME EntityInv, NEW f \in Forms, Save(f, FALSE), Changed(f) = {}
  PROVE  EntityInv'
<1> USE DEF EntityInv, BaseInv, TypeOK
<1>1. /\ Hurry(f) /\ ordered < MaxCalls /\ ordered' = ordered + 1
      /\ shouldBeClosed' = [shouldBeClosed EXCEPT ![f] = FALSE]
      /\ UNCHANGED <<rows, docid, isNew, value, formValue, masked, finished, loaded,
                     registry, calls, typed, pending, created, lost, stuck>>
  BY DEF Save, registry
<1>2. TypeOK'
  <2>1. ordered' \in 0..MaxCalls
    BY <1>1, FormAssumption
  <2> QED
    BY <1>1, <2>1, HurryIs DEF registry, CallType
<1>3. \A g \in Forms : Same(g) /\ CallsOf(g)' = CallsOf(g)
  BY <1>1, HurryIs DEF Same, registry, CallsOf
<1>4. RowsStay
  BY <1>1 DEF RowsStay, Stored
<1>5. Own(f)'
  BY <1>3, <1>4, OwnIs, OwnKept
<1> QED
  BY <1>1, <1>2, <1>3, <1>4, <1>5, HurryIs, MovedNone DEF OnlyForm

-----------------------------------------------------------------------------
(* The server *)

LEMMA ServeSaveStep ==
  ASSUME EntityInv, NEW m \in calls, ServeSave(m)
  PROVE  EntityInv'
<1> USE DEF EntityInv, BaseInv, TypeOK
<1> DEFINE f == m.form
<1>1. /\ m.kind = "save" /\ m.state = "sent"
      /\ created' = [created EXCEPT ![f] = IF m.docid = None THEN @ + 1 ELSE @]
      /\ pending' = [pending EXCEPT ![f] =
           [x \in Fields |-> IF @[x] = m.values[x] THEN None ELSE @[x]]]
      /\ UNCHANGED <<form, registry, ordered, typed, hasty, lost, stuck>>
  BY DEF ServeSave
<1>2. PICK i \in Ids :
        /\ IF m.docid = None THEN rows[i] = None ELSE i = m.docid
        /\ rows' = [rows EXCEPT ![i] =
             Written(IF m.docid = None THEN NoRow ELSE rows[i], m.values)]
        /\ Answer(m, TRUE, i, NoRow)
  BY DEF ServeSave
<1>3. f \in Forms /\ CallType(m) /\ CallOK(m) /\ m \in CallsOf(f) /\ m.values \in Part
  BY DEF CallType, CallsOf
<1>4. PICK c : c = Reply(m, TRUE, i, NoRow) /\ RepliesTo(c, m, TRUE, i, NoRow)
  BY <1>3, ReplyIs, NoneIs
<1>5. /\ calls' = (calls \ {m}) \cup {c} /\ CallType(c) /\ c.form = f /\ c.kind = "save"
      /\ c.docid = m.docid /\ c.values = m.values /\ c.state = "served" /\ c.ok /\ c.id = i
  BY <1>1, <1>2, <1>4 DEF Answer, Reply, RepliesTo
<1>6. /\ CallsOf(f)' = (CallsOf(f) \ {m}) \cup {c}
      /\ \A g : g # f => CallsOf(g)' = CallsOf(g)
  BY <1>3, <1>5 DEF CallsOf
<1>7. Written(IF m.docid = None THEN NoRow ELSE rows[i], m.values) \in Row
  <2>1. (IF m.docid = None THEN NoRow ELSE rows[i]) \in Row
    BY <1>2, <1>3, NoneIs DEF CallOK, FormOK, Stored
  <2> QED
    BY <1>3, <2>1 DEF Written, Row, Part
<1>8. RowsStay /\ Stored(i)' /\ rows' \in [Ids -> Row \cup {None}]
  BY <1>2, <1>7, NoneIs DEF RowsStay, Stored
<1>9. ~m.ok /\ m.ok = FALSE
  BY <1>1, <1>3 DEF CallOK, CallType
<1>10. [x \in Fields |-> IF pending[f][x] = m.values[x] THEN None ELSE pending[f][x]] \in Part
  BY <1>3 DEF Part
<1>11. TypeOK'
  <2>1. \A n \in calls' : CallType(n)'
    BY <1>5 DEF CallType
  <2>2. created' \in [Forms -> Nat] /\ pending' \in [Forms -> Part]
    BY <1>1, <1>3, <1>10
  <2> QED
    BY <1>1, <1>8, <2>1, <2>2 DEF form, registry
<1>12. OnlyForm(f)
  BY <1>1, <1>3 DEF OnlyForm, Same, form, registry
<1>13. CallOK(c)'
  BY <1>1, <1>3, <1>5, <1>8 DEF CallOK, form, registry
<1>14. Creates(c) =>
         /\ \A n \in calls : Creates(n) => n.id # i
         /\ \A g \in Forms : docid[g] # i
  BY <1>2, <1>5, NoneIs DEF Creates, CallOK, FormOK, Stored
<1>15. CallsApart'
  BY <1>5, <1>14 DEF CallsApart, Creates
<1>16. Moves(f, {m}, {c})
  BY <1>1, <1>3, <1>5, <1>8, <1>12, <1>13, <1>14 DEF Moves, Saving, form, registry
<1>17. FormOK(f)'
  <2>1. TypedOnly(f)'
    BY <1>1, <1>3 DEF FormOK, TypedOnly, form
  <2>2. Waiting(f)'
    BY <1>1, <1>3, <1>5, <1>6 DEF FormOK, Waiting, form, registry
  <2> QED
    BY <1>1, <1>3, <1>8, <2>1, <2>2 DEF FormOK, CallOK, RowsStay, form, registry
<1>18. MaskOK(f) => MaskOK(f)'
  BY <1>1, <1>6 DEF MaskOK, form, registry
<1>19. ASSUME f \notin hasty PROVE OneByOne(f)' /\ EditsKept(f)'
  <2>1. Patience(f)
    BY <1>3, <1>19 DEF PatienceInv
  <2>2. CallsOf(f) = {m} /\ CallsOf(f)' = {c}
    BY <1>1, <1>3, <1>6, <2>1 DEF Patience, OneByOne
  <2>3. OneByOne(f)'
    BY <1>1, <1>3, <1>5, <2>1, <2>2 DEF Patience, OneByOne, form
  <2>4. \A x \in Fields : pending'[f][x] = None
    BY <1>1, <1>3, <2>1 DEF Patience, EditsKept
  <2> QED
    BY <2>3, <2>4 DEF EditsKept
<1>20. ASSUME f \notin hasty \cup lost PROVE CreatedOK(f)'
  <2>1. Patience(f) /\ CreatedOK(f)
    BY <1>3, <1>20 DEF PatienceInv, CreatedInv
  <2>2. CallsOf(f) = {m} /\ CallsOf(f)' = {c} /\ m.docid = docid[f]
    BY <1>1, <1>3, <1>6, <2>1 DEF Patience, OneByOne
  <2>3. CASE docid[f] = None
    <3>1. created[f] = 0
      BY <1>9, <2>1, <2>2, <2>3 DEF CreatedOK, Creates
    <3>2. created'[f] = 1
      BY <1>1, <1>3, <2>2, <2>3, <3>1
    <3>3. Creates(c)
      BY <1>5, <2>2, <2>3 DEF Creates
    <3> QED
      BY <2>2, <3>2, <3>3 DEF CreatedOK, Creates
  <2>4. CASE docid[f] # None
    BY <1>1, <1>3, <2>1, <2>2, <2>4 DEF CreatedOK, form
  <2> QED
    BY <2>3, <2>4
<1>21. Own(f)'
  BY <1>1, <1>3, <1>17, <1>18, <1>19, <1>20, OwnIs DEF Own
<1> QED
  BY <1>3, <1>11, <1>15, <1>16, <1>21, Moved

\* A call is answered, refused or sent again without effect on the database.
LEMMA Replaced ==
  ASSUME EntityInv, NEW m \in calls, NEW c, calls' = (calls \ {m}) \cup {c}, CallType(c),
         c.form = m.form, c.kind = m.kind, c.docid = m.docid, c.values = m.values,
         c.ok => c.state = "served" /\ c.kind # "save",
         UNCHANGED <<rows, form, registry, ordered, typed, pending, created, hasty, stuck>>,
         lost' = lost \/ (lost' = lost \cup {m.form}), Creates(m) => m.form \in lost'
  PROVE  EntityInv'
<1> USE DEF EntityInv, BaseInv, TypeOK
<1> DEFINE f == m.form
<1>1. f \in Forms /\ CallType(m) /\ CallOK(m) /\ m \in CallsOf(f)
  BY DEF CallType, CallsOf
<1>2. CallsOf(f)' = (CallsOf(f) \ {m}) \cup {c}
  BY <1>1 DEF CallsOf
<1>3. TypeOK'
  <2>1. \A n \in calls' : CallType(n)'
    BY DEF CallType
  <2> QED
    BY <1>1, <2>1 DEF form, registry
<1>4. OnlyForm(f)
  BY <1>1 DEF OnlyForm, Same, form, registry
<1>5. CallOK(c)' /\ ~Creates(c)
  BY <1>1 DEF CallOK, Creates, form, registry
<1>6. RowsStay
  BY DEF RowsStay, Stored
<1>7. FormOK(f)'
  <2>1. TypedOnly(f)'
    BY <1>1 DEF FormOK, TypedOnly, form
  <2>2. Waiting(f)'
    BY <1>1, <1>2 DEF FormOK, Waiting, form, registry
  <2> QED
    BY <1>1, <2>1, <2>2 DEF FormOK, Stored, form, registry
<1>8. MaskOK(f) => MaskOK(f)'
  BY <1>2 DEF MaskOK, form, registry
<1>9. OneByOne(f) => OneByOne(f)'
  <2>1. ASSUME OneByOne(f), NEW a \in CallsOf(f)', NEW b \in CallsOf(f)'
        PROVE  \/ a = b
               \/ /\ a.kind # "save" /\ b.kind # "save"
                  /\ a.kind = "fields" \/ b.kind = "fields"
                  /\ window[f] = "open" => ~loaded[f]
    BY <1>1, <1>2, <2>1 DEF OneByOne
  <2>2. ASSUME OneByOne(f), NEW a \in CallsOf(f)'
        PROVE  IF a.kind = "save" THEN a.docid = docid[f] ELSE window[f] = "open" => masked[f]
    BY <1>1, <1>2, <2>2 DEF OneByOne
  <2> QED
    BY <2>1, <2>2 DEF OneByOne, form, registry
<1>10. EditsKept(f) => EditsKept(f)'
  BY <1>1, <1>2 DEF EditsKept, form, registry
<1>11. f \notin lost' => (CreatedOK(f) => CreatedOK(f)')
  BY <1>1, <1>2 DEF CreatedOK, Creates, form
<1>12. Own(f)'
  BY <1>1, <1>7, <1>8, <1>9, <1>10, <1>11, OwnIs DEF Own
<1> QED
  BY <1>1, <1>3, <1>4, <1>5, <1>6, <1>12, MovedReplace DEF form

LEMMA ServeLoadStep ==
  ASSUME EntityInv, NEW m \in calls, ServeLoad(m)
  PROVE  EntityInv'
<1> DEFINE r == IF m.kind = "load" THEN rows[m.docid] ELSE NoRow
<1>1. m.kind # "save" /\ Answer(m, TRUE, None, r)
      /\ UNCHANGED <<rows, form, registry, ordered, history>>
  BY DEF ServeLoad
<1>2. CallType(m) /\ CallOK(m) /\ m.form \in Forms
  BY DEF EntityInv, BaseInv, TypeOK, CallType
<1>3. r \in Row
  BY <1>2, NoneIs DEF EntityInv, BaseInv, TypeOK, CallOK, FormOK, Stored
<1> HIDE DEF r
<1>4. PICK c : c = Reply(m, TRUE, None, r) /\ RepliesTo(c, m, TRUE, None, r)
  BY <1>2, <1>3, ReplyIs
<1>5. calls' = (calls \ {m}) \cup {c}
  BY <1>1, <1>4 DEF Answer, Reply
<1> QED
  BY <1>1, <1>4, <1>5, Replaced DEF RepliesTo, Creates, history

LEMMA RefuseStep ==
  ASSUME EntityInv, NEW m \in calls, Refuse(m)
  PROVE  EntityInv'
<1>1. m.state = "sent" /\ Answer(m, FALSE, None, NoRow)
      /\ UNCHANGED <<rows, form, registry, ordered, history>>
  BY DEF Refuse
<1>2. CallType(m) /\ CallOK(m)
  BY DEF EntityInv, BaseInv, TypeOK
<1>3. PICK c : c = Reply(m, FALSE, None, NoRow) /\ RepliesTo(c, m, FALSE, None, NoRow)
  BY <1>2, ReplyIs, NoneIs
<1>4. calls' = (calls \ {m}) \cup {c}
  BY <1>1, <1>3 DEF Answer, Reply
<1>5. ~Creates(m)
  BY <1>1, <1>2 DEF CallOK, Creates
<1> QED
  BY <1>1, <1>3, <1>4, <1>5, Replaced DEF RepliesTo, history

LEMMA LoseStep ==
  ASSUME EntityInv, NEW m \in calls, Lose(m)
  PROVE  EntityInv'
<1>1. /\ lost' = IF m.kind = "save" THEN lost \cup {m.form} ELSE lost
      /\ UNCHANGED <<rows, form, registry, ordered, typed, pending, created, hasty, stuck>>
  BY DEF Lose
<1>2. CallType(m)
  BY DEF EntityInv, BaseInv, TypeOK
<1>3. Creates(m) => m.form \in lost'
  BY <1>1 DEF Creates
<1>4. CASE m.retry < MaxRetries
  <2>1. PICK c : c = Again(m) /\ SentAs(c, m.form, m.kind, m.docid, m.values)
    BY <1>2, <1>4, AgainIs
  <2>2. calls' = (calls \ {m}) \cup {c}
    BY <1>4, <2>1 DEF Lose, Again
  <2> QED
    BY <1>1, <1>3, <2>1, <2>2, Replaced DEF SentAs
<1>5. CASE ~(m.retry < MaxRetries)
  <2>1. PICK c : c = Reply(m, FALSE, None, NoRow) /\ RepliesTo(c, m, FALSE, None, NoRow)
    BY <1>2, ReplyIs, NoneIs
  <2>2. calls' = (calls \ {m}) \cup {c}
    BY <1>5, <2>1 DEF Lose, Answer, Reply
  <2> QED
    BY <1>1, <1>3, <2>1, <2>2, Replaced DEF RepliesTo
<1> QED
  BY <1>4, <1>5

LEMMA OtherUserStep ==
  ASSUME EntityInv, NEW i \in Ids, NEW x \in Fields, NEW v \in OthersWrite[x], OtherUser(i, x, v)
  PROVE  EntityInv'
<1>1. /\ rows[i] # None /\ rows' = [rows EXCEPT ![i][x] = v]
      /\ UNCHANGED <<form, registry, calls, ordered, history>>
  BY DEF OtherUser
<1>2. rows[i] \in Row /\ rows \in [Ids -> Row \cup {None}]
  BY <1>1 DEF EntityInv, BaseInv, TypeOK
<1>3. v \in Values[x] /\ [rows[i] EXCEPT ![x] = v] \in Row
  BY <1>2, RowSet, FormAssumption
<1>4. rows' \in [Ids -> Row \cup {None}] /\ RowsStay
  BY <1>1, <1>2, <1>3, NoneIs DEF RowsStay, Stored
<1> QED
  BY <1>1, <1>4, Unmoved

-----------------------------------------------------------------------------
(* Callbacks of the form *)

\* An answer without effect on the form: of a load that comes too late, or of a
\* save that was refused.
LEMMA Dropped ==
  ASSUME EntityInv, NEW m \in calls, calls' = calls \ {m},
         UNCHANGED <<rows, form, registry, ordered, history>>,
         IF m.kind = "save" THEN ~m.ok ELSE window[m.form] = "closed"
  PROVE  EntityInv'
<1> USE DEF EntityInv, BaseInv, TypeOK
<1> DEFINE f == m.form
<1>1. f \in Forms /\ m \in CallsOf(f)
  BY DEF CallType, CallsOf
<1>2. CallsOf(f)' = CallsOf(f) \ {m}
  BY <1>1 DEF CallsOf
<1>3. TypeOK'
  BY DEF form, registry, history, CallType
<1>4. OnlyForm(f) /\ RowsStay
  BY DEF OnlyForm, Same, RowsStay, Stored, form, registry, history
<1>5. FormOK(f)'
  <2>1. TypedOnly(f)'
    BY <1>1 DEF FormOK, TypedOnly, form, history
  <2>2. Waiting(f)'
    BY <1>1, <1>2 DEF FormOK, Waiting, form, registry
  <2> QED
    BY <1>1, <2>1, <2>2 DEF FormOK, Stored, form, registry, history
<1>6. MaskOK(f) => MaskOK(f)'
  BY <1>2 DEF MaskOK, form, registry
<1>7. OneByOne(f) => OneByOne(f)'
  BY <1>2 DEF OneByOne, form, registry
<1>8. EditsKept(f) => EditsKept(f)'
  BY <1>2 DEF EditsKept, form, registry, history
<1>9. CreatedOK(f) => CreatedOK(f)'
  BY <1>2 DEF CreatedOK, Creates, form, history
<1>10. Own(f)'
  BY <1>1, <1>5, <1>6, <1>7, <1>8, <1>9, OwnIs DEF Own, history
<1> QED
  BY <1>1, <1>3, <1>4, <1>10, MovedRemove DEF form, history

LEMMA LateSteps ==
  ASSUME EntityInv, NEW m \in calls, AnsweredLate(m) \/ OnSaveRefused(m)
  PROVE  EntityInv'
BY Dropped DEF AnsweredLate, OnSaveRefused

LEMMA OnLoadStep ==
  ASSUME EntityInv, NEW m \in calls, OnLoad(m)
  PROVE  EntityInv'
<1> USE DEF EntityInv, BaseInv, TypeOK
<1> DEFINE f == m.form
<1>1. /\ m.kind = "load" /\ window[f] = "open" /\ calls' = calls \ {m}
      /\ UNCHANGED <<rows, docid, shouldBeClosed, finished, registry, ordered,
                     pending, created, hasty, lost>>
  BY DEF OnLoad, Answered
<1>2. f \in Forms /\ CallOK(m) /\ m \in CallsOf(f) /\ m.row \in Row /\ docid[f] # None
  BY <1>1 DEF CallType, CallsOf, CallOK
<1>3. CallsOf(f)' = CallsOf(f) \ {m}
  BY <1>2, <1>1 DEF CallsOf
<1>4. RowsStay
  BY <1>1 DEF RowsStay, Stored
<1>5. CreatedOK(f) => CreatedOK(f)'
  BY <1>1, <1>2 DEF CreatedOK
<1>6. \A n \in CallsOf(f) : n.kind # "defaults"
  BY <1>2 DEF FormOK, Waiting
<1>7. ASSUME f \notin hasty
      PROVE  /\ masked[f] /\ \A x \in Fields : pending[f][x] = None
             /\ \A n \in CallsOf(f)' : n.kind = "fields"
  <2>1. Patience(f)
    BY <1>2, <1>7 DEF PatienceInv
  <2>2. masked[f]
    BY <1>1, <1>2, <2>1 DEF Patience, OneByOne
  <2> QED
    BY <1>1, <1>2, <1>3, <2>1, <2>2 DEF Patience, OneByOne, EditsKept
<1>8. f \notin hasty => EditsKept(f)'
  BY <1>1, <1>7 DEF EditsKept
<1>9. CASE m.ok
  <2>1. /\ value' = [value EXCEPT ![f] = SetData(m.row)] /\ formValue' = [formValue EXCEPT ![f] = m.row]
        /\ isNew' = [isNew EXCEPT ![f] = FALSE] /\ loaded' = [loaded EXCEPT ![f] = TRUE]
        /\ typed' = [typed EXCEPT ![f] = {}] /\ masked' = [masked EXCEPT ![f] = ~finished[f]]
        /\ stuck' = stuck
    BY <1>9 DEF OnLoad
  <2>2. TypeOK'
    BY <1>1, <1>2, <2>1, NoneIs, SetDataIs DEF registry, CallType
  <2>3. OnlyForm(f)
    BY <1>1, <2>1 DEF OnlyForm, Same, registry
  <2>4. FormOK(f)'
    <3>1. TypedOnly(f)'
      BY <1>2, <2>1 DEF TypedOnly, SetData
    <3>2. Waiting(f)'
      BY <1>1, <1>2, <1>3, <1>6 DEF FormOK, Waiting
    <3> QED
      BY <1>1, <1>2, <3>1, <3>2 DEF FormOK, Stored, registry
  <2>5. MaskOK(f) => MaskOK(f)'
    BY <1>1, <1>2, <1>3, <2>1 DEF MaskOK, registry
  <2>6. f \notin hasty => OneByOne(f)'
    <3> SUFFICES ASSUME f \notin hasty PROVE OneByOne(f)'
      OBVIOUS
    <3>1. \A a, b \in CallsOf(f)' : a = b
      BY <1>1, <1>3, <1>7 DEF CallsApart, CallsOf
    <3>2. \A a \in CallsOf(f)' : masked'[f]
      BY <1>2, <1>3, <1>7, <2>1 DEF FormOK, Waiting
    <3> QED
      BY <1>7, <3>1, <3>2 DEF OneByOne
  <2>7. Own(f)'
    BY <1>1, <1>2, <1>5, <1>8, <2>1, <2>4, <2>5, <2>6, OwnIs DEF Own
  <2> QED
    BY <1>1, <1>2, <1>4, <2>2, <2>3, <2>7, MovedRemove
<1>10. CASE ~m.ok
  <2>1. stuck' = stuck \cup {f} /\ UNCHANGED <<value, formValue, isNew, loaded, typed, masked>>
    BY <1>10 DEF OnLoad
  <2>2. TypeOK'
    BY <1>1, <1>2, <2>1 DEF registry, CallType
  <2>3. OnlyForm(f)
    BY <1>1, <2>1 DEF OnlyForm, Same, registry
  <2>4. FormOK(f)'
    <3>1. TypedOnly(f)'
      BY <1>2, <2>1 DEF FormOK, TypedOnly
    <3>2. Waiting(f)'
      BY <1>1, <1>2, <1>3, <1>6 DEF FormOK, Waiting
    <3> QED
      BY <1>1, <1>2, <2>1, <3>1, <3>2 DEF FormOK, Stored, registry
  <2>5. OneByOne(f) => OneByOne(f)'
    BY <1>1, <1>3, <2>1 DEF OneByOne, registry
  <2>6. Own(f)'
    BY <1>1, <1>2, <1>5, <1>8, <2>1, <2>4, <2>5, OwnIs DEF Own
  <2> QED
    BY <1>1, <1>2, <1>4, <2>2, <2>3, <2>6, MovedRemove
<1> QED
  BY <1>9, <1>10

LEMMA OnDefaultsStep ==
  ASSUME EntityInv, NEW m \in calls, OnDefaults(m)
  PROVE  EntityInv'
<1> USE DEF EntityInv, BaseInv, TypeOK
<1> DEFINE f == m.form
<1>1. /\ m.kind = "defaults" /\ window[f] = "open" /\ calls' = calls \ {m}
      /\ value' = IF m.ok THEN [value EXCEPT ![f] = SetData(m.row)] ELSE value
      /\ masked' = [masked EXCEPT ![f] = FALSE]
      /\ UNCHANGED <<rows, docid, isNew, shouldBeClosed, formValue, finished, loaded,
                     registry, ordered, history>>
  BY DEF OnDefaults, Answered
<1>2. f \in Forms /\ m \in CallsOf(f) /\ m.row \in Row
  BY DEF CallType, CallsOf
<1>3. /\ CallsOf(f) = {m} /\ docid[f] = None /\ formValue[f] = NoValues /\ masked[f]
  BY <1>1, <1>2 DEF FormOK, Waiting
<1>4. CallsOf(f)' = {}
  BY <1>1, <1>3 DEF CallsOf
<1>5. TypeOK'
  BY <1>1, <1>2, SetDataIs DEF registry, history, CallType
<1>6. OnlyForm(f) /\ RowsStay
  BY <1>1 DEF OnlyForm, Same, RowsStay, Stored, registry, history
<1>7. FormOK(f)'
  <2>1. TypedOnly(f)'
    BY <1>1, <1>3 DEF TypedOnly, NoValues
  <2>2. Waiting(f)'
    BY <1>4 DEF Waiting
  <2> QED
    BY <1>1, <1>2, <2>1, <2>2 DEF FormOK, Stored, registry, history
<1>8. MaskOK(f) => MaskOK(f)'
  BY <1>1, <1>2, <1>3 DEF MaskOK, registry
<1>9. f \notin hasty => OneByOne(f)' /\ EditsKept(f)'
  <2>1. f \notin hasty => \A x \in Fields : pending[f][x] = None
    BY <1>2, <1>3 DEF PatienceInv, Patience, EditsKept
  <2> QED
    BY <1>1, <1>4, <2>1 DEF OneByOne, EditsKept, history
<1>10. CreatedOK(f) => CreatedOK(f)'
  BY <1>1, <1>3 DEF CreatedOK, Creates, history
<1>11. Own(f)'
  BY <1>1, <1>2, <1>7, <1>8, <1>9, <1>10, OwnIs DEF Own, history
<1> QED
  BY <1>1, <1>2, <1>5, <1>6, <1>11, MovedRemove DEF history

LEMMA OnFieldsStep ==
  ASSUME EntityInv, NEW m \in calls, OnFields(m)
  PROVE  EntityInv'
<1> USE DEF EntityInv, BaseInv, TypeOK
<1> DEFINE f == m.form
<1>1. /\ m.kind = "fields" /\ window[f] = "open" /\ calls' = calls \ {m}
      /\ UNCHANGED <<rows, docid, isNew, shouldBeClosed, value, formValue, loaded,
                     registry, ordered, typed, pending, created, hasty, lost>>
  BY DEF OnFields, Answered
<1>2. f \in Forms /\ CallOK(m) /\ m \in CallsOf(f) /\ docid[f] # None
  BY <1>1 DEF CallType, CallsOf, CallOK
<1>3. CallsOf(f)' = CallsOf(f) \ {m}
  BY <1>1, <1>2 DEF CallsOf
<1>4. RowsStay
  BY <1>1 DEF RowsStay, Stored
<1>5. CreatedOK(f) => CreatedOK(f)'
  BY <1>1, <1>2 DEF CreatedOK
<1>6. \A n \in CallsOf(f)' : n.kind \notin {"defaults", "fields"}
  BY <1>1, <1>2, <1>3 DEF FormOK, Waiting, CallsApart, CallsOf
<1>7. ASSUME f \notin hasty
      PROVE  /\ masked[f] /\ \A x \in Fields : pending[f][x] = None
             /\ CallsOf(f)' # {} => ~loaded[f]
  <2>1. Patience(f)
    BY <1>2, <1>7 DEF PatienceInv
  <2>2. masked[f]
    BY <1>1, <1>2, <2>1 DEF Patience, OneByOne
  <2> QED
    BY <1>1, <1>2, <1>3, <2>1, <2>2 DEF Patience, OneByOne, EditsKept
<1>8. f \notin hasty => EditsKept(f)'
  BY <1>1, <1>7 DEF EditsKept
<1>9. TypedOnly(f)'
  BY <1>1, <1>2 DEF FormOK, TypedOnly
<1>10. Waiting(f)'
  BY <1>6 DEF Waiting
<1>11. FormOK(f)'
  BY <1>1, <1>2, <1>9, <1>10 DEF FormOK, Stored, registry
<1>12. CASE m.ok
  <2>1. /\ finished' = [finished EXCEPT ![f] = TRUE]
        /\ masked' = [masked EXCEPT ![f] = masked[f] /\ ~loaded[f]]
        /\ stuck' = stuck
    BY <1>12 DEF OnFields, MaskAfterFields
  <2>2. TypeOK'
    BY <1>1, <1>2, <2>1 DEF registry, CallType
  <2>3. OnlyForm(f)
    BY <1>1, <2>1 DEF OnlyForm, Same, registry
  <2>4. MaskOK(f) => MaskOK(f)'
    BY <1>1, <1>2, <1>3, <2>1 DEF MaskOK, registry
  <2>5. f \notin hasty => OneByOne(f)'
    <3> SUFFICES ASSUME f \notin hasty PROVE OneByOne(f)'
      OBVIOUS
    <3>1. OneByOne(f)
      BY <1>2 DEF PatienceInv, Patience
    <3>2. CallsOf(f)' # {} => masked'[f] /\ ~loaded[f]
      BY <1>2, <1>7, <2>1
    <3> QED
      BY <1>1, <1>3, <3>1, <3>2 DEF OneByOne, registry
  <2>6. Own(f)'
    BY <1>1, <1>2, <1>5, <1>8, <1>11, <2>1, <2>4, <2>5, OwnIs DEF Own
  <2> QED
    BY <1>1, <1>2, <1>4, <2>2, <2>3, <2>6, MovedRemove
<1>13. CASE ~m.ok
  <2>1. stuck' = stuck \cup {f} /\ UNCHANGED <<finished, masked>>
    BY <1>13 DEF OnFields
  <2>2. TypeOK'
    BY <1>1, <1>2, <2>1 DEF registry, CallType
  <2>3. OnlyForm(f)
    BY <1>1, <2>1 DEF OnlyForm, Same, registry
  <2>4. OneByOne(f) => OneByOne(f)'
    BY <1>1, <1>3, <2>1 DEF OneByOne, registry
  <2>5. Own(f)'
    BY <1>1, <1>2, <1>5, <1>8, <1>11, <2>1, <2>4, OwnIs DEF Own
  <2> QED
    BY <1>1, <1>2, <1>4, <2>2, <2>3, <2>5, MovedRemove
<1> QED
  BY <1>12, <1>13

-----------------------------------------------------------------------------
(* Windows *)

LEMMA KeyIs ==
  ASSUME BaseInv, NEW g \in Forms, window[g] # "none"
  PROVE  /\ windowKey[g] = IF docid[g] = None THEN g ELSE docid[g]
         /\ windowKey[g] \in Ids \cup {g} /\ g \notin Ids
         /\ window[g] = "open" => winkey[g] = windowKey[g]
BY FormAssumption DEF BaseInv, TypeOK, FormOK

\* A form whose save is under way has been opened.
LEMMA SavingIs ==
  ASSUME BaseInv, NEW g \in Forms, Saving(g)
  PROVE  window[g] # "none"
BY DEF BaseInv, CallOK, Saving

\* The four parts of the invariant, after a step of some form.
LEMMA Assembled ==
  ASSUME TypeOK', CallsApart', Buttons', \A m \in calls' : CallOK(m)',
         \A g \in Forms : Own(g)',
         \A g \in Forms : g \notin hasty' => KeyOwn(g)'
  PROVE  EntityInv'
BY DEF EntityInv, BaseInv, MaskInv, PatienceInv, Patience, CreatedInv, Own

\* onBeforeDestroy of a window, with which a save may have come to its end.
LEMMA DestroyedStep ==
  ASSUME EntityInv, NEW f \in Forms, window[f] = "open", Destroyed(f),
         calls' \subseteq calls,
         \A m \in calls \ calls' : m.kind = "save" /\ docid[m.form] # None,
         UNCHANGED <<rows, docid, isNew, masked, finished, loaded, windowKey, winkey,
                     created, lost>>,
         stuck' = stuck, TypeOK',
         \A g \in Forms \ {f} : pending'[g] = pending[g],
         \A g \in Forms : g \notin hasty' => g \notin hasty,
         f \notin hasty' => pending'[f] = NoValues /\ ~Saving(f)'
  PROVE  EntityInv'
<1> USE DEF EntityInv, BaseInv, TypeOK
<1>1. /\ window' = [window EXCEPT ![f] = "closed"]
      /\ windows' = [windows EXCEPT ![winkey[f]] = None]
      /\ value' = [value EXCEPT ![f] = SetData(NoRow)]
      /\ formValue' = [formValue EXCEPT ![f] = NoValues]
      /\ typed' = [typed EXCEPT ![f] = {}]
  BY DEF Destroyed, FieldsGone
<1>2. winkey[f] = windowKey[f] /\ winkey[f] \in Ids \cup {f}
  BY KeyIs
<1>3. CallsApart'
  BY ApartRemoved
<1>4. \A m \in calls' : CallOK(m)'
  BY <1>1 DEF CallOK, CallType, Stored
<1>5. Buttons'
  BY <1>1, <1>2 DEF Buttons
<1>6. \A g : CallsOf(g)' \subseteq CallsOf(g) /\ \A m \in CallsOf(g) : m.kind # "save" => m \in CallsOf(g)'
  BY DEF CallsOf
<1>7. ASSUME NEW g \in Forms PROVE Own(g)'
  <2>1. TypedOnly(g)'
    BY <1>1 DEF FormOK, TypedOnly, NoValues
  <2>2. Waiting(g)'
    <3>1. ASSUME NEW m \in CallsOf(g)', m.kind = "defaults"
          PROVE  /\ CallsOf(g)' = {m} /\ docid'[g] = None /\ formValue'[g] = NoValues
                 /\ window'[g] = "open" => masked'[g]
      BY <1>1, <1>6, <3>1 DEF FormOK, Waiting
    <3> QED
      BY <1>6, <3>1 DEF FormOK, Waiting
  <2>3. FormOK(g)'
    <3>1. g # f => windows'[g] = windows[g] /\ window'[g] = window[g]
      BY <1>1, <1>2, FormAssumption
    <3>2. g = f => window'[g] = "closed"
      BY <1>1
    <3> QED
      BY <1>1, <2>1, <2>2, <3>1, <3>2 DEF FormOK, Stored
  <2>4. g \notin stuck' => MaskOK(g)'
    BY <1>1, <1>6 DEF MaskInv, MaskOK
  <2>5. ASSUME g \notin hasty' PROVE OneByOne(g)' /\ EditsKept(g)'
    <3>1. OneByOne(g) /\ EditsKept(g)
      BY <2>5 DEF PatienceInv, Patience
    <3>2. OneByOne(g)'
      BY <1>1, <1>6, <3>1 DEF OneByOne
    <3>3. CASE g = f
      <4>1. \A x \in Fields : pending'[g][x] = None
        BY <2>5, <3>3 DEF NoValues
      <4> QED
        BY <3>2, <4>1 DEF EditsKept
    <3>4. CASE g # f
      <4>1. /\ pending'[g] = pending[g] /\ value'[g] = value[g]
            /\ formValue'[g] = formValue[g] /\ masked'[g] = masked[g]
            /\ window'[g] = window[g]
        BY <1>1, <3>4
      <4>2. EditsKept(g)'
        BY <1>6, <3>1, <4>1 DEF EditsKept
      <4> QED
        BY <3>2, <4>2
    <3> QED
      BY <3>2, <3>3, <3>4
  <2>6. g \notin hasty' \cup lost' => CreatedOK(g)'
    BY <1>6 DEF CreatedInv, CreatedOK, Creates, CallsOf
  <2> QED
    BY <2>3, <2>4, <2>5, <2>6 DEF Own
<1>8. Alive' \subseteq Alive
  BY <1>1 DEF Alive, Saving
<1>9. ASSUME NEW g \in Forms, g \notin hasty' PROVE KeyOwn(g)'
  <2>1. KeyOwn(g)
    BY <1>9 DEF PatienceInv, Patience
  <2>2. CASE g = f
    <3>1. window'[g] = "closed" /\ g \notin Alive'
      BY <1>1, <1>9, <2>2 DEF Alive, Saving
    <3>2. \A m \in CallsOf(g)' : m.kind # "save"
      BY <1>9, <2>2 DEF Saving, CallsOf
    <3> QED
      BY <3>1, <3>2 DEF KeyOwn, Creates
  <2>3. CASE g # f
    <3>1. window'[g] = window[g]
      BY <1>1, <2>3
    <3>2. window[g] = "open" => windowKey[f] # windowKey[g]
      BY <2>1, <2>3 DEF KeyOwn, Alive
    <3>3. window[g] = "open" => windows'[windowKey[g]] = g
      BY <1>1, <1>2, <2>1, <3>2 DEF KeyOwn
    <3>4. g \in Alive' =>
            /\ window'[g] = "open"
            /\ \A h \in Alive' \ {g} : windowKey[h] # windowKey[g]
      BY <1>8, <2>1, <3>1 DEF KeyOwn
    <3>5. \A h \in Forms : window'[h] # "none" => window[h] # "none"
      BY <1>1
    <3> QED
      BY <1>6, <2>1, <3>1, <3>3, <3>4, <3>5 DEF KeyOwn, Creates
  <2> QED
    BY <2>2, <2>3
<1> QED
  BY <1>3, <1>4, <1>5, <1>7, <1>9, Assembled

LEMMA CloseWindowStep ==
  ASSUME EntityInv, NEW f \in Forms, CloseWindow(f)
  PROVE  EntityInv'
<1> USE DEF EntityInv, BaseInv, TypeOK
<1>1. /\ window[f] = "open" /\ Destroyed(f) /\ Hurry(f)
      /\ pending' = [pending EXCEPT ![f] = NoValues]
      /\ UNCHANGED <<rows, docid, isNew, shouldBeClosed, masked, finished, loaded,
                     windowKey, winkey, calls, ordered, created, lost, stuck>>
  BY DEF CloseWindow
<1>2. TypeOK'
  BY <1>1, HurryIs, NoneIs, SetDataIs DEF Destroyed, FieldsGone, CallType
<1>3. f \notin hasty' => pending'[f] = NoValues /\ ~Saving(f)'
  BY <1>1, HurryIs DEF Saving
<1> QED
  BY <1>1, <1>2, <1>3, HurryIs, DestroyedStep

\* saveAndCloseElement when nothing has changed.
LEMMA CloseUnsaved ==
  ASSUME EntityInv, NEW f \in Forms, Save(f, TRUE), Changed(f) = {}
  PROVE  EntityInv'
<1> USE DEF EntityInv, BaseInv, TypeOK
<1>1. /\ window[f] = "open" /\ Hurry(f) /\ ordered < MaxCalls /\ ordered' = ordered + 1
      /\ shouldBeClosed' = [shouldBeClosed EXCEPT ![f] = TRUE]
      /\ Close(f)
      /\ UNCHANGED <<rows, docid, isNew, masked, finished, loaded, calls,
                     windowKey, winkey, pending, created, lost>>
  BY DEF Save, Usable
<1>2. ordered' \in 0..MaxCalls
  BY <1>1, FormAssumption
<1>3. CASE windows[windowKey[f]] = None
  <2>1. stuck' = stuck \cup {f} /\ UNCHANGED <<window, windows, value, formValue, typed>>
    BY <1>1, <1>3 DEF Close
  <2>2. TypeOK'
    BY <1>1, <1>2, <2>1, HurryIs DEF CallType
  <2>3. \A g \in Forms : Same(g) /\ CallsOf(g)' = CallsOf(g)
    BY <1>1, <2>1, HurryIs DEF Same, CallsOf
  <2>4. RowsStay
    BY <1>1 DEF RowsStay, Stored
  <2>5. Own(f)'
    BY <2>3, <2>4, OwnIs, OwnKept
  <2> QED
    BY <1>1, <2>1, <2>2, <2>3, <2>4, <2>5, HurryIs, MovedNone DEF OnlyForm, registry
<1>4. CASE windows[windowKey[f]] # None
  <2>1. windowKey[f] \in Ids \cup Forms
    BY <1>1, KeyIs
  <2>2. PICK g \in Forms : g = windows[windowKey[f]]
    BY <1>4, <2>1
  <2>3. Destroyed(g) /\ stuck' = stuck
    BY <1>1, <1>4, <2>2 DEF Close
  <2>4. window[g] = "open" /\ winkey[g] = windowKey[f]
    BY <1>4, <2>1, <2>2 DEF Buttons
  <2>5. windowKey[g] = windowKey[f]
    BY <2>4, KeyIs
  <2>6. TypeOK'
    BY <1>1, <1>2, <2>3, <2>4, HurryIs, NoneIs, SetDataIs DEF Destroyed, FieldsGone, CallType
  <2>7. ASSUME g \notin hasty' PROVE pending'[g] = NoValues /\ ~Saving(g)'
    <3>1. Patience(g)
      BY <1>1, <2>4, <2>7, HurryIs DEF PatienceInv
    <3>2. g = f
      BY <1>1, <2>4, <2>5, <3>1 DEF Patience, KeyOwn, Alive
    <3>3. \A x \in Fields : pending[f][x] = None
      BY <3>1, <3>2 DEF Patience, EditsKept, Changed
    <3>4. pending[f] = NoValues
      BY <3>3 DEF NoValues, Part
    <3>5. ~Saving(f) /\ (Saving(f)' <=> Saving(f))
      BY <1>1, <2>7, <3>2, HurryIs DEF Saving
    <3> QED
      BY <1>1, <3>2, <3>4, <3>5
  <2>8. /\ \A h \in Forms \ {g} : pending'[h] = pending[h]
        /\ \A h \in Forms : h \notin hasty' => h \notin hasty
        /\ \A m \in calls \ calls' : m.kind = "save" /\ docid[m.form] # None
    BY <1>1, HurryIs
  <2> QED
    BY <1>1, <2>3, <2>4, <2>6, <2>7, <2>8, DestroyedStep
<1> QED
  BY <1>3, <1>4

LEMMA SaveStep ==
  ASSUME EntityInv, NEW f \in Forms, NEW close \in BOOLEAN, Save(f, close)
  PROVE  EntityInv'
BY SaveSent, NothingSaved, CloseUnsaved

\* What becomes of the form of a window that is shown.
LEMMA ShowStep ==
  ASSUME EntityInv, NEW f \in Forms, NEW id \in Ids \cup {None}, NEW key,
         key = IF id = None THEN f ELSE id, id # None => Stored(id), Show(f, id, key),
         UNCHANGED <<rows, shouldBeClosed, value, formValue, loaded, ordered,
                     typed, pending, created, lost, stuck>>,
         hasty' \subseteq Forms, \A g \in Forms : g \notin hasty' => g \notin hasty,
         id # None /\ Rivals(id) # {} => Rivals(id) \cup {f} \subseteq hasty'
  PROVE  EntityInv'
<1> USE DEF EntityInv, BaseInv, TypeOK
<1> DEFINE fields == Denormalized /\ id # None
<1>1. /\ window[f] = "none" /\ windows[key] = None
      /\ window' = [window EXCEPT ![f] = "open"]
      /\ docid' = [docid EXCEPT ![f] = id]
      /\ isNew' = [isNew EXCEPT ![f] = (id = None)]
      /\ windowKey' = [windowKey EXCEPT ![f] = key]
      /\ winkey' = [winkey EXCEPT ![f] = key]
      /\ windows' = [windows EXCEPT ![key] = f]
      /\ masked' = [masked EXCEPT ![f] = TRUE]
      /\ finished' = [finished EXCEPT ![f] = ~fields]
      /\ calls' = calls \cup {Load(f, id)}
           \cup (IF fields THEN {Call(f, 1, "fields", id, NoValues)} ELSE {})
  BY DEF Show, CanOpen
<1>2. key \in Ids \cup Forms /\ f \notin Ids /\ fields \in BOOLEAN
  BY FormAssumption
<1>3. PICK c : /\ c = Load(f, id)
               /\ SentAs(c, f, IF id # None THEN "load" ELSE "defaults", id, NoValues)
  BY LoadIs
<1>4. PICK d : /\ d = Call(f, 1, "fields", id, NoValues)
               /\ SentAs(d, f, "fields", id, NoValues)
  BY CallIs, NoneIs
<1>5. PICK new : new = {c} \cup (IF fields THEN {d} ELSE {})
  OBVIOUS
<1>6. calls' = calls \cup new
  BY <1>1, <1>3, <1>4, <1>5
<1>7. /\ CallType(c) /\ c.form = f /\ c.docid = id /\ ~c.ok
      /\ c.kind = IF id # None THEN "load" ELSE "defaults"
      /\ CallType(d) /\ d.form = f /\ d.docid = id /\ ~d.ok /\ d.kind = "fields"
  BY <1>3, <1>4 DEF SentAs
<1>8. \A m \in calls : m.form # f
  BY <1>1 DEF CallOK
<1>9. CallsOf(f)' = new /\ \A g : g # f => CallsOf(g)' = CallsOf(g)
  BY <1>5, <1>6, <1>7, <1>8 DEF CallsOf
<1>10. TypeOK'
  <2>1. \A m \in calls' : CallType(m)'
    BY <1>5, <1>6, <1>7 DEF CallType
  <2> QED
    BY <1>1, <1>2, <2>1
<1>11. CallsApart'
  BY <1>5, <1>6, <1>7, <1>8 DEF CallsApart, Creates
<1>12. RowsStay
  BY DEF RowsStay, Stored
<1>13. \A m \in calls' : CallOK(m)'
  BY <1>1, <1>5, <1>6, <1>7 DEF CallOK, CallType, Stored
<1>14. Buttons'
  BY <1>1, <1>2, NoneIs DEF Buttons
<1>15. Own(f)'
  <2>1. /\ formValue[f] = NoValues /\ pending[f] = NoValues /\ created[f] = 0 /\ ~loaded[f]
        /\ TypedOnly(f)
    BY <1>1 DEF FormOK
  <2>2. /\ window'[f] = "open" /\ docid'[f] = id /\ isNew'[f] = (id = None)
        /\ windowKey'[f] = key /\ winkey'[f] = key /\ windows'[key] = f /\ masked'[f]
        /\ finished'[f] = ~fields
    BY <1>1, <1>2
  <2>3. Waiting(f)'
    BY <1>5, <1>7, <1>9, <2>1, <2>2 DEF Waiting
  <2>4. TypedOnly(f)'
    BY <2>1 DEF TypedOnly
  <2>5. FormOK(f)'
    BY <2>1, <2>2, <2>3, <2>4 DEF FormOK, Stored
  <2>6. MaskOK(f)'
    BY <1>5, <1>7, <1>9, <2>2 DEF MaskOK
  <2>7. OneByOne(f)'
    BY <1>5, <1>7, <1>9, <2>1, <2>2 DEF OneByOne
  <2>8. EditsKept(f)'
    BY <2>1 DEF EditsKept, NoValues
  <2>9. CreatedOK(f)'
    BY <2>1 DEF CreatedOK
  <2> QED
    BY <2>5, <2>6, <2>7, <2>8, <2>9 DEF Own
<1>16. ASSUME NEW g \in Forms, g # f PROVE Same(g) /\ Own(g)'
  <2>1. windows'[g] = windows[g]
    BY <1>1, <1>2, <1>16, FormAssumption
  <2>2. Same(g)
    BY <1>1, <1>16, <2>1 DEF Same
  <2> QED
    BY <1>9, <1>12, <1>16, <2>2, OwnIs, OwnKept
<1>17. \A m \in calls' : Creates(m) => m \in calls /\ m.form \in Forms \ {f}
  BY <1>5, <1>6, <1>7, <1>8 DEF Creates, CallType
<1>18. Alive' \subseteq Alive \cup {f} /\ Alive \subseteq Forms
  BY <1>1, <1>5, <1>6, <1>7 DEF Alive, Saving
<1>19. ASSUME NEW g \in Alive, g # f
       PROVE  /\ windowKey'[g] = windowKey[g] /\ docid'[g] = docid[g]
              /\ windowKey[g] = IF docid[g] = None THEN g ELSE docid[g]
  <2>1. g \in Forms /\ window[g] # "none"
    BY <1>19, SavingIs DEF Alive
  <2> QED
    BY <1>1, <1>19, <2>1, KeyIs
<1>20. ASSUME NEW g \in Alive, g # f, id # None, docid[g] = id
       PROVE  g \in Rivals(id)
  BY <1>1, <1>19, <1>20, NoneIs DEF Alive, Rivals
<1>21. ASSUME NEW m \in calls, Creates(m), docid[m.form] = None, id # None
       PROVE  m.form \in Rivals(id)
  BY <1>21 DEF Creates, Saving, CallType, CallOK, FormOK, Rivals
<1>22. ASSUME f \notin hasty' PROVE KeyOwn(f)'
  <2>1. id # None => Rivals(id) = {}
    BY <1>22
  <2>2. window'[f] = "open" /\ docid'[f] = id /\ windowKey'[f] = key /\ windows'[key] = f
    BY <1>1, <1>2
  <2>3. \A m \in calls' : Creates(m) /\ m.form # f /\ docid'[m.form] = None => m.id # id
    <3>1. \A m \in calls : Creates(m) => m.id # None
      BY NoneIs DEF Creates, CallOK, Stored
    <3>2. \A g \in Forms \ {f} : docid'[g] = docid[g]
      BY <1>1
    <3> QED
      BY <1>17, <1>21, <2>1, <3>1, <3>2
  <2>4. \A g \in Alive' \ {f} : windowKey'[g] # key
    BY <1>2, <1>18, <1>19, <1>20, <2>1, FormAssumption
  <2>5. \A m \in CallsOf(f)' : ~Creates(m)
    BY <1>5, <1>7, <1>9 DEF Creates
  <2> QED
    BY <2>2, <2>3, <2>4, <2>5 DEF KeyOwn, Creates
<1>23. ASSUME NEW g \in Forms, g # f, g \notin hasty' PROVE KeyOwn(g)'
  <2>1. KeyOwn(g) /\ Same(g)
    BY <1>16, <1>23 DEF PatienceInv, Patience
  <2>2. window[g] = "open" => windowKey[g] \in Ids \cup Forms /\ windowKey[g] # key
    BY <1>1, <1>23, <2>1, KeyIs, NoneIs DEF KeyOwn
  <2>3. window[g] = "open" => windows'[windowKey[g]] = g
    BY <1>1, <1>2, <2>1, <2>2 DEF KeyOwn
  <2>4. \A h \in Forms \ {f} : docid'[h] = docid[h] /\ window'[h] = window[h]
    BY <1>1
  <2>5. \A m \in calls' : Creates(m) /\ m.form # g /\ docid'[m.form] = None /\ window[g] = "open"
          => m.id # docid[g]
    BY <1>17, <2>1, <2>4 DEF KeyOwn
  <2>6. g \in Alive' =>
          /\ window'[g] = "open"
          /\ \A h \in Alive' \ {g} : windowKey'[h] # windowKey'[g]
    <3> SUFFICES ASSUME g \in Alive'
                 PROVE  /\ window'[g] = "open"
                        /\ \A h \in Alive' \ {g} : windowKey'[h] # windowKey'[g]
      OBVIOUS
    <3>1. g \in Alive /\ window[g] = "open" /\ window'[g] = "open"
      BY <1>18, <1>23, <2>1 DEF KeyOwn, Same
    <3>2. windowKey'[f] = key
      BY <1>1
    <3> QED
      BY <1>18, <1>19, <1>23, <2>1, <2>2, <3>1, <3>2 DEF KeyOwn, Same
  <2>7. ASSUME NEW m \in CallsOf(g)', Creates(m), docid'[g] = None,
               NEW h \in Forms \ {g}, window'[h] # "none"
        PROVE  docid'[h] # m.id
    <3>1. m \in calls /\ m \in CallsOf(g) /\ m.form = g /\ docid[g] = None
      BY <1>9, <1>23, <2>1, <2>7 DEF CallsOf, Same
    <3>2. CASE h = f
      <4>1. m.id # None
        BY <2>7, <3>1, NoneIs DEF Creates, CallOK, Stored
      <4>2. id = None
        BY <1>21, <1>23, <2>7, <3>1
      <4> QED
        BY <1>1, <3>2, <4>1, <4>2
    <3>3. CASE h # f
      BY <2>1, <2>4, <2>7, <3>1, <3>3 DEF KeyOwn
    <3> QED
      BY <3>2, <3>3
  <2> QED
    BY <2>1, <2>3, <2>5, <2>6, <2>7 DEF KeyOwn, Same, Creates
<1> QED
  BY <1>10, <1>11, <1>13, <1>14, <1>15, <1>16, <1>22, <1>23, Assembled

LEMMA OpenRowStep ==
  ASSUME EntityInv, NEW f \in Forms, NEW i \in Ids, OpenRow(f, i)
  PROVE  EntityInv'
<1>1. /\ Stored(i) /\ Show(f, i, i)
      /\ hasty' = IF Rivals(i) = {} THEN hasty ELSE hasty \cup Rivals(i) \cup {f}
      /\ UNCHANGED <<rows, shouldBeClosed, value, formValue, loaded, ordered,
                     typed, pending, created, lost, stuck>>
  BY DEF OpenRow, Stored
<1>2. hasty' \subseteq Forms /\ \A g \in Forms : g \notin hasty' => g \notin hasty
  BY <1>1 DEF EntityInv, BaseInv, TypeOK, Rivals
<1> QED
  BY <1>1, <1>2, NoneIs, ShowStep

LEMMA OpenNewStep ==
  ASSUME EntityInv, NEW f \in Forms, OpenNew(f)
  PROVE  EntityInv'
<1>1. /\ Show(f, None, f)
      /\ UNCHANGED <<rows, shouldBeClosed, value, formValue, loaded, ordered, history>>
  BY DEF OpenNew
<1>2. hasty' \subseteq Forms /\ \A g \in Forms : g \notin hasty' => g \notin hasty
  BY <1>1 DEF EntityInv, BaseInv, TypeOK, history
<1> QED
  BY <1>1, <1>2, ShowStep DEF history

-----------------------------------------------------------------------------
(* onSavedElement *)

\* What a save that has been carried out leaves of its form's calls and edits.
LEMMA SavedIs ==
  ASSUME EntityInv, NEW m \in calls, m.kind = "save", m.ok
  PROVE  /\ m.form \in Forms /\ m \in CallsOf(m.form) /\ m.form \in Alive
         /\ window[m.form] \in {"open", "closed"}
         /\ Stored(m.id) /\ m.id # None
         /\ m.docid # None => m.docid = docid[m.form]
         /\ \A n \in CallsOf(m.form) : n.kind # "defaults"
         /\ m.form \notin hasty =>
              /\ window[m.form] = "open" /\ CallsOf(m.form) = {m}
              /\ pending[m.form] = NoValues
<1> USE DEF EntityInv, BaseInv, TypeOK
<1> DEFINE f == m.form
<1>1. /\ f \in Forms /\ m \in CallsOf(f) /\ f \in Alive
      /\ window[f] \in {"open", "closed"} /\ Stored(m.id) /\ m.id # None
      /\ m.docid # None => m.docid = docid[f]
  BY NoneIs DEF CallType, CallOK, CallsOf, Alive, Saving, Stored
<1>2. \A n \in CallsOf(f) : n.kind # "defaults"
  BY <1>1 DEF FormOK, Waiting
<1>3. ASSUME f \notin hasty
      PROVE  window[f] = "open" /\ CallsOf(f) = {m} /\ pending[f] = NoValues
  <2>1. Patience(f)
    BY <1>1, <1>3 DEF PatienceInv
  <2>2. \A x \in Fields : pending[f][x] = None
    BY <1>1, <2>1 DEF Patience, EditsKept
  <2>3. pending[f] = NoValues
    BY <1>1, <2>2 DEF NoValues, Part
  <2> QED
    BY <1>1, <2>1, <2>3 DEF Patience, KeyOwn, OneByOne
<1> QED
  BY <1>1, <1>2, <1>3

\* The answer to a save raises in a callback of a stored row's form.
LEMMA SavedRaises ==
  ASSUME EntityInv, NEW m \in calls, m.kind = "save", m.ok, docid[m.form] # None,
         calls' = calls \ {m}, stuck' = stuck \cup {m.form},
         UNCHANGED <<rows, form, registry, ordered, typed, pending, created, hasty, lost>>
  PROVE  EntityInv'
<1> USE DEF EntityInv, BaseInv, TypeOK
<1> DEFINE f == m.form
<1>1. f \in Forms /\ m \in CallsOf(f) /\ \A n \in CallsOf(f) : n.kind # "defaults"
  BY SavedIs
<1>2. CallsOf(f)' = CallsOf(f) \ {m}
  BY <1>1 DEF CallsOf
<1>3. TypeOK'
  BY <1>1 DEF form, registry, CallType
<1>4. OnlyForm(f) /\ RowsStay
  BY DEF OnlyForm, Same, RowsStay, Stored, form, registry
<1>5. FormOK(f)'
  <2>1. TypedOnly(f)'
    BY <1>1 DEF FormOK, TypedOnly, form
  <2>2. Waiting(f)'
    BY <1>1, <1>2 DEF FormOK, Waiting, form
  <2> QED
    BY <1>1, <2>1, <2>2 DEF FormOK, Stored, form, registry
<1>6. OneByOne(f) => OneByOne(f)'
  BY <1>2 DEF OneByOne, form, registry
<1>7. EditsKept(f) => EditsKept(f)'
  BY <1>2 DEF EditsKept, form, registry
<1>8. CreatedOK(f) => CreatedOK(f)'
  BY DEF CreatedOK, form
<1>9. Own(f)'
  BY <1>1, <1>5, <1>6, <1>7, <1>8, OwnIs DEF Own
<1> QED
  BY <1>1, <1>3, <1>4, <1>9, MovedRemove DEF form

\* ... or refreshes it.
LEMMA SavedRefreshes ==
  ASSUME EntityInv, NEW m \in calls, m.kind = "save", m.ok, docid[m.form] # None,
         window[m.form] = "open",
         masked' = [masked EXCEPT ![m.form] = TRUE],
         calls' = (calls \ {m}) \cup {Load(m.form, docid[m.form])},
         UNCHANGED <<rows, docid, isNew, shouldBeClosed, value, formValue, finished, loaded,
                     registry, ordered, history>>
  PROVE  EntityInv'
<1> USE DEF EntityInv, BaseInv, TypeOK
<1>1. PICK f \in Forms : /\ f = m.form /\ m \in CallsOf(f) /\ docid[f] \in Ids
                         /\ \A n \in CallsOf(f) : n.kind # "defaults"
  BY SavedIs
<1>2. PICK c : c = Load(f, docid[f]) /\ SentAs(c, f, "load", docid[f], NoValues)
  BY <1>1, LoadIs
<1>3. /\ calls' = (calls \ {m}) \cup {c} /\ CallType(c) /\ c.form = f /\ c.kind = "load"
      /\ c.docid = docid[f] /\ ~c.ok
  BY <1>1, <1>2 DEF SentAs
<1>4. CallsOf(f)' = (CallsOf(f) \ {m}) \cup {c}
  BY <1>1, <1>3 DEF CallsOf
<1>5. TypeOK'
  <2>1. \A n \in calls' : CallType(n)'
    BY <1>3 DEF CallType
  <2> QED
    BY <2>1 DEF registry, history
<1>6. OnlyForm(f) /\ RowsStay
  BY <1>1 DEF OnlyForm, Same, RowsStay, Stored, registry, history
<1>7. CallsApart'
  BY <1>3 DEF CallsApart, Creates
<1>8. CallOK(c)'
  BY <1>1, <1>3 DEF CallOK, registry
<1>9. Moves(f, {m}, {c})
  BY <1>1, <1>3, <1>6, <1>8 DEF Moves, Creates, history
<1>10. FormOK(f)'
  <2>1. TypedOnly(f)'
    BY <1>1 DEF FormOK, TypedOnly, history
  <2>2. Waiting(f)'
    BY <1>1, <1>3, <1>4 DEF FormOK, Waiting
  <2> QED
    BY <1>1, <2>1, <2>2 DEF FormOK, Stored, registry, history
<1>11. MaskOK(f) => MaskOK(f)'
  BY <1>1, <1>3, <1>4 DEF MaskOK, registry
<1>12. f \notin hasty => OneByOne(f)' /\ EditsKept(f)'
  <2>1. f \notin hasty => CallsOf(f) = {m} /\ pending[f] = NoValues
    BY <1>1, SavedIs
  <2>2. f \notin hasty => CallsOf(f)' = {c}
    BY <1>4, <2>1
  <2>3. f \notin hasty => \A x \in Fields : pending'[f][x] = None
    BY <2>1 DEF NoValues, history
  <2>4. masked'[f]
    BY <1>1
  <2> QED
    BY <1>3, <2>2, <2>3, <2>4 DEF OneByOne, EditsKept
<1>13. CreatedOK(f) => CreatedOK(f)'
  BY <1>1 DEF CreatedOK, history
<1>14. Own(f)'
  BY <1>1, <1>10, <1>11, <1>12, <1>13, OwnIs DEF Own, history
<1> QED
  BY <1>1, <1>5, <1>7, <1>9, <1>14, Moved

\* A form that stood for a row before its save was answered keeps its key.
LEMMA OnSavedStored ==
  ASSUME EntityInv, NEW m \in calls, OnSaved(m), docid[m.form] # None
  PROVE  EntityInv'
<1> USE DEF EntityInv, BaseInv, TypeOK
<1>1. PICK f \in Forms : f = m.form
  BY SavedIs DEF OnSaved
<1>2. PICK old \in Ids : old = docid[f] /\ old = windowKey[f] /\ old = SavedId(m)
  <2>1. docid[f] \in Ids /\ window[f] # "none"
    BY <1>1, SavedIs DEF OnSaved
  <2> QED
    BY <1>1, <2>1, KeyIs DEF SavedId
<1>3. PICK win \in Forms \cup {None} : win = windows[old]
  OBVIOUS
<1>4. win # None => win \in Forms /\ window[win] = "open" /\ winkey[win] = old
  BY <1>3 DEF Buttons
<1>5. PICK raises \in BOOLEAN :
        raises <=> \/ win = None /\ (isNew[f] \/ shouldBeClosed[f])
                   \/ window[f] = "closed" /\ ~shouldBeClosed[f]
  OBVIOUS
<1>6. /\ m.kind = "save" /\ m.ok
      /\ docid' = [docid EXCEPT ![f] = old]
      /\ windowKey' = [windowKey EXCEPT ![f] = old]
      /\ winkey' = IF win = None THEN winkey
                   ELSE [winkey EXCEPT ![win] = IF isNew[f] THEN old ELSE @]
      /\ IF raises
         THEN /\ stuck' = stuck \cup {f}
              /\ calls' = calls \ {m} /\ windows' = [windows EXCEPT ![old] = None, ![old] = win]
              /\ UNCHANGED <<window, masked, value, formValue, typed>>
         ELSE IF shouldBeClosed[f]
         THEN /\ window' = [window EXCEPT ![win] = "closed"]
              /\ windows' = [[windows EXCEPT ![old] = None, ![old] = win]
                               EXCEPT ![winkey'[win]] = None]
              /\ FieldsGone(win)
              /\ calls' = calls \ {m} /\ UNCHANGED <<masked, stuck>>
         ELSE /\ masked' = [masked EXCEPT ![f] = TRUE]
              /\ calls' = (calls \ {m}) \cup {Load(f, old)}
              /\ windows' = [windows EXCEPT ![old] = None, ![old] = win]
              /\ UNCHANGED <<window, value, formValue, typed, stuck>>
      /\ UNCHANGED <<rows, isNew, shouldBeClosed, finished, loaded,
                     ordered, pending, created, hasty, lost>>
  BY <1>1, <1>2, <1>3, <1>5 DEF OnSaved
<1>7. docid' = docid /\ windowKey' = windowKey
  BY <1>1, <1>2, <1>6
<1>8. winkey' = winkey
  BY <1>4, <1>6
<1>9. [windows EXCEPT ![old] = None, ![old] = win] = windows
  BY <1>3
<1>10. CASE raises
  <2>1. /\ stuck' = stuck \cup {f} /\ calls' = calls \ {m} /\ windows' = windows
        /\ UNCHANGED <<window, masked, value, formValue, typed>>
    BY <1>6, <1>9, <1>10
  <2> QED
    BY <1>1, <1>6, <1>7, <1>8, <2>1, SavedRaises DEF form, registry
<1>11. CASE ~raises /\ shouldBeClosed[f]
  <2>1. win \in Forms /\ window[win] = "open" /\ winkey[win] = old
    BY <1>4, <1>5, <1>11
  <2>2. /\ window' = [window EXCEPT ![win] = "closed"]
        /\ windows' = [windows EXCEPT ![winkey[win]] = None]
        /\ FieldsGone(win)
        /\ calls' = calls \ {m} /\ UNCHANGED <<masked, stuck>>
    BY <1>6, <1>8, <1>9, <1>11
  <2>3. Destroyed(win)
    BY <2>2 DEF Destroyed
  <2>4. TypeOK'
    BY <1>6, <1>7, <1>8, <2>1, <2>2, NoneIs DEF FieldsGone, CallType
  <2>5. ASSUME win \notin hasty PROVE pending[win] = NoValues /\ ~Saving(win)'
    <3>1. windowKey[win] = old
      BY <2>1, KeyIs
    <3>2. Patience(win)
      BY <2>1, <2>5 DEF PatienceInv
    <3>3. f \in Alive
      BY <1>1, <1>6, SavedIs
    <3>4. win = f
      BY <1>2, <2>1, <3>1, <3>2, <3>3 DEF Patience, KeyOwn, Alive
    <3>5. CallsOf(f) = {m} /\ pending[f] = NoValues
      BY <1>1, <1>6, <2>5, <3>4, SavedIs
    <3> QED
      BY <2>2, <3>4, <3>5 DEF Saving, CallsOf
  <2>6. \A n \in calls \ calls' : n.kind = "save" /\ docid[n.form] # None
    BY <1>6, <2>2
  <2> QED
    BY <1>6, <1>7, <1>8, <2>1, <2>2, <2>3, <2>4, <2>5, <2>6, DestroyedStep
<1>12. CASE ~raises /\ ~shouldBeClosed[f]
  <2>1. window[f] = "open"
    BY <1>1, <1>5, <1>6, <1>12, SavedIs
  <2>2. /\ masked' = [masked EXCEPT ![f] = TRUE]
        /\ calls' = (calls \ {m}) \cup {Load(f, docid[f])}
        /\ windows' = windows
        /\ UNCHANGED <<window, value, formValue, typed, stuck>>
    BY <1>2, <1>6, <1>9, <1>12
  <2> QED
    BY <1>1, <1>6, <1>7, <1>8, <2>1, <2>2, SavedRefreshes DEF registry, history
<1> QED
  BY <1>10, <1>11, <1>12

\* The keys of other forms, when a form takes that of the row it has created.
LEMMA KeyTaken ==
  ASSUME EntityInv, NEW m \in calls, Creates(m), docid[m.form] = None,
         docid' = [docid EXCEPT ![m.form] = m.id],
         windowKey' = [windowKey EXCEPT ![m.form] = m.id],
         \A k \in Ids \cup Forms : k \notin {m.form, m.id} => windows'[k] = windows[k],
         \A n \in calls' : Creates(n) \/ n.form # m.form => n \in calls,
         Alive' \subseteq Alive,
         \A h \in Forms : window'[h] # "none" => window[h] # "none",
         NEW g \in Forms, g # m.form, window'[g] = window[g], g \notin hasty
  PROVE  KeyOwn(g)'
<1> USE DEF EntityInv, BaseInv, TypeOK
<1>1. PICK f \in Forms : f = m.form /\ f \in Alive
  BY SavedIs DEF Creates
<1>2. KeyOwn(g) /\ docid'[g] = docid[g] /\ windowKey'[g] = windowKey[g]
  BY <1>1 DEF PatienceInv, Patience
<1>3. docid'[f] = m.id /\ windowKey'[f] = m.id /\ m.id \in Ids
  BY <1>1 DEF Creates, CallOK, Stored
<1>4. window[g] = "open" => m.id # docid[g]
  BY <1>1, <1>2 DEF KeyOwn
<1>5. window[g] = "open" =>
        windowKey[g] \in Ids \cup Forms /\ windowKey[g] # f /\ windowKey[g] # m.id
  BY <1>1, <1>3, <1>4, KeyIs, FormAssumption
<1>6. window[g] = "open" => windows'[windowKey[g]] = g
  BY <1>1, <1>2, <1>5 DEF KeyOwn
<1>7. \A n \in calls' : Creates(n) /\ n.form # g /\ docid'[n.form] = None =>
        n \in calls /\ docid[n.form] = None
  BY <1>1 DEF CallType
<1>8. g \in Alive' =>
        /\ window'[g] = "open"
        /\ \A h \in Alive' \ {g} : windowKey'[h] # windowKey'[g]
  BY <1>1, <1>2, <1>3, <1>5 DEF KeyOwn, Alive
<1>9. ASSUME NEW n \in CallsOf(g)', Creates(n), docid[g] = None,
             NEW h \in Forms \ {g}, window'[h] # "none"
      PROVE  docid'[h] # n.id
  <2>1. n \in calls /\ n \in CallsOf(g) /\ n # m
    BY <1>9 DEF CallsOf
  <2>2. CASE h = f
    BY <1>3, <1>9, <2>1, <2>2 DEF CallsApart
  <2>3. CASE h # f
    BY <1>1, <1>2, <1>9, <2>1, <2>3 DEF KeyOwn
  <2> QED
    BY <2>2, <2>3
<1> QED
  BY <1>2, <1>4, <1>6, <1>7, <1>8, <1>9 DEF KeyOwn, Creates

\* Only the form moves that takes the key of its new row.
Takes(f, m) ==
  /\ m.form = f /\ Creates(m) /\ docid[f] = None
  /\ docid' = [docid EXCEPT ![f] = m.id] /\ windowKey' = [windowKey EXCEPT ![f] = m.id]
  /\ OnlyForm(f) /\ \A k \in Ids \cup Forms : k \notin {f, m.id} => windows'[k] = windows[k]
  /\ UNCHANGED <<rows, hasty>>

LEMMA CreatedMoved ==
  ASSUME EntityInv, NEW f \in Forms, NEW m \in calls, Takes(f, m),
         calls \ {m} \subseteq calls',
         \A n \in calls' : \/ n \in calls /\ n # m
                           \/ n.form = f /\ n.kind = "load" /\ CallOK(n)',
         window'[f] \in {window[f], "closed"},
         TypeOK', Buttons', Own(f)', f \notin hasty => KeyOwn(f)'
  PROVE  EntityInv'
<1> USE DEF EntityInv, BaseInv, TypeOK, Takes
<1>1. /\ window[f] # "none" /\ m \in CallsOf(f)
      /\ \A n \in CallsOf(f) : n.docid = None
  BY DEF Creates, CallOK, CallsOf
<1>2. RowsStay
  BY DEF RowsStay, Stored
<1>3. \A g : g # f => CallsOf(g)' = CallsOf(g)
  BY DEF CallsOf
<1>4. CallsApart'
  BY DEF CallsApart, Creates
<1>5. ASSUME NEW n \in calls, n # m PROVE CallOK(n)'
  <2>1. CallOK(n) /\ n.form \in Forms /\ (n.form = f => n.docid = None)
    BY <1>1, <1>5 DEF CallType, CallsOf
  <2>2. window'[n.form] # "none"
    BY <2>1 DEF OnlyForm, Same, CallOK
  <2>3. n.form # f => docid'[n.form] = docid[n.form]
    BY <2>1
  <2> QED
    BY <1>2, <2>1, <2>2, <2>3 DEF CallOK, RowsStay
<1>6. \A n \in calls' : CallOK(n)'
  BY <1>5
<1>7. ASSUME NEW g \in Forms, g # f PROVE Own(g)'
  BY <1>2, <1>3, <1>7, OwnIs, OwnKept DEF OnlyForm
<1>8. Alive' \subseteq Alive
  <2>1. \A g \in Forms : window'[g] = "open" => window[g] = "open"
    BY DEF OnlyForm, Same
  <2>2. \A g \in Forms : Saving(g)' => Saving(g)
    BY DEF Saving
  <2> QED
    BY <2>1, <2>2 DEF Alive
<1>9. \A h \in Forms : window'[h] # "none" => window[h] # "none"
  BY <1>1 DEF OnlyForm, Same
<1>10. \A n \in calls' : Creates(n) \/ n.form # m.form => n \in calls
  BY DEF Creates
<1>11. ASSUME NEW g \in Forms, g # f, g \notin hasty' PROVE KeyOwn(g)'
  <2>1. window'[g] = window[g]
    BY <1>11 DEF OnlyForm, Same
  <2> QED
    BY <1>8, <1>9, <1>10, <1>11, <2>1, KeyTaken
<1> QED
  BY <1>4, <1>6, <1>7, <1>11, Assembled

\* What is known of a form whose save has created its row.
LEMMA CreatedIs ==
  ASSUME EntityInv, NEW m \in calls, m.kind = "save", m.ok, docid[m.form] = None
  PROVE  /\ m.form \in Forms /\ m \in CallsOf(m.form) /\ Creates(m)
         /\ m.id \in Ids /\ Stored(m.id) /\ m.id # None
         /\ isNew[m.form] /\ ~loaded[m.form] /\ windowKey[m.form] = m.form
         /\ window[m.form] \in {"open", "closed"}
         /\ windows[m.form] = IF window[m.form] = "open" THEN m.form ELSE None
         /\ \A n \in CallsOf(m.form) : n.kind = "save"
         /\ m.form \notin hasty =>
              /\ window[m.form] = "open" /\ CallsOf(m.form) = {m}
              /\ pending[m.form] = NoValues
<1> USE DEF EntityInv, BaseInv, TypeOK
<1>1. /\ m.form \in Forms /\ m \in CallsOf(m.form)
      /\ window[m.form] \in {"open", "closed"}
      /\ Stored(m.id) /\ m.id # None
      /\ m.docid # None => m.docid = docid[m.form]
      /\ \A n \in CallsOf(m.form) : n.kind # "defaults"
  BY SavedIs
<1>2. Creates(m) /\ m.id \in Ids /\ isNew[m.form] /\ ~loaded[m.form]
  BY <1>1 DEF Creates, Stored, FormOK
<1>3. windowKey[m.form] = m.form
  BY <1>1, KeyIs
<1>4. window[m.form] = "open" => windows[m.form] = m.form
  BY <1>1 DEF FormOK
<1>5. windows[m.form] # None => windows[m.form] = m.form
  <2>1. PICK w : w = windows[m.form]
    OBVIOUS
  <2>2. w # None => w \in Forms /\ window[w] = "open" /\ winkey[w] = m.form
    BY <1>1, <2>1 DEF Buttons
  <2>3. w # None => m.form \in Ids \cup {w}
    BY <2>2, KeyIs
  <2> QED
    BY <1>1, <2>1, <2>3, FormAssumption
<1>6. windows[m.form] = IF window[m.form] = "open" THEN m.form ELSE None
  BY <1>1, <1>4, <1>5, NoneIs DEF Buttons
<1>7. \A n \in CallsOf(m.form) : n.kind = "save"
  BY <1>1 DEF CallOK, CallType, CallsOf
<1> QED
  BY <1>1, <1>2, <1>3, <1>6, <1>7, SavedIs

\* A form whose save has created its row goes by the key of the row.
LEMMA OnSavedCreated ==
  ASSUME EntityInv, NEW m \in calls, OnSaved(m), docid[m.form] = None
  PROVE  EntityInv'
<1> USE DEF EntityInv, BaseInv, TypeOK
<1>1. PICK f : f = m.form
  OBVIOUS
<1>2. PICK id : id = m.id
  OBVIOUS
<1>3. /\ m.kind = "save" /\ m.ok /\ f \in Forms /\ m \in CallsOf(f) /\ Creates(m)
      /\ id \in Ids /\ Stored(id) /\ id # None
      /\ isNew[f] /\ ~loaded[f] /\ windowKey[f] = f
      /\ window[f] \in {"open", "closed"}
      /\ windows[f] = IF window[f] = "open" THEN f ELSE None
      /\ \A n \in CallsOf(f) : n.kind = "save"
      /\ f \notin hasty => window[f] = "open" /\ CallsOf(f) = {m} /\ pending[f] = NoValues
  BY <1>1, <1>2, CreatedIs DEF OnSaved
<1>4. f \notin Ids /\ f # None /\ f # id
  BY <1>3, FormAssumption
<1>5. PICK moved : moved = [windows EXCEPT ![f] = None, ![id] = windows[f]]
  OBVIOUS
<1>6. /\ docid' = [docid EXCEPT ![f] = id]
      /\ windowKey' = [windowKey EXCEPT ![f] = id]
      /\ winkey' = IF window[f] = "open" THEN [winkey EXCEPT ![f] = id] ELSE winkey
      /\ IF window[f] = "closed"
         THEN /\ stuck' = stuck \cup {f}
              /\ calls' = calls \ {m} /\ windows' = moved
              /\ UNCHANGED <<window, masked, value, formValue, typed>>
         ELSE IF shouldBeClosed[f]
         THEN /\ window' = [window EXCEPT ![f] = "closed"]
              /\ windows' = [moved EXCEPT ![id] = None]
              /\ FieldsGone(f)
              /\ calls' = calls \ {m} /\ UNCHANGED <<masked, stuck>>
         ELSE /\ masked' = [masked EXCEPT ![f] = TRUE]
              /\ calls' = (calls \ {m}) \cup {Load(f, id)}
              /\ windows' = moved /\ UNCHANGED <<window, value, formValue, typed, stuck>>
      /\ UNCHANGED <<rows, isNew, shouldBeClosed, finished, loaded,
                     ordered, pending, created, hasty, lost>>
  <2>1. SavedId(m) = id
    BY <1>1, <1>2 DEF SavedId
  <2>2. CASE window[f] = "closed"
    BY <1>1, <1>3, <1>4, <1>5, <2>1, <2>2 DEF OnSaved
  <2>3. CASE window[f] = "open"
    <3>1. winkey' = [winkey EXCEPT ![f] = id] /\ winkey'[f] = id
      BY <1>1, <1>3, <1>4, <2>1, <2>3 DEF OnSaved
    <3> QED
      BY <1>1, <1>3, <1>4, <1>5, <2>1, <2>3, <3>1 DEF OnSaved
  <2> QED
    BY <1>3, <2>2, <2>3
<1>7. moved \in [Ids \cup Forms -> Forms \cup {None}]
      /\ moved[f] = None /\ moved[id] = windows[f]
      /\ \A k \in Ids \cup Forms : k \notin {f, id} => moved[k] = windows[k]
  BY <1>3, <1>4, <1>5
<1>8. \A k \in Ids \cup Forms : k # f => windows[k] # f
  BY <1>3, <1>4, KeyIs DEF Buttons
<1>9. OnlyForm(f) /\ \A k \in Ids \cup Forms : k \notin {f, id} => windows'[k] = windows[k]
  <2>1. \A k \in Ids \cup Forms : k \notin {f, id} => windows'[k] = windows[k]
    BY <1>3, <1>6, <1>7
  <2>2. ASSUME NEW g \in Forms \ {f} PROVE Same(g)
    <3>1. windows'[g] = windows[g]
      BY <1>3, <2>1, FormAssumption
    <3>2. /\ docid'[g] = docid[g] /\ windowKey'[g] = windowKey[g] /\ winkey'[g] = winkey[g]
          /\ window'[g] = window[g] /\ masked'[g] = masked[g]
      BY <1>6
    <3>3. value'[g] = value[g] /\ formValue'[g] = formValue[g] /\ typed'[g] = typed[g]
      BY <1>6 DEF FieldsGone
    <3> QED
      BY <1>6, <3>1, <3>2, <3>3 DEF Same
  <2> QED
    BY <2>1, <2>2 DEF OnlyForm
<1>10. docid'[f] = id /\ windowKey'[f] = id
  BY <1>3, <1>6
<1>11. Takes(f, m)
  BY <1>1, <1>2, <1>3, <1>6, <1>9 DEF Takes
\* What the cases have in common.
<1>12. ASSUME Waiting(f)', TypedOnly(f)', window'[f] = "open" => winkey'[f] = id,
              window'[f] # "none", f \notin stuck' => MaskOK(f)',
              f \notin hasty => OneByOne(f)' /\ window[f] = "open"
       PROVE  Own(f)'
  <2>1. FormOK(f)'
    BY <1>3, <1>6, <1>10, <1>12 DEF FormOK, Stored
  <2>2. f \notin hasty => \A x \in Fields : pending'[f][x] = None
    BY <1>3, <1>6 DEF NoValues
  <2>3. f \notin hasty => EditsKept(f)'
    BY <2>2 DEF EditsKept
  <2>4. CreatedOK(f) => CreatedOK(f)'
    BY <1>3, <1>6, <1>10 DEF CreatedOK
  <2> QED
    BY <1>3, <1>6, <1>12, <2>1, <2>3, <2>4, OwnIs DEF Own
<1>13. CASE window[f] = "closed"
  <2>1. /\ stuck' = stuck \cup {f} /\ calls' = calls \ {m} /\ windows' = moved
        /\ winkey' = winkey
        /\ UNCHANGED <<window, masked, value, formValue, typed>>
    BY <1>6, <1>13
  <2>2. TypeOK'
    BY <1>3, <1>6, <1>7, <2>1 DEF CallType
  <2>3. Buttons'
    BY <1>3, <1>7, <1>13, <2>1 DEF Buttons
  <2>4. CallsOf(f)' \subseteq CallsOf(f)
    BY <2>1 DEF CallsOf
  <2>5. Waiting(f)'
    BY <1>3, <2>4 DEF Waiting
  <2>6. TypedOnly(f)'
    BY <1>3, <1>6, <2>1 DEF FormOK, TypedOnly
  <2>7. Own(f)'
    BY <1>3, <1>12, <1>13, <2>1, <2>5, <2>6
  <2>8. \A n \in calls' : (n \in calls /\ n # m) \/ (n.form = f /\ n.kind = "load" /\ CallOK(n)')
    BY <2>1
  <2>9. calls \ {m} \subseteq calls' /\ window'[f] \in {window[f], "closed"}
    BY <2>1
  <2>10. f \notin hasty => KeyOwn(f)'
    BY <1>3, <1>13
  <2> HIDE DEF EntityInv, BaseInv, TypeOK
  <2> QED
    BY <1>3, <1>11, <2>2, <2>3, <2>7, <2>8, <2>9, <2>10, CreatedMoved
<1>14. CASE window[f] = "open" /\ shouldBeClosed[f]
  <2>1. /\ window' = [window EXCEPT ![f] = "closed"]
        /\ windows' = [moved EXCEPT ![id] = None]
        /\ FieldsGone(f) /\ winkey' = [winkey EXCEPT ![f] = id]
        /\ calls' = calls \ {m} /\ UNCHANGED <<masked, stuck>>
    BY <1>6, <1>14
  <2>2. TypeOK'
    BY <1>3, <1>6, <1>7, <2>1, NoneIs, SetDataIs DEF CallType, FieldsGone
  <2>3. Buttons'
    BY <1>3, <1>4, <1>7, <1>8, <2>1 DEF Buttons
  <2>4. CallsOf(f)' \subseteq CallsOf(f) \ {m}
    BY <2>1 DEF CallsOf
  <2>5. Waiting(f)'
    BY <1>3, <2>4 DEF Waiting
  <2>6. TypedOnly(f)'
    BY <1>3, <2>1 DEF FieldsGone, TypedOnly, NoValues
  <2>7. window'[f] = "closed" /\ MaskOK(f)'
    BY <1>3, <2>1 DEF MaskOK
  <2>8. f \notin hasty => CallsOf(f)' = {}
    BY <1>3, <2>4
  <2>9. f \notin hasty => OneByOne(f)'
    BY <2>8 DEF OneByOne
  <2>10. Own(f)'
    BY <1>3, <1>12, <2>5, <2>6, <2>7, <2>9
  <2>11. f \notin hasty => KeyOwn(f)'
    BY <2>7, <2>8 DEF KeyOwn, Alive, Saving, CallsOf
  <2>12. \A n \in calls' : (n \in calls /\ n # m) \/ (n.form = f /\ n.kind = "load" /\ CallOK(n)')
    BY <2>1
  <2>13. calls \ {m} \subseteq calls' /\ window'[f] \in {window[f], "closed"}
    BY <2>1, <2>7
  <2> HIDE DEF EntityInv, BaseInv, TypeOK
  <2> QED
    BY <1>3, <1>11, <2>2, <2>3, <2>10, <2>11, <2>12, <2>13, CreatedMoved
<1>15. CASE window[f] = "open" /\ ~shouldBeClosed[f]
  <2>1. /\ masked' = [masked EXCEPT ![f] = TRUE]
        /\ calls' = (calls \ {m}) \cup {Load(f, id)}
        /\ windows' = moved /\ winkey' = [winkey EXCEPT ![f] = id]
        /\ UNCHANGED <<window, value, formValue, typed, stuck>>
    BY <1>6, <1>15
  <2>2. PICK c : c = Load(f, id) /\ SentAs(c, f, "load", id, NoValues)
    BY <1>3, LoadIs
  <2>3. /\ calls' = (calls \ {m}) \cup {c} /\ CallType(c) /\ c.form = f /\ c.kind = "load"
        /\ c.docid = id /\ ~c.ok
    BY <2>1, <2>2 DEF SentAs
  <2>4. TypeOK'
    <3>1. \A n \in calls' : CallType(n)'
      BY <2>3 DEF CallType
    <3> QED
      BY <1>3, <1>6, <1>7, <2>1, <3>1
  <2>5. /\ windows'[f] = None /\ windows'[id] = f /\ winkey'[f] = id /\ window'[f] = "open"
        /\ masked'[f]
    BY <1>3, <1>7, <1>15, <2>1
  <2>6. Buttons'
    BY <1>3, <1>4, <1>7, <1>8, <2>1, <2>5 DEF Buttons
  <2>7. CallsOf(f)' = (CallsOf(f) \ {m}) \cup {c}
    BY <2>3 DEF CallsOf
  <2>8. Waiting(f)'
    BY <1>3, <2>3, <2>7 DEF Waiting
  <2>9. TypedOnly(f)'
    BY <1>3, <1>6, <2>1 DEF FormOK, TypedOnly
  <2>10. f \notin stuck' => MaskOK(f)'
    <3>1. f \notin stuck => finished[f]
      BY <1>3, <1>15 DEF MaskInv, MaskOK
    <3> QED
      BY <1>6, <2>1, <2>3, <2>7, <3>1 DEF MaskOK
  <2>11. f \notin hasty => CallsOf(f)' = {c}
    BY <1>3, <2>7
  <2>12. f \notin hasty => OneByOne(f)'
    BY <2>3, <2>5, <2>11 DEF OneByOne
  <2>13. Own(f)'
    BY <1>3, <1>12, <2>5, <2>8, <2>9, <2>10, <2>12
  <2>14. CallOK(c)'
    BY <1>3, <1>10, <2>3, <2>5 DEF CallOK
  <2>15. ASSUME f \notin hasty PROVE KeyOwn(f)'
    <3>1. KeyOwn(f)
      BY <1>3, <2>15 DEF PatienceInv, Patience
    <3>2. \A n \in calls' : Creates(n) /\ n.form # f => n.id # id
      BY <1>2, <1>3, <1>1, <2>3 DEF CallsApart
    <3>3. ASSUME NEW g \in Alive' \ {f} PROVE windowKey'[g] # id
      <4>1. g \in Forms /\ (window[g] = "open" \/ Saving(g))
        BY <3>3, <2>1, <2>3 DEF Alive, Saving
      <4>2. window[g] # "none"
        BY <4>1, SavingIs
      <4>3. docid[g] # id
        BY <1>1, <1>2, <1>3, <3>1, <3>3, <4>1, <4>2, <1>15 DEF KeyOwn
      <4> QED
        BY <1>3, <1>6, <3>3, <4>1, <4>2, <4>3, KeyIs, FormAssumption
    <3> QED
      BY <1>3, <1>10, <2>5, <3>2, <3>3 DEF KeyOwn, Creates
  <2>16. \A n \in calls' : (n \in calls /\ n # m) \/ (n.form = f /\ n.kind = "load" /\ CallOK(n)')
    BY <2>3, <2>14
  <2>17. calls \ {m} \subseteq calls' /\ window'[f] \in {window[f], "closed"}
    BY <2>1, <2>3
  <2> HIDE DEF EntityInv, BaseInv, TypeOK
  <2> QED
    BY <1>3, <1>11, <2>4, <2>6, <2>13, <2>15, <2>16, <2>17, CreatedMoved
<1> QED
  BY <1>3, <1>13, <1>14, <1>15

LEMMA OnSavedStep ==
  ASSUME EntityInv, NEW m \in calls, OnSaved(m)
  PROVE  EntityInv'
BY OnSavedStored, OnSavedCreated

-----------------------------------------------------------------------------
(* The invariant *)

LEMMA InitInv ==
  ASSUME Init
  PROVE  EntityInv
<1> USE DEF Init
<1>1. TypeOK
  BY NoneIs, SetDataIs, FormAssumption DEF TypeOK
<1>2. \A f \in Forms : CallsOf(f) = {} /\ ~Saving(f)
  BY DEF CallsOf, Saving
<1>3. BaseInv
  <2>1. ASSUME NEW f \in Forms PROVE FormOK(f)
    <3>1. TypedOnly(f)
      BY DEF TypedOnly, NoValues
    <3> QED
      BY <1>2, <3>1 DEF FormOK, Waiting
  <2> QED
    BY <1>1, <2>1 DEF BaseInv, CallsApart, Buttons
<1>4. MaskInv
  BY DEF MaskInv, MaskOK
<1>5. PatienceInv
  <2>1. ASSUME NEW f \in Forms PROVE KeyOwn(f)
    BY <1>2 DEF KeyOwn, Alive
  <2>2. ASSUME NEW f \in Forms PROVE OneByOne(f)
    BY <1>2 DEF OneByOne
  <2>3. ASSUME NEW f \in Forms PROVE EditsKept(f)
    BY DEF EditsKept, NoValues
  <2> QED
    BY <2>1, <2>2, <2>3 DEF PatienceInv, Patience
<1>6. CreatedInv
  BY DEF CreatedInv, CreatedOK
<1> QED
  BY <1>3, <1>4, <1>5, <1>6 DEF EntityInv

LEMMA NextInv ==
  ASSUME EntityInv, [Next]_vars
  PROVE  EntityInv'
<1>1. ASSUME NEW f \in Forms, User(f) PROVE EntityInv'
  BY <1>1, OpenRowStep, OpenNewStep, CloseWindowStep, TypeStep, SaveStep, RefreshStep DEF User
<1>2. ASSUME NEW m \in calls, Server(m) PROVE EntityInv'
  BY <1>2, ServeSaveStep, ServeLoadStep, RefuseStep, LoseStep DEF Server
<1>3. ASSUME NEW m \in calls, Callback(m) PROVE EntityInv'
  BY <1>3, LateSteps, OnSavedStep, OnLoadStep, OnDefaultsStep, OnFieldsStep DEF Callback
<1>4. CASE UNCHANGED vars
  <2>1. RowsStay /\ rows' \in [Ids -> Row \cup {None}]
    BY <1>4 DEF vars, RowsStay, Stored, EntityInv, BaseInv, TypeOK
  <2> QED
    BY <1>4, <2>1, Unmoved DEF vars
<1> QED
  BY <1>1, <1>2, <1>3, <1>4, OtherUserStep DEF Next

\* The inductive invariant of the forms: which calls of a form are under way,
\* what its mask waits for, whose key its window goes by, what of its edits is
\* shown, sent or saved, and which row it has created.
THEOREM EntityInvariant == Spec => []EntityInv
BY InitInv, NextInv, PTL DEF Spec

\* A form whose user is patient shows what is typed and not yet saved, whatever
\* becomes of its calls and whatever other forms and users do (onSavedElement,
\* onLoad, setData, WindowMgr.close).
THEOREM EditsTheorem == Spec => []PatientEditsKept
<1>1. EntityInv => PatientEditsKept
  BY DEF EntityInv, PatienceInv, Patience, EditsKept, PatientEditsKept
<1> QED
  BY <1>1, EntityInvariant, PTL

\* A new element is created by one save at most, and later saves know its row
\* (onSavedElement, SavedId).
THEOREM CreatedTheorem == Spec => []CreatedOnce
<1>1. ASSUME EntityInv, NEW f \in Forms \ (hasty \cup lost)
      PROVE  /\ created[f] <= 1
             /\ created[f] = 1 /\ ~Saving(f) /\ window[f] = "open" => docid[f] # None
  BY <1>1 DEF EntityInv, CreatedInv, CreatedOK, Creates, CallsOf, Saving
<1>2. EntityInv => CreatedOnce
  BY <1>1 DEF CreatedOnce
<1> QED
  BY <1>2, EntityInvariant, PTL

\* The window of a patient user's form is the one its key finds, before and
\* after the form has taken the key of its row (WindowMgr.add, onWindowKeyChanged).
THEOREM RegisteredTheorem == Spec => []WindowsRegistered
<1>1. ASSUME EntityInv, NEW f \in Forms \ hasty
      PROVE  /\ window[f] = "open" => windows[windowKey[f]] = f /\ winkey[f] = windowKey[f]
             /\ \A k \in DOMAIN windows : windows[k] = f => window[f] = "open"
  <2>1. KeyOwn(f) /\ FormOK(f) /\ Buttons /\ DOMAIN windows = Ids \cup Forms
    BY <1>1 DEF EntityInv, BaseInv, TypeOK, PatienceInv, Patience
  <2> QED
    BY <2>1, NoneIs DEF KeyOwn, FormOK, Buttons
<1>2. EntityInv => WindowsRegistered
  BY <1>1 DEF WindowsRegistered
<1> QED
  BY <1>2, EntityInvariant, PTL

\* The mask of a form is never left without the answer that takes it away,
\* unless a callback of the form raised (refreshElement, onDenormalizerFinished).
THEOREM MaskTheorem == Spec => []MaskAwaitsAnswer
<1>1. EntityInv => MaskAwaitsAnswer
  BY DEF EntityInv, MaskInv, MaskOK, CallsOf, MaskAwaitsAnswer
<1> QED
  BY <1>1, EntityInvariant, PTL

-----------------------------------------------------------------------------
(* What a save sends *)

\* Only the save and the refresh button count as orders.
LEMMA OrderedKept ==
  ASSUME [Next]_vars, ordered' # ordered
  PROVE  \E f \in Forms : (\E close \in BOOLEAN : Save(f, close)) \/ Refresh(f)
<1>1. ASSUME NEW f \in Forms, User(f)
      PROVE  (\E close \in BOOLEAN : Save(f, close)) \/ Refresh(f)
  BY <1>1 DEF User, OpenRow, OpenNew, CloseWindow, Type
<1>2. ASSUME NEW m \in calls, Server(m) PROVE FALSE
  BY <1>2 DEF Server, ServeSave, ServeLoad, Refuse, Lose
<1>3. ASSUME NEW m \in calls, Callback(m) PROVE FALSE
  BY <1>3 DEF Callback, AnsweredLate, OnSaveRefused, OnSaved, OnLoad, OnDefaults, OnFields
<1>4. ASSUME NEW i \in Ids, NEW x \in Fields, NEW v \in OthersWrite[x], OtherUser(i, x, v) PROVE FALSE
  BY <1>4 DEF OtherUser
<1> QED
  BY <1>1, <1>2, <1>3, <1>4 DEF Next, vars

\* Of a field of a stored row a save sends what its user has filled in since it
\* was loaded, or else the value loaded, as the field shows it, if it does not
\* give that value back as it was (FormField.isChanged, FormField.get).
THEOREM TypedTheorem == Spec => OnlyTypedFieldsWritten
<1> DEFINE Accounted(m, x) ==
             LET loadedWith == formValue[m.form][x]
             IN  m.values[x] # None =>
                   \/ x \in typed[m.form] \/ loadedWith = None
                   \/ ~GivenBack(x, loadedWith) /\ m.values[x] = Shown[x][loadedWith]
<1>1. ASSUME EntityInv, [Next]_vars, NEW m \in calls' \ calls,
             m.kind = "save", ordered' # ordered, NEW x \in Fields
      PROVE  Accounted(m, x)
  <2>1. PICK f \in Forms : (\E close \in BOOLEAN : Save(f, close)) \/ Refresh(f)
    BY <1>1, OrderedKept
  <2>2. Load(f, docid[f]).kind # "save"
    <3>1. docid[f] \in Ids \cup {None}
      BY <1>1 DEF EntityInv, BaseInv, TypeOK
    <3>2. PICK kind : kind = (IF docid[f] # None THEN "load" ELSE "defaults")
      OBVIOUS
    <3>3. SentAs(Load(f, docid[f]), f, kind, docid[f], NoValues)
      BY <3>1, <3>2, LoadIs
    <3> QED
      BY <3>2, <3>3 DEF SentAs
  <2>3. ~Refresh(f)
    BY <1>1, <2>2 DEF Refresh
  <2>4. m = Call(f, Fresh(f), "save", docid[f], FormData(f))
    BY <1>1, <2>1, <2>3 DEF Save
  <2>5. m.form = f /\ m.values = FormData(f)
    BY <2>4 DEF Call
  <2>6. ASSUME m.values[x] # None, x \notin typed[f], formValue[f][x] # None
        PROVE  ~GivenBack(x, formValue[f][x]) /\ m.values[x] = Shown[x][formValue[f][x]]
    <3>1. m.values[x] = value[f][x] /\ (value[f][x] # formValue[f][x] \/ x \in ByIdentity)
      BY <2>5, <2>6 DEF FormData, Changed
    <3>2. value[f][x] = Shown[x][formValue[f][x]]
      BY <1>1, <2>6 DEF EntityInv, BaseInv, FormOK, TypedOnly
    <3> QED
      BY <3>1, <3>2 DEF GivenBack
  <2> QED
    BY <2>5, <2>6
<1>2. ASSUME EntityInv, [Next]_vars
      PROVE  [\A m \in calls' \ calls :
                m.kind = "save" /\ m.docid # None /\ ordered' # ordered =>
                  \A x \in Fields : Accounted(m, x)]_vars
  BY <1>1, <1>2
<1> QED
  BY <1>2, EntityInvariant, PTL DEF Spec, OnlyTypedFieldsWritten
=============================================================================
