----------------------------- MODULE EntityForm -----------------------------
(***************************************************************************)
(* Element forms of one browser page (EntityItem, its fields, WindowMgr)   *)
(* over the rows of one entity, which other users change too.              *)
(*                                                                         *)
(* Remote calls are asynchronous and independent of one another: a form    *)
(* stays editable while its save is under way, and masked only from        *)
(* refreshElement to the answer of its load.  A call may be lost on the    *)
(* way and be sent again (see DirectCalls); its question to the user, if   *)
(* any, is part of serving it.                                             *)
(***************************************************************************)
EXTENDS Naturals, FiniteSets

CONSTANTS
  Forms,        \* forms the page may open, each once
  Ids,          \* identifiers of rows
  Existing,     \* rows there are to begin with
  Fields,       \* fields of the form
  ByIdentity,   \* those whose getValue builds a new object at each call (dates)
  Values,       \* Values[x]: values of field x
  Shown,        \* Shown[x][v]: what field x gives back once v is put in it - the
                \* empty string of null, a text without its carriage returns
  OthersWrite,  \* OthersWrite[x]: what others may write to field x of a row
  Default,      \* the value of a field nobody has filled in
  Denormalized, \* the entity has denormalised table parts, shown on the form
  MaxRetries,   \* maxRetries of the provider
  MaxCalls,     \* bound: saves and refreshes the user orders
  None

ASSUME FormAssumption ==
  /\ Existing \subseteq Ids /\ ByIdentity \subseteq Fields
  /\ \A x \in Fields : Default \in Values[x] /\ None \notin Values[x]
  /\ \A x \in Fields : Shown[x] \in [Values[x] -> Values[x]] /\ OthersWrite[x] \subseteq Values[x]
  /\ Denormalized \in BOOLEAN
  /\ MaxRetries \in Nat /\ MaxCalls \in Nat
  /\ None \notin Ids \cup Forms /\ Ids \cap Forms = {}
  /\ None \notin [Fields -> UNION {Values[x] : x \in Fields}]

VARIABLES
  rows,          \* rows[i]: values of the fields in the database, or None
  window,        \* window[f]: "none", "open" or "closed"
  docid,         \* docid[f]
  isNew,         \* isNew[f]
  shouldBeClosed,\* shouldBeClosed[f]
  value,         \* value[f][x]: what the field gives back: its getValue
  formValue,     \* formValue[f][x]: what it was loaded with, None before
  masked,        \* masked[f]
  finished,      \* isDenormalizerFinished[f]
  loaded,        \* elementData[f] is there
  windowKey,     \* _windowKey[f]: the key the form goes by
  winkey,        \* winkey of the window of f: the key its taskbar button is under
  windows,       \* WindowMgr.windows: the form of a key, or None
  calls,         \* remote calls of the forms, under way
  ordered,       \* saves and refreshes ordered so far
  typed,         \* typed[f]: fields the user has filled in since the last load
  pending,       \* pending[f][x]: value typed, other than the one loaded, that is
                 \* neither saved nor given up
  created,       \* created[f]: rows the saves of f have created
  hasty,         \* forms used while a save of theirs was under way, and those of one
                 \* row: opened while a save that may be of it was under way, or
                 \* while another form showed it without a button
  lost,          \* forms that lost a save, or its answer, on the way
  stuck          \* forms one of whose callbacks raised

form == <<docid, isNew, shouldBeClosed, value, formValue, masked, finished, loaded>>
registry == <<window, windowKey, winkey, windows>>
history == <<typed, pending, created, hasty, lost, stuck>>
vars == <<rows, form, registry, calls, ordered, history>>

-----------------------------------------------------------------------------
(* Remote calls *)

NoRow == [x \in Fields |-> Default]
NoValues == [x \in Fields |-> None]

\* setData: what the fields give back of a row put in them.
SetData(row) == [x \in Fields |-> Shown[x][row[x]]]

\* no tells calls of a form apart that are alike.
Call(f, no, kind, id, values) ==
  [form |-> f, no |-> no, kind |-> kind, docid |-> id, values |-> values, retry |-> 0,
   state |-> "sent", ok |-> FALSE, id |-> None, row |-> NoRow]

CallsOf(f) == {m \in calls : m.form = f}

Saving(f) == \E m \in calls : m.form = f /\ m.kind = "save"

\* An ordinal no call of f under way has.
Fresh(f) == CHOOSE n \in 0..Cardinality(CallsOf(f)) : \A m \in CallsOf(f) : m.no # n

\* Mutant: a new element is loaded like a stored one.
LoadStored(f, id) == Call(f, Fresh(f), "load", id, NoValues)

\* refreshElement: getItem for a stored element, getDefaultValues for a new one.
Load(f, id) == Call(f, Fresh(f), IF id # None THEN "load" ELSE "defaults", id, NoValues)

-----------------------------------------------------------------------------
(* Opening and closing windows *)

Usable(f) == window[f] = "open" /\ ~masked[f]

Hurry(f) == hasty' = IF Saving(f) THEN hasty \cup {f} ELSE hasty

\* Mutant: a row may be opened a second time.
NotShown(f, key) == window[f] = "none"

\* A row that is open already is brought to the front instead.
CanOpen(f, key) == window[f] = "none" /\ windows[key] = None

\* show, WindowMgr.add and onAfterRender.  The denormaliser starts before, with
\* the model; for a new element it has nothing to do.
Show(f, id, key) ==
  /\ CanOpen(f, key)
  /\ window' = [window EXCEPT ![f] = "open"]
  /\ docid' = [docid EXCEPT ![f] = id]
  /\ isNew' = [isNew EXCEPT ![f] = (id = None)]
  /\ windowKey' = [windowKey EXCEPT ![f] = key]
  /\ winkey' = [winkey EXCEPT ![f] = key]
  /\ windows' = [windows EXCEPT ![key] = f]
  /\ masked' = [masked EXCEPT ![f] = TRUE]
  /\ LET fields == Denormalized /\ id # None
     IN /\ finished' = [finished EXCEPT ![f] = ~fields]
        /\ calls' = calls \cup {Load(f, id)}
             \cup (IF fields THEN {Call(f, 1, "fields", id, NoValues)} ELSE {})

\* Forms that may come to stand for row i: their save is under way and may turn
\* out to be of it, or they show it though their button has been taken from them.
Rivals(i) ==
  {g \in Forms : \/ Saving(g) /\ (isNew[g] \/ docid[g] = i)
                 \/ window[g] = "open" /\ docid[g] = i /\ windows[i] # g}

OpenRow(f, i) ==
  /\ rows[i] # None
  /\ Show(f, i, i)
  /\ hasty' = IF Rivals(i) = {} THEN hasty ELSE hasty \cup Rivals(i) \cup {f}
  /\ UNCHANGED <<rows, shouldBeClosed, value, formValue, loaded, ordered,
                 typed, pending, created, lost, stuck>>

\* A new element goes by a fresh Guid; the form itself stands for it.
OpenNew(f) ==
  /\ Show(f, None, f)
  /\ UNCHANGED <<rows, shouldBeClosed, value, formValue, loaded, ordered, history>>

\* onBeforeDestroy: the button under the key of the window goes, and with the
\* window its fields and what they show.
FieldsGone(f) ==
  /\ value' = [value EXCEPT ![f] = SetData(NoRow)]
  /\ formValue' = [formValue EXCEPT ![f] = NoValues]
  /\ typed' = [typed EXCEPT ![f] = {}]

Destroyed(f) ==
  /\ window' = [window EXCEPT ![f] = "closed"]
  /\ windows' = [windows EXCEPT ![winkey[f]] = None]
  /\ FieldsGone(f)

\* The close button of the window: what was typed is given up.
CloseWindow(f) ==
  /\ window[f] = "open"
  /\ Destroyed(f)
  /\ pending' = [pending EXCEPT ![f] = NoValues]
  /\ Hurry(f)
  /\ UNCHANGED <<rows, docid, isNew, shouldBeClosed, masked, finished, loaded,
                 windowKey, winkey, calls, ordered, created, lost, stuck>>

-----------------------------------------------------------------------------
(* The user at a form *)

\* The user fills in what the field can hold.
Type(f, x, v) ==
  /\ Usable(f) /\ value[f][x] # v /\ Shown[x][v] = v
  /\ value' = [value EXCEPT ![f][x] = v]
  /\ typed' = [typed EXCEPT ![f] = @ \cup {x}]
  /\ pending' = [pending EXCEPT ![f][x] = IF v = formValue[f][x] THEN None ELSE v]
  /\ Hurry(f)
  /\ UNCHANGED <<rows, docid, isNew, shouldBeClosed, formValue, masked, finished, loaded,
                 registry, calls, ordered, created, lost, stuck>>

\* Mutant: every value is sent, changed or not.
AllFormData(f) == value[f]

\* FormField.isChanged and get: values that are not the very ones loaded, be it
\* that the field only shows them otherwise.
Changed(f) == {x \in Fields : value[f][x] # formValue[f][x] \/ x \in ByIdentity}

FormData(f) == [x \in Fields |-> IF x \in Changed(f) THEN value[f][x] ELSE None]

\* close: the window of the key the form goes by.
Close(f) ==
  IF windows[windowKey[f]] = None
  THEN stuck' = stuck \cup {f} /\ UNCHANGED <<window, windows, value, formValue, typed>>
  ELSE Destroyed(windows[windowKey[f]]) /\ UNCHANGED stuck

\* saveElement and saveAndCloseElement; nothing is sent when nothing changed.
Save(f, close) ==
  /\ Usable(f) /\ ordered < MaxCalls
  /\ ordered' = ordered + 1
  /\ shouldBeClosed' = [shouldBeClosed EXCEPT ![f] = close]
  /\ Hurry(f)
  /\ IF Changed(f) # {}
     THEN /\ calls' = calls \cup {Call(f, Fresh(f), "save", docid[f], FormData(f))}
          /\ UNCHANGED <<window, windows, value, formValue, typed, stuck>>
     ELSE /\ UNCHANGED calls
          /\ IF close THEN Close(f)
             ELSE UNCHANGED <<window, windows, value, formValue, typed, stuck>>
  /\ UNCHANGED <<rows, docid, isNew, masked, finished, loaded,
                 windowKey, winkey, pending, created, lost>>

\* The refresh button, enabled by the first load: what was typed is given up.
Refresh(f) ==
  /\ Usable(f) /\ loaded[f] /\ ordered < MaxCalls
  /\ ordered' = ordered + 1
  /\ masked' = [masked EXCEPT ![f] = TRUE]
  /\ calls' = calls \cup {Load(f, docid[f])}
  /\ pending' = [pending EXCEPT ![f] = NoValues]
  /\ Hurry(f)
  /\ UNCHANGED <<rows, docid, isNew, shouldBeClosed, value, formValue, finished, loaded,
                 registry, typed, created, lost, stuck>>

-----------------------------------------------------------------------------
(* The server *)

Answer(m, ok, id, row) ==
  calls' = (calls \ {m}) \cup
             {[m EXCEPT !.state = "served", !.ok = ok, !.id = id, !.row = row]}

Written(row, values) ==
  [x \in Fields |-> IF values[x] # None THEN values[x] ELSE row[x]]

\* A save is carried out: CreateEntry or UpdateEntry with the values sent.
ServeSave(m) ==
  /\ m.kind = "save" /\ m.state = "sent"
  /\ \E i \in Ids :
       /\ IF m.docid = None THEN rows[i] = None ELSE i = m.docid
       /\ rows' = [rows EXCEPT ![i] =
            Written(IF m.docid = None THEN NoRow ELSE rows[i], m.values)]
       /\ Answer(m, TRUE, i, NoRow)
  /\ created' = [created EXCEPT ![m.form] = IF m.docid = None THEN @ + 1 ELSE @]
  /\ pending' = [pending EXCEPT ![m.form] =
       [x \in Fields |-> IF @[x] = m.values[x] THEN None ELSE @[x]]]
  /\ UNCHANGED <<form, registry, ordered, typed, hasty, lost, stuck>>

ServeLoad(m) ==
  /\ m.kind # "save" /\ m.state = "sent"
  /\ Answer(m, TRUE, None, IF m.kind = "load" THEN rows[m.docid] ELSE NoRow)
  /\ UNCHANGED <<rows, form, registry, ordered, history>>

\* An exception: a control that refuses, a right that is missing.
Refuse(m) ==
  /\ m.state = "sent"
  /\ Answer(m, FALSE, None, NoRow)
  /\ UNCHANGED <<rows, form, registry, ordered, history>>

\* The request fails before the server has served it or after: it is sent
\* again, or its callback is told of an exception.
Lose(m) ==
  /\ m.state = "sent" \/ m.ok
  /\ IF m.retry < MaxRetries
     THEN calls' = (calls \ {m}) \cup
                     {[m EXCEPT !.retry = @ + 1, !.state = "sent", !.ok = FALSE,
                                !.id = None, !.row = NoRow]}
     ELSE Answer(m, FALSE, None, NoRow)
  /\ lost' = IF m.kind = "save" THEN lost \cup {m.form} ELSE lost
  /\ UNCHANGED <<rows, form, registry, ordered, typed, pending, created, hasty, stuck>>

\* Another user writes a field of a row.
OtherUser(i, x, v) ==
  /\ rows[i] # None /\ rows[i][x] # v
  /\ rows' = [rows EXCEPT ![i][x] = v]
  /\ UNCHANGED <<form, registry, calls, ordered, history>>

-----------------------------------------------------------------------------
(* Callbacks of the form *)

Answered(m, kind) == m.kind = kind /\ m.state = "served" /\ window[m.form] = "open"

\* A load that comes back to a closed window finds no form.
AnsweredLate(m) ==
  /\ m.kind # "save" /\ m.state = "served" /\ window[m.form] = "closed"
  /\ calls' = calls \ {m}
  /\ UNCHANGED <<rows, form, registry, ordered, history>>

\* Mutant: a form reloads also after an exception.
ReloadsRefused(m) ==
  /\ m.kind = "save" /\ m.state = "served" /\ ~m.ok
  /\ masked' = [masked EXCEPT ![m.form] = TRUE]
  /\ calls' = (calls \ {m}) \cup {Load(m.form, docid[m.form])}
  /\ UNCHANGED <<rows, docid, isNew, shouldBeClosed, value, formValue, finished, loaded,
                 registry, ordered, history>>

\* onSavedElement for an exception: the form stays as it is.
OnSaveRefused(m) ==
  /\ m.kind = "save" /\ m.state = "served" /\ ~m.ok
  /\ calls' = calls \ {m}
  /\ UNCHANGED <<rows, form, registry, ordered, history>>

\* Mutant: the form does not take the identifier of the row it created.
KeptId(m) == docid[m.form]

SavedId(m) == IF docid[m.form] # None THEN docid[m.form] ELSE m.id

\* onSavedElement, also for a window closed meanwhile: a new element gets its
\* identifier and its window the key of the row - the button under the old key
\* is put over one that may be there (onWindowKeyChanged) - and the form closes
\* or refreshes.  Closing means the window of that key, whichever it is.  The
\* denormaliser starts again without effect on the mask: its answer comes with
\* that of the load and before it; if its callback raises, the load is not called
\* back, which for the form is a load that is refused.
OnSaved(m) ==
  LET f == m.form
      id == SavedId(m)
      old == windowKey[f]
      key == IF isNew[f] THEN id ELSE old
      win == windows[old]
      moved == [windows EXCEPT ![old] = None, ![key] = win]
      raises == \/ win = None /\ (isNew[f] \/ shouldBeClosed[f])
                \/ window[f] = "closed" /\ ~shouldBeClosed[f]
      rest == calls \ {m}
  IN /\ m.kind = "save" /\ m.state = "served" /\ m.ok
     /\ docid' = [docid EXCEPT ![f] = id]
     /\ windowKey' = [windowKey EXCEPT ![f] = key]
     /\ winkey' = IF win = None THEN winkey ELSE [winkey EXCEPT ![win] = IF isNew[f] THEN key ELSE @]
     /\ IF raises
        THEN /\ stuck' = stuck \cup {f}
             /\ calls' = rest /\ windows' = moved
             /\ UNCHANGED <<window, masked, value, formValue, typed>>
        ELSE IF shouldBeClosed[f]
        THEN /\ window' = [window EXCEPT ![win] = "closed"]
             /\ windows' = [moved EXCEPT ![winkey'[win]] = None]
             /\ FieldsGone(win)
             /\ calls' = rest /\ UNCHANGED <<masked, stuck>>
        ELSE /\ masked' = [masked EXCEPT ![f] = TRUE]
             /\ calls' = rest \cup {Load(f, id)}
             /\ windows' = moved /\ UNCHANGED <<window, value, formValue, typed, stuck>>
     /\ UNCHANGED <<rows, isNew, shouldBeClosed, finished, loaded,
                    ordered, pending, created, hasty, lost>>

\* onLoad and setData; the mask goes once the denormaliser has finished.  An
\* exception raises and leaves the form masked.
OnLoad(m) ==
  /\ Answered(m, "load")
  /\ calls' = calls \ {m}
  /\ LET f == m.form
     IN IF m.ok
        THEN /\ value' = [value EXCEPT ![f] = SetData(m.row)]
             /\ formValue' = [formValue EXCEPT ![f] = m.row]
             /\ isNew' = [isNew EXCEPT ![f] = FALSE]
             /\ loaded' = [loaded EXCEPT ![f] = TRUE]
             /\ typed' = [typed EXCEPT ![f] = {}]
             /\ masked' = [masked EXCEPT ![f] = ~finished[f]]
             /\ UNCHANGED stuck
        ELSE /\ stuck' = stuck \cup {f}
             /\ UNCHANGED <<value, formValue, isNew, loaded, typed, masked>>
  /\ UNCHANGED <<rows, docid, shouldBeClosed, finished, registry, ordered,
                 pending, created, hasty, lost>>

\* getDefaultValues: defaults are shown and count as changed; an exception only
\* brings none.
OnDefaults(m) ==
  /\ Answered(m, "defaults")
  /\ calls' = calls \ {m}
  /\ value' = IF m.ok THEN [value EXCEPT ![m.form] = SetData(m.row)] ELSE value
  /\ masked' = [masked EXCEPT ![m.form] = FALSE]
  /\ UNCHANGED <<rows, docid, isNew, shouldBeClosed, formValue, finished, loaded,
                 registry, ordered, history>>

\* Mutant: the mask is left to a load that may have been answered before.
MaskLeft(f) == masked[f]

\* onDenormalizerFinished: the mask goes if the element is there already.
MaskAfterFields(f) == masked[f] /\ ~loaded[f]

\* denormFieldLoaded, tryReconfigure, onDenormalizerFinished and refreshGrids; it
\* raises on an exception.
OnFields(m) ==
  /\ Answered(m, "fields")
  /\ calls' = calls \ {m}
  /\ LET f == m.form
     IN IF m.ok
        THEN /\ finished' = [finished EXCEPT ![f] = TRUE]
             /\ masked' = [masked EXCEPT ![f] = MaskAfterFields(f)]
             /\ UNCHANGED stuck
        ELSE /\ stuck' = stuck \cup {f}
             /\ UNCHANGED <<finished, masked>>
  /\ UNCHANGED <<rows, docid, isNew, shouldBeClosed, value, formValue, loaded,
                 registry, ordered, typed, pending, created, hasty, lost>>

-----------------------------------------------------------------------------
Init ==
  /\ rows = [i \in Ids |-> IF i \in Existing THEN NoRow ELSE None]
  /\ window = [f \in Forms |-> "none"]
  /\ docid = [f \in Forms |-> None]
  /\ isNew = [f \in Forms |-> FALSE]
  /\ shouldBeClosed = [f \in Forms |-> FALSE]
  /\ value = [f \in Forms |-> SetData(NoRow)]
  /\ formValue = [f \in Forms |-> NoValues]
  /\ masked = [f \in Forms |-> FALSE]
  /\ finished = [f \in Forms |-> FALSE]
  /\ loaded = [f \in Forms |-> FALSE]
  /\ windowKey = [f \in Forms |-> None]
  /\ winkey = [f \in Forms |-> None]
  /\ windows = [k \in Ids \cup Forms |-> None]
  /\ calls = {}
  /\ ordered = 0
  /\ typed = [f \in Forms |-> {}]
  /\ pending = [f \in Forms |-> NoValues]
  /\ created = [f \in Forms |-> 0]
  /\ hasty = {} /\ lost = {} /\ stuck = {}

User(f) ==
  \/ \E i \in Ids : OpenRow(f, i)
  \/ OpenNew(f)
  \/ CloseWindow(f)
  \/ \E x \in Fields : \E v \in Values[x] : Type(f, x, v)
  \/ \E close \in BOOLEAN : Save(f, close)
  \/ Refresh(f)

Server(m) == ServeSave(m) \/ ServeLoad(m) \/ Refuse(m) \/ Lose(m)

Callback(m) ==
  \/ AnsweredLate(m) \/ OnSaveRefused(m) \/ OnSaved(m)
  \/ OnLoad(m) \/ OnDefaults(m) \/ OnFields(m)

Next ==
  \/ \E f \in Forms : User(f)
  \/ \E m \in calls : Server(m) \/ Callback(m)
  \/ \E i \in Ids, x \in Fields : \E v \in OthersWrite[x] : OtherUser(i, x, v)

Spec == Init /\ [][Next]_vars
=============================================================================
