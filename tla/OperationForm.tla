---------------------------- MODULE OperationForm ----------------------------
(***************************************************************************)
(* The forms in which users carry out operations over one document         *)
(* (components/mixins/Operations.js in EntityItem.js), each in the browser *)
(* of a user of its own, and the server behind them, where a request takes *)
(* effect at once or not at all (what makes it so is in OperationDispatch).*)
(*                                                                         *)
(* Requests of a form are sent each alone, with a time-out of its own:     *)
(* nothing orders them, and one the client has given up may still be       *)
(* served.  The form is masked only while it loads; its buttons stay       *)
(* enabled while an operation is under way.                                *)
(***************************************************************************)
EXTENDS Naturals, FiniteSets

CONSTANTS
  Forms,       \* forms open over the document, one of each user
  Operations,  \* non-atomic operations; "edit" has a button of its own
  Fields,      \* fields of the document, those aside that no form sends (calculated)
  Editable,    \* Editable[o]: fields that may be changed during operation o
  Handled,     \* Handled[o][x]: what the handlers of operation o may set field x to;
               \* of None: those of the atomic operations
  ByIdentity,  \* fields whose getValue builds a new object at each call (dates)
  Values,      \* values of a field
  Shown,       \* Shown[x][v]: what field x gives back once v is put in it - the
               \* empty string of null, a text without its carriage returns
  MaxRetries,  \* maxRetries of the provider
  Opened,      \* bound: documents the forms may be opened over
  Started,     \* bound: operations one of them may have begun by then
  MaxCalls,    \* bound: operations users order
  MaxUnderWay, \* bound: calls of all forms under way when another is ordered
  None

ASSUME OperationFormAssumption ==
  /\ "edit" \in Operations
  /\ Editable \in [Operations -> SUBSET Fields]
  /\ Handled \in [Operations \cup {None} -> [Fields -> SUBSET Values]]
  /\ ByIdentity \subseteq Fields
  /\ Shown \in [Fields -> [Values -> Values]]
  /\ \A x \in Fields, v \in Values : Shown[x][Shown[x][v]] = Shown[x][v]
  /\ Opened \subseteq [Fields -> Values] /\ Started \subseteq Operations
  /\ None \notin Values /\ None \notin Operations
  /\ None \notin [form : Forms, operation : Operations, no : Nat]
  /\ None \notin [Fields -> Values]
  /\ MaxRetries \in Nat /\ MaxCalls \in Nat /\ MaxUnderWay \in Nat

VARIABLES
  row,        \* the document in the database
  begun,      \* the begun operation: [form, operation, no], or None
  begins,     \* operations begun so far
  stored,     \* the document as the begun operation found it, or None
  masked,     \* masked[f]
  value,      \* value[f][x]: what the field gives back: its getValue
  formValue,  \* formValue[f][x]: what it was loaded with
  editable,   \* editable[f]: fields that are not blocked
  current,    \* current_operation of f, or None
  menu,       \* menu[f]: the operations button is visible
  edit,       \* edit[f]: so is the edit button
  commit,     \* commit[f]: so are operation_commit and operation_cancel
  question,   \* question[f]: the message box of cancelOperation is open
  calls,      \* remote calls under way
  ordered,    \* operations ordered so far
  typed,      \* typed[f]: fields filled in since the last load
  hasty,      \* forms used while a call of theirs was under way
  misled,     \* forms whose edit button was used during an operation
  lostBegin,  \* forms not told of the outcome of a Begin
  late,       \* forms that gave up a Complete or Cancel that may yet be served
  stuck       \* forms one of whose callbacks raised

server == <<row, begun, begins, stored>>
fields == <<masked, value, formValue, editable>>
buttons == <<current, menu, edit, commit, question>>
history == <<ordered, typed, hasty, misled, lostBegin, late, stuck>>
vars == <<server, fields, buttons, calls, history>>

-----------------------------------------------------------------------------
(* Remote calls *)

NoValues == [x \in Fields |-> None]

\* setData: what the fields give back of a row put in them.
SetData(r) == [x \in Fields |-> Shown[x][r[x]]]

CallsOf(f) == {m \in calls : m.form = f}

\* The calls whose callback is still to come.
Waited(f) == {m \in CallsOf(f) : m.state # "given_up"}

\* An ordinal no call of f under way has.
Fresh(f) == CHOOSE n \in 0..Cardinality(CallsOf(f)) : \A m \in CallsOf(f) : m.no # n

\* during: the operation f had begun when it was sent.  state "sent": on its
\* way; "given_up": reported as failed, but it may still be served; "served".
Call(f, kind, o, values) ==
  [form |-> f, no |-> Fresh(f), kind |-> kind, operation |-> o, values |-> values,
   during |-> IF begun # None /\ begun.form = f THEN begun.no ELSE 0,
   retry |-> 0, state |-> "sent", ok |-> FALSE, row |-> NoValues, begun |-> None]

Load(f) == Call(f, "load", None, NoValues)

-----------------------------------------------------------------------------
(* The user at a form *)

Usable(f) == ~masked[f] /\ ~question[f]

Hurry(f) ==
  hasty' = IF Waited(f) # {} THEN hasty \cup {f} ELSE hasty

Order(f) ==
  /\ Usable(f) /\ ordered < MaxCalls /\ Cardinality(calls) < MaxUnderWay
  /\ ordered' = ordered + 1
  /\ Hurry(f)

\* executeOperation for an operation that is not atomic, launchEditOperation.
Begin(f, o) ==
  /\ IF o = "edit" THEN edit[f] ELSE menu[f]
  /\ Order(f)
  /\ edit' = IF o = "edit" THEN [edit EXCEPT ![f] = FALSE] ELSE edit
  /\ current' = [current EXCEPT ![f] = o]
  /\ calls' = calls \cup {Call(f, "begin", o, NoValues)}
  /\ misled' = IF commit[f] THEN misled \cup {f} ELSE misled
  /\ UNCHANGED <<server, fields, menu, commit, question, typed, lostBegin, late, stuck>>

\* ... and for an atomic one.
Execute(f) ==
  /\ menu[f]
  /\ Order(f)
  /\ calls' = calls \cup {Call(f, "exec", None, NoValues)}
  /\ UNCHANGED <<server, fields, buttons, typed, misled, lostBegin, late, stuck>>

\* The user fills in what the field can hold.
Type(f, x, v) ==
  /\ Usable(f) /\ x \in editable[f] /\ value[f][x] # v /\ Shown[x][v] = v
  /\ value' = [value EXCEPT ![f][x] = v]
  /\ typed' = [typed EXCEPT ![f] = @ \cup {x}]
  /\ Hurry(f)
  /\ UNCHANGED <<server, masked, formValue, editable, buttons, calls, ordered,
                 misled, lostBegin, late, stuck>>

\* Mutant: every value is sent, changed or not.
AllFormData(f) == value[f]

\* FormField.isChanged and get, of the blocked fields too: the values that are
\* not the very ones loaded, be it that the field only shows them otherwise.
Changed(f) == {x \in Fields : value[f][x] # formValue[f][x] \/ x \in ByIdentity}

FormData(f) == [x \in Fields |-> IF x \in Changed(f) THEN value[f][x] ELSE None]

\* commitOperation; without current_operation it does nothing.
CommitOperation(f) ==
  /\ commit[f] /\ current[f] # None
  /\ Order(f)
  /\ calls' = calls \cup {Call(f, "complete", None, FormData(f))}
  /\ editable' = [editable EXCEPT ![f] = {}]
  /\ UNCHANGED <<server, masked, value, formValue, buttons, typed, misled, lostBegin, late, stuck>>

\* cancelOperation asks first; without current_operation it does nothing.
CancelOperation(f) ==
  /\ commit[f] /\ current[f] # None
  /\ Order(f)
  /\ question' = [question EXCEPT ![f] = TRUE]
  /\ UNCHANGED <<server, fields, current, menu, edit, commit, calls,
                 typed, misled, lostBegin, late, stuck>>

\* "Yes" reads current_operation, which may be gone by now.
CancelConfirmed(f) ==
  /\ question[f]
  /\ question' = [question EXCEPT ![f] = FALSE]
  /\ IF current[f] = None
     THEN stuck' = stuck \cup {f} /\ UNCHANGED <<calls, editable>>
     ELSE /\ calls' = calls \cup {Call(f, "cancel", None, NoValues)}
          /\ editable' = [editable EXCEPT ![f] = {}]
          /\ UNCHANGED stuck
  /\ Hurry(f)
  /\ UNCHANGED <<server, masked, value, formValue, current, menu, edit, commit,
                 ordered, typed, misled, lostBegin, late>>

\* "No", the box closed, or taken over by that of an exception.
CancelDenied(f) ==
  /\ question[f]
  /\ question' = [question EXCEPT ![f] = FALSE]
  /\ UNCHANGED <<server, fields, current, menu, edit, commit, calls, history>>

-----------------------------------------------------------------------------
(* The server *)

\* A request the client has given up is answered to nobody.
Answer(m, ok, seen) ==
  calls' = (calls \ {m}) \cup
    (IF m.state = "sent"
     THEN {[m EXCEPT !.state = "served", !.ok = ok, !.row = seen.row, !.begun = seen.begun]}
     ELSE {})

NothingSeen == [row |-> NoValues, begun |-> None]

Served(m, kind) == m.kind = kind /\ m.state \in {"sent", "given_up"}

\* CheckNotBegined
NotBegun == begun = None

\* What the handlers of operation o may make of row r.
Handling(o, r) ==
  {s \in [Fields -> Values] : \A x \in Fields : s[x] \in {r[x]} \cup Handled[o][x]}

\* The document is stored and then the handler that starts the operation is run.
\* The answer is put together after all that is committed, and may fail.
ServeBegin(m) ==
  /\ Served(m, "begin") /\ NotBegun
  /\ begins' = begins + 1
  /\ begun' = [form |-> m.form, operation |-> m.operation, no |-> begins + 1]
  /\ stored' = row
  /\ row' \in Handling(m.operation, row)
  /\ \E told \in BOOLEAN :
       /\ Answer(m, told, NothingSeen)
       /\ lostBegin' = IF told THEN lostBegin ELSE lostBegin \cup {m.form}
  /\ UNCHANGED <<fields, buttons, ordered, typed, hasty, misled, late, stuck>>

\* Mutant: whoever asks may end the begun operation.
AnyUser(m) == begun # None

\* CheckCancelCompleteState: the user who began it.
MayEnd(m) == begun # None /\ begun.form = m.form

Written(values) == [x \in Fields |-> IF values[x] # None THEN values[x] ELSE row[x]]

\* The values sent are written, and the handler of the operation is run on them.
ServeComplete(m) ==
  /\ Served(m, "complete") /\ MayEnd(m)
  /\ row' \in Handling(begun.operation, Written(m.values))
  /\ begun' = None /\ stored' = None
  /\ Answer(m, TRUE, NothingSeen)
  /\ UNCHANGED <<begins, fields, buttons, history>>

\* RestoreDocument
ServeCancel(m) ==
  /\ Served(m, "cancel") /\ MayEnd(m)
  /\ row' = stored
  /\ begun' = None /\ stored' = None
  /\ Answer(m, TRUE, NothingSeen)
  /\ UNCHANGED <<begins, fields, buttons, history>>

ServeExecute(m) ==
  /\ Served(m, "exec") /\ NotBegun
  /\ row' \in Handling(None, row)
  /\ Answer(m, TRUE, NothingSeen)
  /\ UNCHANGED <<begun, begins, stored, fields, buttons, history>>

\* Mutant: the begun operation is shown to everybody.
ShownToAll(f) == [row |-> row, begun |-> IF begun # None THEN begun.operation ELSE None]

\* FillStartedOperation: another user's operation is not shown.
SeenBy(f) ==
  [row |-> row,
   begun |-> IF begun # None /\ begun.form = f THEN begun.operation ELSE None]

ServeLoad(m) ==
  /\ Served(m, "load")
  /\ Answer(m, TRUE, SeenBy(m.form))
  /\ UNCHANGED <<server, fields, buttons, history>>

\* An exception: a control, a right, a lock, an operation begun or ended before.
\* (The answer of a Complete, a Cancel or an Execute is put together after its
\* commit, too; but their callbacks do not ask whether it failed.)
Refuse(m) ==
  /\ m.state \in {"sent", "given_up"}
  /\ Answer(m, FALSE, NothingSeen)
  /\ UNCHANGED <<server, fields, buttons, history>>

Again(m) == m.retry < MaxRetries

\* The time-out passes or the connection breaks: before the request is served -
\* it may still be, which matters unless it is a load - or after.
Lose(m) ==
  /\ m.state = "sent" \/ (m.state = "served" /\ m.ok)
  /\ \E left \in SUBSET {[m EXCEPT !.state = "given_up"]} :
       /\ left # {} => m.state = "sent" /\ m.kind # "load"
       /\ calls' = (calls \ {m}) \cup left \cup
         {[m EXCEPT !.no = Fresh(m.form), !.ok = FALSE, !.row = NoValues, !.begun = None,
                    !.retry = IF Again(m) THEN @ + 1 ELSE @,
                    !.state = IF Again(m) THEN "sent" ELSE "served"]}
       /\ late' = IF left # {} /\ m.kind \in {"complete", "cancel"}
                  THEN late \cup {m.form} ELSE late
  /\ lostBegin' = IF m.kind = "begin" THEN lostBegin \cup {m.form} ELSE lostBegin
  /\ UNCHANGED <<server, fields, buttons, ordered, typed, hasty, misled, stuck>>

-----------------------------------------------------------------------------
(* Callbacks of the form *)

Answered(m, kinds) == m.kind \in kinds /\ m.state = "served"

OnBeginOperation(m) ==
  /\ Answered(m, {"begin"})
  /\ calls' = calls \ {m}
  /\ LET f == m.form
         o == m.operation
     IN IF m.ok
        THEN /\ editable' = [editable EXCEPT ![f] = Editable[o]]
             /\ menu' = [menu EXCEPT ![f] = FALSE]
             /\ commit' = [commit EXCEPT ![f] = TRUE]
             /\ UNCHANGED edit
        ELSE /\ editable' = [editable EXCEPT ![f] = {}]
             /\ edit' = [edit EXCEPT ![f] = TRUE]
             /\ UNCHANGED <<menu, commit>>
  /\ UNCHANGED <<server, masked, value, formValue, current, question, history>>

\* refreshElement
Refresh(f, m) ==
  /\ masked' = [masked EXCEPT ![f] = TRUE]
  /\ calls' = (calls \ {m}) \cup {Load(f)}

\* operationDone, operationCancelled: whatever the answer is.
OnEnded(m) ==
  /\ Answered(m, {"complete", "cancel"})
  /\ current' = [current EXCEPT ![m.form] = None]
  /\ menu' = [menu EXCEPT ![m.form] = TRUE]
  /\ commit' = [commit EXCEPT ![m.form] = FALSE]
  /\ Refresh(m.form, m)
  /\ UNCHANGED <<server, value, formValue, editable, edit, question, history>>

OnExecutedOperation(m) ==
  /\ Answered(m, {"exec"})
  /\ Refresh(m.form, m)
  /\ UNCHANGED <<server, value, formValue, editable, buttons, history>>

\* update: the buttons of a document without a begun operation; commit and
\* cancel, and current_operation, stay as they are.
NoOperation(f) ==
  /\ editable' = [editable EXCEPT ![f] = {}]
  /\ edit' = [edit EXCEPT ![f] = TRUE]
  /\ menu' = [menu EXCEPT ![f] = TRUE]
  /\ UNCHANGED <<current, commit>>

\* Mutant: the buttons are shown by onBeginOperation alone.
BegunBefore(f, o) ==
  /\ editable' = [editable EXCEPT ![f] = Editable[o]]
  /\ edit' = [edit EXCEPT ![f] = FALSE]
  /\ menu' = [menu EXCEPT ![f] = FALSE]
  /\ current' = [current EXCEPT ![f] = o]
  /\ UNCHANGED commit

BegunOperation(f, o) ==
  /\ editable' = [editable EXCEPT ![f] = Editable[o]]
  /\ edit' = [edit EXCEPT ![f] = FALSE]
  /\ menu' = [menu EXCEPT ![f] = FALSE]
  /\ current' = [current EXCEPT ![f] = o]
  /\ commit' = [commit EXCEPT ![f] = TRUE]

\* onLoad raises on an exception and leaves the form masked.
OnLoad(m) ==
  /\ Answered(m, {"load"})
  /\ calls' = calls \ {m}
  /\ LET f == m.form
     IN IF m.ok
        THEN /\ value' = [value EXCEPT ![f] = SetData(m.row)]
             /\ formValue' = [formValue EXCEPT ![f] = m.row]
             /\ typed' = [typed EXCEPT ![f] = {}]
             /\ masked' = [masked EXCEPT ![f] = FALSE]
             /\ IF m.begun = None THEN NoOperation(f) ELSE BegunOperation(f, m.begun)
             /\ UNCHANGED stuck
        ELSE /\ stuck' = stuck \cup {f}
             /\ UNCHANGED <<fields, current, menu, edit, commit, typed>>
  /\ UNCHANGED <<server, question, ordered, hasty, misled, lostBegin, late>>

-----------------------------------------------------------------------------
\* The forms have just been opened: their first load is under way.  One of the
\* users may have begun an operation before.
Init ==
  /\ \/ /\ row \in Opened
        /\ begun = None /\ begins = 0 /\ stored = None
     \/ /\ begun \in [form : Forms, operation : Started, no : {1}] /\ begins = 1
        /\ stored \in Opened /\ row \in Handling(begun.operation, stored)
  /\ masked = [f \in Forms |-> TRUE]
  /\ value = [f \in Forms |-> SetData(row)] /\ formValue = [f \in Forms |-> row]
  /\ editable = [f \in Forms |-> {}]
  /\ current = [f \in Forms |-> None]
  /\ menu = [f \in Forms |-> FALSE] /\ edit = [f \in Forms |-> FALSE]
  /\ commit = [f \in Forms |-> FALSE] /\ question = [f \in Forms |-> FALSE]
  /\ calls = {[form |-> f, no |-> 0, kind |-> "load", operation |-> None, values |-> NoValues,
               during |-> 0, retry |-> 0, state |-> "sent", ok |-> FALSE,
               row |-> NoValues, begun |-> None] : f \in Forms}
  /\ ordered = 0 /\ typed = [f \in Forms |-> {}]
  /\ hasty = {} /\ misled = {} /\ lostBegin = {} /\ late = {} /\ stuck = {}

User(f) ==
  \/ \E o \in Operations : Begin(f, o)
  \/ Execute(f)
  \/ \E x \in Fields, v \in Values : Type(f, x, v)
  \/ CommitOperation(f)
  \/ CancelOperation(f) \/ CancelConfirmed(f) \/ CancelDenied(f)

Server(m) ==
  \/ ServeBegin(m) \/ ServeComplete(m) \/ ServeCancel(m) \/ ServeExecute(m)
  \/ ServeLoad(m) \/ Refuse(m) \/ Lose(m)

Callback(m) == OnBeginOperation(m) \/ OnEnded(m) \/ OnExecutedOperation(m) \/ OnLoad(m)

Next ==
  \/ \E f \in Forms : User(f)
  \/ \E m \in calls : Server(m) \/ Callback(m)

Spec == Init /\ [][Next]_vars
=============================================================================
