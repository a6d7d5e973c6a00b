-------------------------- MODULE OperationFormInv --------------------------
(***************************************************************************)
(* What the form of a document promises to a user who carries out an       *)
(* operation in it.  A patient user lets each request of the form be       *)
(* answered before using it again.                                         *)
(***************************************************************************)
EXTENDS OperationForm

Row == [Fields -> Values]

Part == [Fields -> Values \cup {None}]

TypeOK ==
  /\ row \in Row
  /\ begun \in {None} \cup [form : Forms, operation : Operations, no : Nat]
  /\ begins \in Nat /\ stored \in Row \cup {None} /\ (stored = None <=> begun = None)
  /\ masked \in [Forms -> BOOLEAN]
  /\ value \in [Forms -> Row] /\ formValue \in [Forms -> Row]
  /\ editable \in [Forms -> SUBSET Fields]
  /\ current \in [Forms -> Operations \cup {None}]
  /\ menu \in [Forms -> BOOLEAN] /\ edit \in [Forms -> BOOLEAN]
  /\ commit \in [Forms -> BOOLEAN] /\ question \in [Forms -> BOOLEAN]
  /\ calls \subseteq
       [form : Forms, no : Nat, kind : {"begin", "exec", "complete", "cancel", "load"},
        operation : Operations \cup {None}, values : Part, during : Nat, retry : 0..MaxRetries,
        state : {"sent", "given_up", "served"}, ok : BOOLEAN, row : Part,
        begun : Operations \cup {None}]
  /\ ordered \in 0..MaxCalls /\ typed \in [Forms -> SUBSET Fields]
  /\ hasty \subseteq Forms /\ misled \subseteq Forms
  /\ lostBegin \subseteq Forms /\ late \subseteq Forms /\ stuck \subseteq Forms

\* Nothing the form waits for; a request it has given up may still be on its way.
Quiet(f) == Waited(f) = {}

Patient == Forms \ (hasty \cup misled)

\* Once everything it waits for is answered, the form of a patient user offers to
\* end an operation exactly if that user has begun one, it is the one the form
\* knows, and its fields are open to be filled in: after refusals, lost loads and
\* lost answers, and whatever the users of other forms do (update,
\* onBeginOperation, operationDone).  Excepted is a form that was not told of the
\* outcome of a Begin, or gave up a Complete or Cancel that may yet be served, or
\* one of whose callbacks raised.
ButtonsTellTruth ==
  \A f \in Patient \ (lostBegin \cup late \cup stuck) :
    Quiet(f) =>
      /\ commit[f] <=> begun # None /\ begun.form = f
      /\ commit[f] => /\ current[f] = begun.operation
                      /\ editable[f] = Editable[begun.operation]

\* The request that ends the begun operation is one its form still waits for: the
\* first attempt or one sent again.
Ending(m) ==
  /\ m \in calls /\ m \notin calls' /\ m.kind \in {"complete", "cancel"} /\ begun' # begun
  /\ m.state = "sent"

\* A Complete or a Cancel a patient user waits for ends the operation it was
\* ordered in and no later one, however often it was sent again and whichever of
\* its attempts was served before.  Excepted are an attempt that was given up -
\* served after the next Begin of its user it ends that operation - and a form
\* that was not told of the outcome of a Begin.
EndsOwnOperation ==
  [][\A m \in calls : m.form \in Patient \ lostBegin /\ Ending(m) => begun.no = m.during]_vars

\* A value the field gives back as it was loaded, so that it counts as changed
\* only when it is.
GivenBack(x, v) == Shown[x][v] = v /\ x \notin ByIdentity

\* What a Complete a patient user waits for leaves in a field that no handler of
\* the operation sets: what the user has filled in; or else, in a field that does
\* not give back what it was loaded with, the value loaded as the field shows it,
\* however old it is; and in the others what the row has, whoever wrote it
\* (formValue, isChanged, blockFields).
CompletesWhatWasTyped ==
  [][\A m \in calls : m.form \in Patient /\ Ending(m) /\ m.kind = "complete" =>
       \A x \in {y \in Fields : Handled[begun.operation][y] = {}} :
         LET shows == value[m.form][x]
             loadedWith == formValue[m.form][x]
         IN  row'[x] = IF x \in typed[m.form] /\ shows # loadedWith THEN shows
                       ELSE IF GivenBack(x, loadedWith) THEN row[x]
                       ELSE Shown[x][loadedWith]]_vars

\* Also of a user who does not wait: an operation that is begun is offered to be
\* ended, or the form waits for an answer, after which it will be - also when
\* answers were lost and Completes and Cancels given up.  No operation is left
\* begun behind the back of its user, unless the form was not told of the outcome
\* of a Begin or a load was refused.
OperationOffered ==
  \A f \in Forms \ (lostBegin \cup stuck) :
    begun # None /\ begun.form = f => commit[f] \/ ~Quiet(f)

-----------------------------------------------------------------------------
(* The inductive invariant.                                                *)

Mine(f) == begun # None /\ begun.form = f

\* A call still on its way has no answer; a Begin is given up only if lost.
CallOK(m) ==
  /\ m.ok => m.state = "served"
  /\ m.state = "given_up" /\ m.kind = "begin" => m.form \in lostBegin
  /\ m.state = "given_up" /\ m.kind \in {"complete", "cancel"} => m.form \in late
  /\ m.kind = "begin" => m.operation \in Operations
  /\ m.kind = "load" => m.state # "given_up" /\ (m.ok => m.row \in Row)

\* A field holds what it can hold; other than loaded, its user has filled it in.
FieldOK(f) ==
  \A x \in Fields :
    /\ Shown[x][value[f][x]] = value[f][x]
    /\ x \in typed[f] \/ value[f][x] = Shown[x][formValue[f][x]]

\* A call after which the operation f has begun is offered, or f is stuck.
Offering(m) ==
  /\ m.state # "given_up"
  /\ \/ m.kind = "begin" /\ m.ok
     \/ m.kind \in {"exec", "complete", "cancel"}
     \/ m.kind = "load" /\ (~m.ok \/ m.begun # None)

Offered(f) == Mine(f) => commit[f] \/ \E m \in CallsOf(f) : Offering(m)

\* What a request to end an operation carries, as long as it is waited for.
Carried(m) ==
  /\ m.kind \in {"complete", "cancel"} /\ m.form \notin lostBegin /\ Mine(m.form) =>
       begun.no = m.during
  /\ m.kind = "complete" => m.values = FormData(m.form)

\* A patient user waits for one answer at a time.
Alone(f) ==
  /\ \A m, n \in Waited(f) : m = n
  /\ \A m \in Waited(f) : Carried(m)

\* What a patient user's form and the server make of the one call waited for.
Course(m) ==
  LET f == m.form
  IN  /\ m.kind = "begin" =>
           /\ ~commit[f] /\ ~masked[f] /\ current[f] = m.operation
           /\ m.ok <=> Mine(f)
           /\ m.ok => begun.operation = m.operation
      /\ m.kind = "exec" => ~commit[f] /\ ~Mine(f)
      /\ m.kind = "load" =>
           /\ ~commit[f] /\ masked[f]
           /\ m.ok => m.begun = IF Mine(f) THEN begun.operation ELSE None

\* With nothing to wait for the form tells the truth, or is masked for good.
Settled(f) ==
  IF masked[f] THEN f \in stuck
  ELSE /\ commit[f] <=> Mine(f)
       /\ commit[f] => /\ current[f] = begun.operation
                       /\ editable[f] = Editable[begun.operation]

\* The question of a Cancel is open only when nothing is waited for.
InStep(f) ==
  /\ \A m \in Waited(f) : Course(m)
  /\ Quiet(f) => Settled(f)
  /\ question[f] => Quiet(f) /\ ~masked[f] /\ commit[f]
  /\ commit[f] => ~menu[f]

OperationInv ==
  /\ TypeOK
  /\ \A f \in Forms : IsFiniteSet(CallsOf(f)) /\ FieldOK(f)
  /\ \A m \in calls : CallOK(m)
  /\ \A f \in Forms \ (lostBegin \cup stuck) : Offered(f)
  /\ \A f \in Patient : Alone(f)
  /\ \A f \in Patient \ (lostBegin \cup late) : InStep(f)
=============================================================================
