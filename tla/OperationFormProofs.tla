------------------------- MODULE OperationFormProofs -------------------------
(***************************************************************************)
(* Proofs about OperationForm, for any forms, operations and fields.       *)
(***************************************************************************)
EXTENDS OperationFormInv, FiniteSetTheorems, TLAPS

-----------------------------------------------------------------------------
(* Remote calls *)

CallType ==
  [form : Forms, no : Nat, kind : {"begin", "exec", "complete", "cancel", "load"},
   operation : Operations \cup {None}, values : Part, during : Nat, retry : 0..MaxRetries,
   state : {"sent", "given_up", "served"}, ok : BOOLEAN, row : Part,
   begun : Operations \cup {None}]

\* There are more ordinals than calls of a form, so one is free.
LEMMA OrdinalFree ==
  ASSUME NEW C, IsFiniteSet(C)
  PROVE  Cardinality(C) \in Nat /\ \E k \in 0..Cardinality(C) : \A m \in C : m.no # k
<1> DEFINE n == Cardinality(C)
           S == 0..n
           taken == [k \in S |-> CHOOSE m \in C : m.no = k]
<1>1. n \in Nat
  BY FS_CardinalityType
<1>2. IsFiniteSet(S) /\ Cardinality(C) < Cardinality(S)
  BY <1>1, FS_Interval
<1>3. ASSUME \A k \in S : \E m \in C : m.no = k PROVE FALSE
  <2>1. \A k \in S : taken[k] \in C /\ taken[k].no = k
    BY <1>3
  <2>2. taken \in [S -> C]
    BY <2>1
  <2>3. ASSUME NEW T, T = S, NEW g \in [T -> C] PROVE \E j, k \in T : j # k /\ g[j] = g[k]
    BY <1>2, <2>3, FS_PigeonHole
  <2>4. \E j, k \in S : j # k /\ taken[j] = taken[k]
    BY <2>2, <2>3
  <2> QED
    BY <2>1, <2>4
<1> QED
  BY <1>1, <1>3

LEMMA FreshIs ==
  ASSUME NEW f, IsFiniteSet(CallsOf(f))
  PROVE  Fresh(f) \in Nat
BY OrdinalFree DEF Fresh

LEMMA NoValuesIs == NoValues \in Part
BY DEF NoValues, Part

\* A call as it is sent.
SentAs(c, f, kind, o, values) ==
  /\ c = Call(f, kind, o, values)
  /\ c.form = f /\ c.kind = kind /\ c.operation = o /\ c.values = values
  /\ c.during = IF Mine(f) THEN begun.no ELSE 0
  /\ c.state = "sent" /\ c.ok = FALSE

LEMMA CallIs ==
  ASSUME OperationInv, NEW f \in Forms,
         NEW kind \in {"begin", "exec", "complete", "cancel", "load"},
         NEW o \in Operations \cup {None}, NEW values \in Part
  PROVE  \E c \in CallType : SentAs(c, f, kind, o, values)
<1>1. Fresh(f) \in Nat
  BY FreshIs DEF OperationInv
<1>2. (IF Mine(f) THEN begun.no ELSE 0) \in Nat
  BY DEF OperationInv, TypeOK, Mine
<1>3. NoValues \in Part /\ 0 \in 0..MaxRetries
  BY NoValuesIs, OperationFormAssumption
<1> DEFINE c == Call(f, kind, o, values)
<1>4. c \in CallType /\ SentAs(c, f, kind, o, values)
  BY <1>1, <1>2, <1>3 DEF Call, CallType, SentAs, Mine
<1> QED
  BY <1>4

\* A call as it is answered.
Reply(m, ok, seen) ==
  [m EXCEPT !.state = "served", !.ok = ok, !.row = seen.row, !.begun = seen.begun]

RepliesTo(c, m, ok, seen) ==
  /\ c = Reply(m, ok, seen)
  /\ c.form = m.form /\ c.kind = m.kind /\ c.operation = m.operation
  /\ c.values = m.values /\ c.during = m.during
  /\ c.state = "served" /\ c.ok = ok /\ c.row = seen.row /\ c.begun = seen.begun

LEMMA ReplyIs ==
  ASSUME NEW m \in CallType, NEW ok \in BOOLEAN,
         NEW seen \in [row : Part, begun : Operations \cup {None}]
  PROVE  \E c \in CallType : RepliesTo(c, m, ok, seen)
<1> DEFINE c == Reply(m, ok, seen)
<1>1. c \in CallType /\ RepliesTo(c, m, ok, seen)
  BY DEF Reply, CallType, RepliesTo
<1> QED
  BY <1>1

\* The calls of one form change.
LEMMA CallsMove ==
  ASSUME NEW f, NEW gone, NEW new, calls' = (calls \ gone) \cup new,
         \A m \in gone \cup new : m.form = f
  PROVE  /\ CallsOf(f)' = (CallsOf(f) \ gone) \cup new
         /\ \A g : g # f => CallsOf(g)' = CallsOf(g)
BY DEF CallsOf

LEMMA CallAdded ==
  ASSUME NEW f, NEW c, calls' = (calls \ {}) \cup {c}, c.form = f, c.state # "given_up"
  PROVE  CallsOf(f)' = CallsOf(f) \cup {c} /\ Waited(f)' = Waited(f) \cup {c}
BY DEF CallsOf, Waited

LEMMA CallReplaced ==
  ASSUME NEW m \in calls, NEW c, calls' = (calls \ {m}) \cup {c}, c.form = m.form,
         c.state # "given_up"
  PROVE  /\ CallsOf(m.form)' = (CallsOf(m.form) \ {m}) \cup {c}
         /\ Waited(m.form)' = (Waited(m.form) \ {m}) \cup {c}
BY DEF CallsOf, Waited

LEMMA CallRemoved ==
  ASSUME NEW m \in calls, calls' = calls \ {m}
  PROVE  /\ CallsOf(m.form)' = CallsOf(m.form) \ {m}
         /\ Waited(m.form)' = Waited(m.form) \ {m}
BY DEF CallsOf, Waited

\* The call a patient user waits for is the only one.
LEMMA OneWaited ==
  ASSUME OperationInv, NEW m \in calls, m.state # "given_up", m.form \in Patient
  PROVE  Waited(m.form) = {m} /\ Carried(m)
<1>1. m \in Waited(m.form) /\ Alone(m.form)
  BY DEF OperationInv, Waited, CallsOf
<1> QED
  BY <1>1 DEF Alone

-----------------------------------------------------------------------------
(* A step of one form leaves the others alone *)

OnlyForm(f) ==
  \A g \in Forms \ {f} :
    /\ masked'[g] = masked[g] /\ value'[g] = value[g] /\ formValue'[g] = formValue[g]
    /\ editable'[g] = editable[g] /\ current'[g] = current[g] /\ menu'[g] = menu[g]
    /\ commit'[g] = commit[g] /\ question'[g] = question[g] /\ typed'[g] = typed[g]
    /\ g \in hasty' <=> g \in hasty
    /\ g \in misled' <=> g \in misled
    /\ g \in lostBegin' <=> g \in lostBegin
    /\ g \in late' <=> g \in late
    /\ g \in stuck' <=> g \in stuck
    /\ Mine(g)' <=> Mine(g)
    /\ Mine(g) => begun' = begun

\* What has to be shown of the form that moves.
Own(f) ==
  /\ FieldOK(f)
  /\ f \notin lostBegin \cup stuck => Offered(f)
  /\ f \in Patient => Alone(f)
  /\ f \in Patient \ (lostBegin \cup late) => InStep(f)

LEMMA Moved ==
  ASSUME OperationInv, NEW f \in Forms, NEW gone, NEW new,
         calls' = (calls \ gone) \cup new,
         \A m \in gone \cup new : m.form = f,
         OnlyForm(f), lostBegin \subseteq lostBegin', late \subseteq late',
         TypeOK', IsFiniteSet(new), \A m \in new : CallOK(m)', Own(f)'
  PROVE  OperationInv'
<1>1. /\ CallsOf(f)' = (CallsOf(f) \ gone) \cup new
      /\ \A g : g # f => CallsOf(g)' = CallsOf(g)
  BY CallsMove
<1>2. ASSUME NEW g \in Forms PROVE IsFiniteSet(CallsOf(g))' /\ FieldOK(g)'
  <2>1. CASE g = f
    <3>1. IsFiniteSet(CallsOf(f) \ gone)
      BY FS_Difference DEF OperationInv
    <3>2. IsFiniteSet((CallsOf(f) \ gone) \cup new)
      BY <3>1, FS_Union
    <3> QED
      BY <1>1, <2>1, <3>2 DEF Own
  <2>2. CASE g # f
    BY <1>1, <2>2 DEF OperationInv, OnlyForm, FieldOK
  <2> QED
    BY <2>1, <2>2
<1>3. \A m \in calls' : CallOK(m)'
  BY DEF OperationInv, CallOK
<1>4. ASSUME NEW g \in Forms, g # f
      PROVE  /\ g \notin lostBegin' \cup stuck' => Offered(g)'
             /\ g \in Patient' => Alone(g)'
             /\ g \in Patient' \ (lostBegin' \cup late') => InStep(g)'
  <2> DEFINE C == CallsOf(g)
  <2>1. CallsOf(g)' = C /\ Waited(g)' = Waited(g) /\ \A m \in C : m.form = g
    BY <1>1, <1>4 DEF CallsOf, Waited
  <2>2. \A m \in Waited(g) : m.form = g
    BY DEF Waited, CallsOf
  <2>3. g \notin lostBegin' \cup stuck' => Offered(g)'
    BY <1>4, <2>1 DEF OnlyForm, OperationInv, Offered, Offering
  <2>4. ASSUME g \in Patient' PROVE Alone(g)'
    <3>1. Alone(g)
      BY <1>4, <2>4 DEF OnlyForm, OperationInv, Patient
    <3>2. FormData(g)' = FormData(g)
      BY <1>4 DEF OnlyForm, FormData, Changed
    <3>3. \A m \in Waited(g) : Carried(m) => Carried(m)'
      BY <1>4, <2>2, <3>2 DEF OnlyForm, Carried
    <3> QED
      BY <2>1, <3>1, <3>3 DEF Alone
  <2>5. ASSUME g \in Patient' \ (lostBegin' \cup late') PROVE InStep(g)'
    <3>1. InStep(g)
      BY <1>4, <2>5 DEF OnlyForm, OperationInv, Patient
    <3>2. \A m \in Waited(g) : Course(m)'
      BY <1>4, <2>2, <3>1 DEF OnlyForm, InStep, Course
    <3>3. Settled(g) => Settled(g)'
      BY <1>4 DEF OnlyForm, Settled
    <3> QED
      BY <1>4, <2>1, <3>1, <3>2, <3>3 DEF OnlyForm, InStep, Quiet
  <2> QED
    BY <2>3, <2>4, <2>5
<1> QED
  BY <1>2, <1>3, <1>4 DEF OperationInv, Own, Patient

LEMMA MovedAdd ==
  ASSUME OperationInv, NEW f \in Forms, NEW c, calls' = (calls \ {}) \cup {c}, c.form = f,
         OnlyForm(f), lostBegin \subseteq lostBegin', late \subseteq late', TypeOK', CallOK(c)', Own(f)'
  PROVE  OperationInv'
<1>1. IsFiniteSet({c}) /\ \A m \in {c} : CallOK(m)'
  BY FS_Singleton
<1> DEFINE gone == {}  new == {c}
<1>2. calls' = (calls \ gone) \cup new /\ \A m \in gone \cup new : m.form = f
  OBVIOUS
<1> HIDE DEF gone, new
<1> QED
  BY <1>1, <1>2, Moved DEF new

LEMMA MovedReplace ==
  ASSUME OperationInv, NEW m \in calls, NEW c, calls' = (calls \ {m}) \cup {c},
         c.form = m.form, m.form \in Forms,
         OnlyForm(m.form), lostBegin \subseteq lostBegin', late \subseteq late', TypeOK', CallOK(c)', Own(m.form)'
  PROVE  OperationInv'
<1> DEFINE gone == {m}  new == {c}
<1>1. IsFiniteSet(new) /\ \A n \in new : CallOK(n)'
  BY FS_Singleton
<1>2. calls' = (calls \ gone) \cup new /\ \A n \in gone \cup new : n.form = m.form
  OBVIOUS
<1> HIDE DEF gone, new
<1> QED
  BY <1>1, <1>2, Moved

LEMMA MovedRemove ==
  ASSUME OperationInv, NEW m \in calls, calls' = calls \ {m}, m.form \in Forms,
         OnlyForm(m.form), lostBegin \subseteq lostBegin', late \subseteq late', TypeOK', Own(m.form)'
  PROVE  OperationInv'
<1> DEFINE gone == {m}  new == {}
<1>1. IsFiniteSet(new) /\ \A n \in new : CallOK(n)'
  BY FS_EmptySet
<1>2. calls' = (calls \ gone) \cup new /\ \A n \in gone \cup new : n.form = m.form
  OBVIOUS
<1> HIDE DEF gone, new
<1> QED
  BY <1>1, <1>2, Moved

\* A patient user uses a form that waits for nothing.
LEMMA HurryIs ==
  ASSUME OperationInv, NEW f \in Forms, Hurry(f)
  PROVE  /\ \A g \in Forms \ {f} : g \in hasty' <=> g \in hasty
         /\ hasty' \subseteq Forms
         /\ f \notin hasty' => f \notin hasty /\ Waited(f) = {}
BY DEF Hurry, OperationInv, TypeOK

LEMMA ChangedKept ==
  ASSUME value' = value, formValue' = formValue, NEW f
  PROVE  FormData(f)' = FormData(f)
BY DEF FormData, Changed

-----------------------------------------------------------------------------
(* The user *)

LEMMA NoneIs ==
  ASSUME OperationInv, NEW f \in Forms
  PROVE  Mine(f) => begun.operation \in Operations /\ begun.operation # None
BY OperationFormAssumption DEF OperationInv, TypeOK, Mine

LEMMA BeginStep ==
  ASSUME OperationInv, NEW f \in Forms, NEW o \in Operations, Begin(f, o)
  PROVE  OperationInv'
<1>1. /\ Usable(f) /\ Hurry(f) /\ ordered < MaxCalls /\ ordered' = ordered + 1
      /\ edit' = IF o = "edit" THEN [edit EXCEPT ![f] = FALSE] ELSE edit
      /\ current' = [current EXCEPT ![f] = o]
      /\ calls' = (calls \ {}) \cup {Call(f, "begin", o, NoValues)}
      /\ misled' = IF commit[f] THEN misled \cup {f} ELSE misled
      /\ UNCHANGED <<server, fields, menu, commit, question, typed, lostBegin, late, stuck>>
  BY DEF Begin, Order
<1>2. PICK c \in CallType : SentAs(c, f, "begin", o, NoValues)
  BY CallIs, NoValuesIs
<1>3. calls' = (calls \ {}) \cup {c} /\ c.form = f
  BY <1>1, <1>2 DEF SentAs
<1>11. CallsOf(f)' = CallsOf(f) \cup {c} /\ Waited(f)' = Waited(f) \cup {c}
  BY <1>2, <1>3, CallAdded DEF SentAs
<1>4. TypeOK'
  BY <1>1, <1>3, HurryIs, OperationFormAssumption DEF OperationInv, TypeOK, CallType, server, fields
<1>5. OnlyForm(f)
  BY <1>1, HurryIs DEF OnlyForm, OperationInv, TypeOK, server, fields, Mine
<1>6. CallOK(c)'
  BY <1>2 DEF CallOK, SentAs
<1>7. FieldOK(f)'
  BY <1>1 DEF OperationInv, FieldOK, fields
<1>8. f \notin lostBegin' \cup stuck' => Offered(f)'
  BY <1>1, <1>11 DEF OperationInv, Offered, Offering, Mine, server
<1>12. f \in Patient' => f \in Patient /\ Waited(f) = {}
  BY <1>1, HurryIs DEF Patient
<1>13. f \in Patient' => Alone(f)'
  BY <1>2, <1>11, <1>12 DEF Alone, Carried, SentAs
<1>9. ASSUME f \in Patient' \ (lostBegin' \cup late') PROVE InStep(f)'
  <2>1. InStep(f) /\ Waited(f) = {} /\ ~commit[f] /\ ~masked[f] /\ ~question[f]
    BY <1>1, <1>9, <1>12 DEF OperationInv, Patient, Usable
  <2>2. ~Mine(f)
    BY <2>1 DEF InStep, Quiet, Settled
  <2>3. current'[f] = o
    BY <1>1 DEF OperationInv, TypeOK
  <2>4. Course(c)'
    BY <1>1, <1>2, <2>1, <2>2, <2>3 DEF SentAs, Course, Mine, server, fields
  <2> QED
    BY <1>1, <1>11, <2>1, <2>4 DEF InStep, Quiet
<1>10. Own(f)'
  BY <1>7, <1>8, <1>9, <1>13 DEF Own
<1> QED
  BY <1>1, <1>3, <1>4, <1>5, <1>6, <1>10, MovedAdd

LEMMA ExecuteStep ==
  ASSUME OperationInv, NEW f \in Forms, Execute(f)
  PROVE  OperationInv'
<1>1. /\ menu[f] /\ Usable(f) /\ Hurry(f) /\ ordered < MaxCalls /\ ordered' = ordered + 1
      /\ calls' = (calls \ {}) \cup {Call(f, "exec", None, NoValues)}
      /\ UNCHANGED <<server, fields, buttons, typed, misled, lostBegin, late, stuck>>
  BY DEF Execute, Order
<1>2. PICK c \in CallType : SentAs(c, f, "exec", None, NoValues)
  BY CallIs, NoValuesIs
<1>3. calls' = (calls \ {}) \cup {c} /\ c.form = f
  BY <1>1, <1>2 DEF SentAs
<1>11. CallsOf(f)' = CallsOf(f) \cup {c} /\ Waited(f)' = Waited(f) \cup {c}
  BY <1>2, <1>3, CallAdded DEF SentAs
<1>4. TypeOK'
  BY <1>1, <1>3, HurryIs, OperationFormAssumption DEF OperationInv, TypeOK, CallType, server, fields, buttons
<1>5. OnlyForm(f)
  BY <1>1, HurryIs DEF OnlyForm, server, fields, buttons, Mine
<1>6. CallOK(c)'
  BY <1>2 DEF CallOK, SentAs
<1>7. FieldOK(f)'
  BY <1>1 DEF OperationInv, FieldOK, fields
<1>8. f \notin lostBegin' \cup stuck' => Offered(f)'
  BY <1>1, <1>11 DEF OperationInv, Offered, Offering, Mine, server, buttons
<1>12. f \in Patient' => f \in Patient /\ Waited(f) = {}
  BY <1>1, HurryIs DEF Patient
<1>13. f \in Patient' => Alone(f)'
  BY <1>2, <1>11, <1>12 DEF Alone, Carried, SentAs
<1>9. ASSUME f \in Patient' \ (lostBegin' \cup late') PROVE InStep(f)'
  <2>1. InStep(f) /\ Waited(f) = {} /\ ~masked[f] /\ ~question[f]
    BY <1>1, <1>9, <1>12 DEF OperationInv, Patient, Usable
  <2>2. ~commit[f] /\ ~Mine(f)
    BY <1>1, <2>1 DEF InStep, Quiet, Settled
  <2>3. Course(c)'
    BY <1>1, <1>2, <2>2 DEF SentAs, Course, Mine, server, buttons
  <2> QED
    BY <1>1, <1>11, <2>1, <2>2, <2>3 DEF InStep, Quiet, buttons
<1>10. Own(f)'
  BY <1>7, <1>8, <1>9, <1>13 DEF Own
<1> QED
  BY <1>1, <1>3, <1>4, <1>5, <1>6, <1>10, MovedAdd

LEMMA TypeStep ==
  ASSUME OperationInv, NEW f \in Forms, NEW x \in Fields, NEW v \in Values, Type(f, x, v)
  PROVE  OperationInv'
<1>1. /\ Usable(f) /\ Hurry(f)
      /\ value' = [value EXCEPT ![f][x] = v]
      /\ typed' = [typed EXCEPT ![f] = @ \cup {x}]
      /\ calls' = (calls \ {}) \cup {}
      /\ UNCHANGED <<server, masked, formValue, editable, buttons, calls, ordered,
                     misled, lostBegin, late, stuck>>
  BY DEF Type
<1>2. CallsOf(f)' = CallsOf(f) /\ Waited(f)' = Waited(f)
  BY <1>1 DEF CallsOf, Waited
<1>10. Shown[x][v] = v
  BY DEF Type
<1>3. TypeOK'
  BY <1>1, HurryIs, OperationFormAssumption DEF OperationInv, TypeOK, Row, server, buttons
<1>4. OnlyForm(f)
  BY <1>1, HurryIs DEF OnlyForm, OperationInv, TypeOK, server, buttons, Mine
<1>5. FieldOK(f)'
  BY <1>1, <1>10 DEF OperationInv, TypeOK, FieldOK, Row
<1>6. f \notin lostBegin' \cup stuck' => Offered(f)'
  BY <1>1, <1>2 DEF OperationInv, Offered, Offering, Mine, server, buttons
<1>9. f \in Patient' => f \in Patient /\ Waited(f) = {}
  BY <1>1, HurryIs DEF Patient
<1>11. f \in Patient' => Alone(f)'
  BY <1>2, <1>9 DEF Alone
<1>7. ASSUME f \in Patient' \ (lostBegin' \cup late') PROVE InStep(f)'
  <2>1. InStep(f) /\ Waited(f) = {}
    BY <1>1, <1>7, <1>9 DEF OperationInv
  <2>2. Settled(f)'
    BY <1>1, <2>1 DEF InStep, Quiet, Settled, Mine, server, buttons
  <2> QED
    BY <1>1, <1>2, <2>1, <2>2 DEF InStep, Quiet, buttons
<1>8. Own(f)'
  BY <1>5, <1>6, <1>7, <1>11 DEF Own
<1> QED
  BY <1>1, <1>3, <1>4, <1>8, Moved, FS_EmptySet

\* Values to be sent are values of the fields or none.
LEMMA FormDataIs ==
  ASSUME OperationInv, NEW f \in Forms
  PROVE  FormData(f) \in Part
BY DEF OperationInv, TypeOK, FormData, Row, Part

LEMMA CommitStep ==
  ASSUME OperationInv, NEW f \in Forms, CommitOperation(f)
  PROVE  OperationInv'
<1>1. /\ commit[f] /\ Usable(f) /\ Hurry(f) /\ ordered < MaxCalls /\ ordered' = ordered + 1
      /\ calls' = (calls \ {}) \cup {Call(f, "complete", None, FormData(f))}
      /\ editable' = [editable EXCEPT ![f] = {}]
      /\ UNCHANGED <<server, masked, value, formValue, buttons, typed, misled, lostBegin, late, stuck>>
  BY DEF CommitOperation, Order
<1>2. PICK c \in CallType : SentAs(c, f, "complete", None, FormData(f))
  BY CallIs, FormDataIs
<1>3. calls' = (calls \ {}) \cup {c} /\ c.form = f
  BY <1>1, <1>2 DEF SentAs
<1>11. CallsOf(f)' = CallsOf(f) \cup {c} /\ Waited(f)' = Waited(f) \cup {c}
  BY <1>2, <1>3, CallAdded DEF SentAs
<1>4. TypeOK'
  BY <1>1, <1>3, HurryIs, OperationFormAssumption DEF OperationInv, TypeOK, CallType, server, buttons
<1>5. OnlyForm(f)
  BY <1>1, HurryIs DEF OnlyForm, OperationInv, TypeOK, server, buttons, Mine
<1>6. CallOK(c)'
  BY <1>2 DEF CallOK, SentAs
<1>7. FieldOK(f)'
  BY <1>1 DEF OperationInv, FieldOK
<1>8. f \notin lostBegin' \cup stuck' => Offered(f)'
  BY <1>1, <1>11 DEF OperationInv, Offered, Offering, Mine, server, buttons
<1>12. f \in Patient' => f \in Patient /\ Waited(f) = {}
  BY <1>1, HurryIs DEF Patient
<1>13. f \in Patient' => Alone(f)'
  <2>1. FormData(f)' = FormData(f)
    BY <1>1, ChangedKept
  <2>2. Carried(c)'
    BY <1>1, <1>2, <2>1 DEF Carried, SentAs, Mine, server
  <2> QED
    BY <1>11, <1>12, <2>2 DEF Alone
<1>9. ASSUME f \in Patient' \ (lostBegin' \cup late') PROVE InStep(f)'
  <2>1. InStep(f) /\ Waited(f) = {} /\ ~masked[f] /\ ~question[f]
    BY <1>1, <1>9, <1>12 DEF OperationInv, Patient, Usable
  <2>4. Course(c)'
    BY <1>2 DEF SentAs, Course
  <2> QED
    BY <1>1, <1>11, <2>1, <2>4 DEF InStep, Quiet, buttons
<1>10. Own(f)'
  BY <1>7, <1>8, <1>9, <1>13 DEF Own
<1> QED
  BY <1>1, <1>3, <1>4, <1>5, <1>6, <1>10, MovedAdd

LEMMA CancelStep ==
  ASSUME OperationInv, NEW f \in Forms, CancelOperation(f)
  PROVE  OperationInv'
<1>1. /\ commit[f] /\ Usable(f) /\ Hurry(f) /\ ordered < MaxCalls /\ ordered' = ordered + 1
      /\ question' = [question EXCEPT ![f] = TRUE]
      /\ calls' = (calls \ {}) \cup {}
      /\ UNCHANGED <<server, fields, current, menu, edit, commit, calls,
                     typed, misled, lostBegin, late, stuck>>
  BY DEF CancelOperation, Order
<1>2. CallsOf(f)' = CallsOf(f) /\ Waited(f)' = Waited(f)
  BY <1>1 DEF CallsOf, Waited
<1>3. TypeOK'
  BY <1>1, HurryIs, OperationFormAssumption DEF OperationInv, TypeOK, server, fields
<1>4. OnlyForm(f)
  BY <1>1, HurryIs DEF OnlyForm, OperationInv, TypeOK, server, fields, Mine
<1>5. FieldOK(f)'
  BY <1>1 DEF OperationInv, FieldOK, fields
<1>6. f \notin lostBegin' \cup stuck' => Offered(f)'
  BY <1>1, <1>2 DEF OperationInv, Offered, Offering, Mine, server
<1>9. f \in Patient' => f \in Patient /\ Waited(f) = {}
  BY <1>1, HurryIs DEF Patient
<1>10. f \in Patient' => Alone(f)'
  BY <1>2, <1>9 DEF Alone
<1>7. ASSUME f \in Patient' \ (lostBegin' \cup late') PROVE InStep(f)'
  <2>1. InStep(f) /\ Waited(f) = {} /\ ~masked[f]
    BY <1>1, <1>7, <1>9 DEF OperationInv, Usable
  <2>2. Settled(f)'
    BY <1>1, <2>1 DEF InStep, Quiet, Settled, Mine, server, fields
  <2> QED
    BY <1>1, <1>2, <2>1, <2>2 DEF InStep, Quiet, fields
<1>8. Own(f)'
  BY <1>5, <1>6, <1>7, <1>10 DEF Own
<1> QED
  BY <1>1, <1>3, <1>4, <1>8, Moved, FS_EmptySet

LEMMA CancelDeniedStep ==
  ASSUME OperationInv, NEW f \in Forms, CancelDenied(f)
  PROVE  OperationInv'
<1>1. /\ question' = [question EXCEPT ![f] = FALSE]
      /\ calls' = (calls \ {}) \cup {}
      /\ UNCHANGED <<server, fields, current, menu, edit, commit, calls, history>>
  BY DEF CancelDenied
<1>2. CallsOf(f)' = CallsOf(f) /\ Waited(f)' = Waited(f)
  BY <1>1 DEF CallsOf, Waited
<1>3. TypeOK'
  BY <1>1 DEF OperationInv, TypeOK, server, fields, history
<1>4. OnlyForm(f)
  BY <1>1 DEF OnlyForm, OperationInv, TypeOK, server, fields, Mine, history
<1>5. FieldOK(f)'
  BY <1>1 DEF OperationInv, FieldOK, fields, history
<1>6. f \notin lostBegin' \cup stuck' => Offered(f)'
  BY <1>1, <1>2 DEF OperationInv, Offered, Offering, Mine, server, history
<1>9. f \in Patient' => Alone(f)'
  <2>1. f \in Patient' => Alone(f)
    BY <1>1 DEF OperationInv, Patient, history
  <2>2. FormData(f)' = FormData(f)
    BY <1>1, ChangedKept DEF fields
  <2>3. \A m \in Waited(f) : Carried(m) => Carried(m)'
    BY <1>1, <2>2 DEF Waited, CallsOf, Carried, Mine, server, history
  <2> QED
    BY <1>2, <2>1, <2>3 DEF Alone
<1>7. ASSUME f \in Patient' \ (lostBegin' \cup late') PROVE InStep(f)'
  <2>1. InStep(f) /\ question'[f] = FALSE
    BY <1>1, <1>7 DEF OperationInv, TypeOK, Patient, history
  <2>2. Settled(f) => Settled(f)'
    BY <1>1 DEF Settled, Mine, server, fields, history
  <2>3. \A m \in Waited(f) : Course(m) => Course(m)'
    BY <1>1 DEF Course, Mine, server, fields
  <2> QED
    BY <1>1, <1>2, <2>1, <2>2, <2>3 DEF InStep, Quiet
<1>8. Own(f)'
  BY <1>5, <1>6, <1>7, <1>9 DEF Own
<1> QED
  BY <1>1, <1>3, <1>4, <1>8, Moved, FS_EmptySet DEF history

\* "Yes": current_operation is there, if the user has been patient.
LEMMA CancelConfirmedStep ==
  ASSUME OperationInv, NEW f \in Forms, CancelConfirmed(f)
  PROVE  OperationInv'
<1>1. /\ question[f] /\ Hurry(f)
      /\ question' = [question EXCEPT ![f] = FALSE]
      /\ UNCHANGED <<server, masked, value, formValue, current, menu, edit, commit,
                     ordered, typed, misled, lostBegin, late>>
  BY DEF CancelConfirmed
<1>2. stuck \subseteq stuck' /\ stuck' \subseteq stuck \cup {f}
  BY DEF CancelConfirmed
<1>3. editable' = editable \/ editable' = [editable EXCEPT ![f] = {}]
  BY DEF CancelConfirmed
<1>4. OnlyForm(f)
  BY <1>1, <1>2, <1>3, HurryIs DEF OnlyForm, OperationInv, TypeOK, server, Mine
<1>5. FieldOK(f)'
  BY <1>1 DEF OperationInv, FieldOK
<1>6. question'[f] = FALSE
  BY <1>1 DEF OperationInv, TypeOK
<1>10. f \in Patient' => f \in Patient /\ Waited(f) = {}
  BY <1>1, HurryIs DEF Patient
<1>7. f \in Patient' \ (lostBegin' \cup late') =>
        InStep(f) /\ commit[f] /\ Mine(f) /\ current[f] = begun.operation
  BY <1>1, <1>10 DEF OperationInv, InStep, Quiet, Settled
<1>8. CASE current[f] = None
  <2>1. calls' = calls /\ calls' = (calls \ {}) \cup {} /\ editable' = editable
    BY <1>8 DEF CancelConfirmed
  <2>2. CallsOf(f)' = CallsOf(f) /\ Waited(f)' = Waited(f)
    BY <2>1 DEF CallsOf, Waited
  <2>3. TypeOK'
    BY <1>1, <1>2, <2>1, HurryIs DEF OperationInv, TypeOK, server
  <2>4. f \notin lostBegin' \cup stuck' => Offered(f)'
    BY <1>1, <1>2, <2>2 DEF OperationInv, Offered, Offering, Mine, server
  <2>5. f \notin Patient' \ (lostBegin' \cup late')
    BY <1>7, <1>8, NoneIs
  <2>6. Own(f)'
    BY <1>5, <1>10, <2>2, <2>4, <2>5 DEF Own, Alone
  <2> QED
    BY <1>1, <1>4, <2>1, <2>3, <2>6, Moved, FS_EmptySet
<1>9. CASE current[f] # None
  <2>1. /\ calls' = calls \cup {Call(f, "cancel", None, NoValues)}
        /\ editable' = [editable EXCEPT ![f] = {}] /\ stuck' = stuck
    BY <1>9 DEF CancelConfirmed
  <2>2. PICK c \in CallType : SentAs(c, f, "cancel", None, NoValues)
    BY CallIs, NoValuesIs
  <2>3. calls' = (calls \ {}) \cup {c} /\ c.form = f
    BY <2>1, <2>2 DEF SentAs
  <2>4. CallsOf(f)' = CallsOf(f) \cup {c} /\ Waited(f)' = Waited(f) \cup {c}
    BY <2>2, <2>3, CallAdded DEF SentAs
  <2>5. TypeOK'
    BY <1>1, <2>1, <2>3, HurryIs DEF OperationInv, TypeOK, CallType, server
  <2>6. CallOK(c)'
    BY <2>2 DEF CallOK, SentAs
  <2>7. f \notin lostBegin' \cup stuck' => Offered(f)'
    BY <1>1, <2>1, <2>4 DEF OperationInv, Offered, Offering, Mine, server
  <2>8. ASSUME f \in Patient' \ (lostBegin' \cup late') PROVE InStep(f)'
    <3>1. Course(c)'
      BY <2>2 DEF SentAs, Course
    <3> QED
      BY <1>1, <1>6, <1>7, <1>10, <2>4, <2>8, <3>1 DEF InStep, Quiet
  <2>10. f \in Patient' => Alone(f)'
    <3>1. Carried(c)'
      BY <1>1, <2>2 DEF Carried, SentAs, Mine, server
    <3> QED
      BY <1>10, <2>4, <3>1 DEF Alone
  <2>9. Own(f)'
    BY <1>5, <2>7, <2>8, <2>10 DEF Own
  <2> QED
    BY <1>1, <1>4, <2>3, <2>5, <2>6, <2>9, MovedAdd
<1> QED
  BY <1>8, <1>9

-----------------------------------------------------------------------------
(* The server *)

Seen == [row : Part, begun : Operations \cup {None}]

\* What a request that is served may change, and what its answer tells of it.
Tells(m, ok, seen) ==
  /\ row' \in Row /\ begins' \in Nat
  /\ begun' \in {None} \cup [form : Forms, operation : Operations, no : Nat]
  /\ stored' \in Row \cup {None} /\ (stored' = None <=> begun' = None)
  /\ begun' = begun \/ begun = None \/ begun' = None
  /\ \A g \in Forms \ {m.form} : (Mine(g)' <=> Mine(g)) /\ (Mine(g) => begun' = begun)
  /\ m.kind \notin {"begin", "complete", "cancel"} => begun' = begun
  /\ Mine(m.form)' => Mine(m.form) \/ m.kind = "begin"
  /\ lostBegin' \in {lostBegin, lostBegin \cup {m.form}}
  /\ m.kind = "begin" /\ ~ok => begun' = begun \/ m.form \in lostBegin'
  /\ m.kind = "begin" /\ ok => Mine(m.form)' /\ begun'.operation = m.operation
  /\ m.kind = "load" /\ ok =>
       /\ seen.row \in Row
       /\ seen.begun = IF Mine(m.form)' THEN begun'.operation ELSE None

\* The promise that a call of a patient user ends no later operation is kept.
LEMMA CarriedKept ==
  ASSUME NEW m, NEW n, NEW ok, NEW seen, Tells(m, ok, seen), n.kind # "begin",
         n.form = m.form, m.kind = "begin" => m.form \in lostBegin',
         lostBegin \subseteq lostBegin', FormData(m.form)' = FormData(m.form), Carried(n)
  PROVE  Carried(n)'
<1>1. ASSUME n.form \notin lostBegin', Mine(n.form)' PROVE Mine(n.form) /\ begun' = begun
  BY <1>1 DEF Tells, Mine
<1> QED
  BY <1>1 DEF Carried

LEMMA ServeStep ==
  ASSUME OperationInv, NEW m \in calls, NEW ok \in BOOLEAN, NEW seen \in Seen,
         m.state \in {"sent", "given_up"}, Answer(m, ok, seen), Tells(m, ok, seen),
         UNCHANGED <<fields, buttons, ordered, typed, hasty, misled, late, stuck>>
  PROVE  OperationInv'
<1> DEFINE f == m.form
<1>1. m \in CallType /\ f \in Forms /\ CallOK(m)
  BY DEF OperationInv, TypeOK, CallType
<1>2. OnlyForm(f)
  BY <1>1 DEF OnlyForm, Tells, fields, buttons
<1>3. FieldOK(f)'
  BY <1>1 DEF OperationInv, FieldOK, fields
<1>4. /\ stuck' = stuck /\ late' = late /\ Patient' = Patient
      /\ lostBegin \subseteq lostBegin' /\ lostBegin' \subseteq Forms
  BY <1>1 DEF Patient, Tells, OperationInv, TypeOK
<1>7. FormData(f)' = FormData(f)
  BY ChangedKept DEF fields
<1>5. CASE m.state = "given_up"
  <2>1. calls' = calls \ {m}
    BY <1>5 DEF Answer
  <2>2. TypeOK'
    BY <1>4, <2>1 DEF OperationInv, TypeOK, Tells, fields, buttons
  <2>3. CallsOf(f)' = CallsOf(f) \ {m} /\ Waited(f)' = Waited(f)
    BY <1>5, <2>1 DEF CallsOf, Waited
  <2>4. \/ m.kind = "begin" /\ f \in lostBegin
        \/ m.kind \in {"complete", "cancel"} /\ f \in late
        \/ m.kind = "exec"
    BY <1>1, <1>5 DEF CallOK, CallType
  <2>5. f \notin lostBegin' \cup stuck' => Offered(f)'
    <3>1. ASSUME f \notin lostBegin' \cup stuck', Mine(f)' PROVE Mine(f) /\ Offered(f)
      BY <1>1, <1>4, <2>4, <3>1 DEF Tells, OperationInv
    <3>2. ~Offering(m)
      BY <1>5 DEF Offering
    <3> QED
      BY <2>3, <3>1, <3>2 DEF Offered, Offering, buttons
  <2>6. ASSUME f \in Patient' PROVE Alone(f)'
    <3>1. Alone(f)
      BY <1>1, <1>4, <2>6 DEF OperationInv
    <3>2. \A n \in Waited(f) : Carried(n)'
      <4> TAKE n \in Waited(f)
      <4>1. n.form = f /\ Carried(n)
        BY <3>1 DEF Alone, Waited, CallsOf
      <4>2. CASE n.kind = "begin"
        BY <4>2 DEF Carried
      <4>3. CASE n.kind # "begin"
        BY <1>4, <1>7, <2>4, <4>1, <4>3, CarriedKept
      <4> QED
        BY <4>2, <4>3
    <3> QED
      BY <2>3, <3>1, <3>2 DEF Alone
  <2>7. ASSUME f \in Patient' \ (lostBegin' \cup late') PROVE InStep(f)'
    <3>1. InStep(f) /\ m.kind = "exec"
      BY <1>1, <1>4, <2>4, <2>7 DEF OperationInv
    <3>2. begun' = begun
      BY <3>1 DEF Tells
    <3>3. \A n \in Waited(f) : Course(n) => Course(n)'
      BY <3>2 DEF Course, Mine, fields, buttons
    <3>4. Settled(f) => Settled(f)'
      BY <3>2 DEF Settled, Mine, fields, buttons
    <3> QED
      BY <2>3, <3>1, <3>3, <3>4 DEF InStep, Quiet, fields, buttons
  <2>8. Own(f)'
    BY <1>3, <2>5, <2>6, <2>7 DEF Own
  <2> QED
    BY <1>1, <1>2, <1>4, <2>1, <2>2, <2>8, MovedRemove
<1>6. CASE m.state = "sent"
  <2>1. PICK c \in CallType : RepliesTo(c, m, ok, seen)
    BY <1>1, ReplyIs DEF Seen
  <2>2. calls' = (calls \ {m}) \cup {c} /\ c.form = f /\ c.state # "given_up"
    BY <1>6, <2>1 DEF Answer, Reply, RepliesTo
  <2>3. /\ CallsOf(f)' = (CallsOf(f) \ {m}) \cup {c}
        /\ Waited(f)' = (Waited(f) \ {m}) \cup {c}
    BY <2>2, CallReplaced
  <2>4. TypeOK'
    BY <1>4, <2>2 DEF OperationInv, TypeOK, CallType, Tells, fields, buttons
  <2>5. CallOK(c)'
    BY <1>1, <2>1 DEF CallOK, RepliesTo, Tells
  <2>6. m.ok = FALSE
    BY <1>1, <1>6 DEF CallOK, CallType
  <2>7. ASSUME f \notin lostBegin' \cup stuck', Mine(f)'
        PROVE  commit'[f] \/ \E n \in CallsOf(f)' : Offering(n)
    <3>1. CASE m.kind = "begin" /\ ok
      BY <2>1, <2>3, <3>1 DEF Offering, RepliesTo
    <3>2. CASE ~(m.kind = "begin" /\ ok)
      <4>1. Mine(f) /\ Offered(f)
        BY <1>1, <1>4, <2>7, <3>2 DEF Tells, OperationInv, Mine
      <4>2. Offering(m) => Offering(c)
        <5>1. begun'.operation \in Operations
          BY <2>7 DEF Tells, Mine
        <5> QED
          BY <2>1, <2>6, <2>7, <5>1, OperationFormAssumption DEF Offering, RepliesTo, Tells
      <4> QED
        BY <2>3, <4>1, <4>2 DEF Offered, buttons
    <3> QED
      BY <3>1, <3>2
  <2>8. ASSUME f \in Patient' PROVE Waited(f)' = {c} /\ Carried(c)'
    <3>1. Waited(f) = {m} /\ Carried(m)
      BY <1>4, <1>6, <2>8, OneWaited
    <3>2. Carried(c)
      BY <2>1, <3>1 DEF RepliesTo, Carried
    <3>3. CASE m.kind = "begin"
      BY <2>1, <2>3, <3>1, <3>3 DEF RepliesTo, Carried
    <3>4. CASE m.kind # "begin"
      BY <1>4, <1>7, <2>1, <2>2, <2>3, <3>1, <3>2, <3>4, CarriedKept DEF RepliesTo
    <3> QED
      BY <3>3, <3>4
  <2>9. ASSUME f \in Patient' \ (lostBegin' \cup late') PROVE InStep(f)'
    <3>1. InStep(f) /\ Waited(f) = {m}
      BY <1>1, <1>4, <1>6, <2>9, OneWaited DEF OperationInv
    <3>2. Course(m)
      BY <3>1 DEF InStep
    <3>3. Course(c)'
      BY <2>1, <2>6, <2>9, <3>2 DEF Course, RepliesTo, Tells, Mine, fields, buttons
    <3> QED
      BY <2>8, <2>9, <3>1, <3>3 DEF InStep, Quiet, fields, buttons
  <2>10. Own(f)'
    BY <1>3, <2>7, <2>8, <2>9 DEF Own, Offered, Alone
  <2> QED
    BY <1>1, <1>2, <1>4, <2>2, <2>4, <2>5, <2>10, MovedReplace
<1> QED
  BY <1>5, <1>6

LEMMA NothingSeenIs == NothingSeen \in Seen
BY NoValuesIs DEF NothingSeen, Seen

LEMMA HandlingIs ==
  ASSUME NEW o, NEW r, NEW s \in Handling(o, r)
  PROVE  s \in Row
BY DEF Handling, Row

LEMMA ServeActions ==
  ASSUME OperationInv, NEW m \in calls,
         \/ ServeBegin(m) \/ ServeComplete(m) \/ ServeCancel(m) \/ ServeExecute(m)
         \/ ServeLoad(m) \/ Refuse(m)
  PROVE  OperationInv'
<1> USE DEF OperationInv, TypeOK
<1>1. /\ m.form \in Forms /\ m.values \in Part /\ m.state \in {"sent", "given_up", "served"}
      /\ m.kind \in {"begin", "exec", "complete", "cancel", "load"}
      /\ m.kind = "begin" => m.operation \in Operations
  BY DEF CallOK
<1>2. CASE ServeBegin(m)
  <2>1. /\ row' \in Row /\ begins' = begins + 1 /\ begun = None /\ m.kind = "begin"
        /\ begun' = [form |-> m.form, operation |-> m.operation, no |-> begins + 1]
        /\ stored' = row
    BY <1>2, HandlingIs DEF ServeBegin, Served, NotBegun
  <2>5. PICK told \in BOOLEAN :
          /\ Answer(m, told, NothingSeen)
          /\ lostBegin' = IF told THEN lostBegin ELSE lostBegin \cup {m.form}
    BY <1>2 DEF ServeBegin
  <2>2. begun' \in [form : Forms, operation : Operations, no : Nat]
    BY <1>1, <2>1
  <2>3. begun' # None /\ begun'.form = m.form /\ begun'.operation = m.operation
    BY <2>1, <2>2, OperationFormAssumption
  <2>6. row \in Row /\ stored' # None
    BY <2>1, OperationFormAssumption DEF Row
  <2>4. Tells(m, told, NothingSeen)
    BY <1>1, <2>1, <2>2, <2>3, <2>5, <2>6 DEF Tells, Mine
  <2> QED
    BY <1>2, <2>4, <2>5, NothingSeenIs, ServeStep DEF ServeBegin, Served
<1>3. CASE ServeComplete(m)
  <2>2. /\ row' \in Row /\ begun' = None /\ begins' = begins /\ stored' = None
        /\ lostBegin' = lostBegin /\ m.kind = "complete"
    BY <1>3, HandlingIs DEF ServeComplete, Served, history
  <2>3. \A g \in Forms : Mine(g) => g = m.form
    BY <1>3 DEF ServeComplete, MayEnd, Mine
  <2>4. Tells(m, TRUE, NothingSeen)
    BY <1>1, <2>2, <2>3 DEF Tells, Mine
  <2> QED
    BY <1>3, <2>4, NothingSeenIs, ServeStep DEF ServeComplete, Served, history
<1>4. CASE ServeCancel(m)
  <2>1. row' \in Row
    BY <1>4 DEF ServeCancel, MayEnd
  <2>2. Tells(m, TRUE, NothingSeen)
    BY <1>1, <1>4, <2>1 DEF ServeCancel, Served, MayEnd, Tells, Mine, history
  <2> QED
    BY <1>4, <2>2, NothingSeenIs, ServeStep DEF ServeCancel, Served, history
<1>5. CASE ServeExecute(m)
  <2>1. row' \in Row
    BY <1>5, HandlingIs DEF ServeExecute
  <2>2. Tells(m, TRUE, NothingSeen)
    BY <1>1, <1>5, <2>1 DEF ServeExecute, Served, NotBegun, Tells, Mine, history
  <2> QED
    BY <1>5, <2>2, NothingSeenIs, ServeStep DEF ServeExecute, Served, history
<1>6. CASE ServeLoad(m)
  <2>1. SeenBy(m.form) \in Seen
    BY DEF SeenBy, Seen, Row, Part
  <2>2. Tells(m, TRUE, SeenBy(m.form))
    BY <1>1, <1>6 DEF ServeLoad, Served, Tells, Mine, SeenBy, server, history
  <2> QED
    BY <1>6, <2>1, <2>2, ServeStep DEF ServeLoad, Served, history
<1>7. CASE Refuse(m)
  <2>1. Tells(m, FALSE, NothingSeen)
    BY <1>1, <1>7 DEF Refuse, Tells, Mine, server, history
  <2> QED
    BY <1>7, <2>1, NothingSeenIs, ServeStep DEF Refuse, history
<1> QED
  BY <1>2, <1>3, <1>4, <1>5, <1>6, <1>7

\* A form that lost the answer of a Begin is promised little; of another call, all
\* but what a request it has given up may still do.
LEMMA LoseStep ==
  ASSUME OperationInv, NEW m \in calls, Lose(m)
  PROVE  OperationInv'
<1> DEFINE f == m.form
           given == [m EXCEPT !.state = "given_up"]
<1>1. m \in CallType /\ f \in Forms /\ CallOK(m)
  BY DEF OperationInv, TypeOK, CallType
<1>2. PICK left \in SUBSET {given} :
        /\ left # {} => m.state = "sent" /\ m.kind # "load"
        /\ calls' = (calls \ {m}) \cup left \cup
             {[m EXCEPT !.no = Fresh(f), !.ok = FALSE, !.row = NoValues, !.begun = None,
                        !.retry = IF Again(m) THEN @ + 1 ELSE @,
                        !.state = IF Again(m) THEN "sent" ELSE "served"]}
        /\ left # {} /\ m.kind \in {"complete", "cancel"} => f \in late'
  BY DEF Lose
<1>3. UNCHANGED <<server, fields, buttons, ordered, typed, hasty, misled, stuck>>
  BY DEF Lose
<1>15. /\ lostBegin \subseteq lostBegin' /\ late \subseteq late'
       /\ lostBegin' \subseteq lostBegin \cup {f} /\ late' \subseteq late \cup {f}
       /\ m.kind = "begin" => f \in lostBegin'
       /\ m.state # "given_up"
  BY DEF Lose
<1>16. left # {} /\ m.kind \in {"complete", "cancel"} => f \in late'
  BY <1>2
<1>4. \E c \in CallType :
        /\ c = [m EXCEPT !.no = Fresh(f), !.ok = FALSE, !.row = NoValues, !.begun = None,
                         !.retry = IF Again(m) THEN @ + 1 ELSE @,
                         !.state = IF Again(m) THEN "sent" ELSE "served"]
        /\ c.form = f /\ c.kind = m.kind /\ c.operation = m.operation
        /\ c.values = m.values /\ c.during = m.during
        /\ c.ok = FALSE /\ c.state # "given_up"
  <2> DEFINE c == [m EXCEPT !.no = Fresh(f), !.ok = FALSE, !.row = NoValues, !.begun = None,
                            !.retry = IF Again(m) THEN @ + 1 ELSE @,
                            !.state = IF Again(m) THEN "sent" ELSE "served"]
  <2>1. Fresh(f) \in Nat
    BY <1>1, FreshIs DEF OperationInv
  <2>2. (IF Again(m) THEN m.retry + 1 ELSE m.retry) \in 0..MaxRetries
    BY <1>1, OperationFormAssumption DEF Again, CallType
  <2>3. /\ c \in CallType /\ c.form = f /\ c.kind = m.kind /\ c.operation = m.operation
        /\ c.values = m.values /\ c.during = m.during
        /\ c.ok = FALSE /\ c.state # "given_up"
    BY <1>1, <2>1, <2>2, NoValuesIs DEF CallType
  <2> QED
    BY <2>3
<1>13. PICK c \in CallType :
         /\ c = [m EXCEPT !.no = Fresh(f), !.ok = FALSE, !.row = NoValues, !.begun = None,
                          !.retry = IF Again(m) THEN @ + 1 ELSE @,
                          !.state = IF Again(m) THEN "sent" ELSE "served"]
         /\ c.form = f /\ c.kind = m.kind /\ c.operation = m.operation
         /\ c.values = m.values /\ c.during = m.during
         /\ c.ok = FALSE /\ c.state # "given_up"
  BY <1>4
<1>14. calls' = (calls \ {m}) \cup left \cup {c}
  BY <1>2, <1>13
<1>5. /\ calls' = (calls \ {m}) \cup (left \cup {c})
      /\ c.form = f /\ c.kind = m.kind /\ c.operation = m.operation
      /\ c.values = m.values /\ c.during = m.during
      /\ c.ok = FALSE /\ c.state # "given_up"
  BY <1>13, <1>14
<1>6. \A n \in left : /\ n \in CallType /\ n.form = f /\ n.kind = m.kind
                      /\ n.operation = m.operation /\ n.ok = m.ok /\ n.state = "given_up"
  BY <1>1 DEF CallType
<1>7. TypeOK'
  BY <1>1, <1>3, <1>5, <1>6, <1>15 DEF OperationInv, TypeOK, CallType, server, fields, buttons
<1>8. OnlyForm(f)
  BY <1>3, <1>15 DEF OnlyForm, server, fields, buttons, Mine
<1>9. \A n \in left \cup {c} : CallOK(n)'
  BY <1>1, <1>2, <1>5, <1>6, <1>15, <1>16 DEF CallOK
<1>17. /\ CallsOf(f)' = (CallsOf(f) \ {m}) \cup left \cup {c}
       /\ Waited(f)' = (Waited(f) \ {m}) \cup {c}
  BY <1>5, <1>6 DEF CallsOf, Waited
<1>18. begun' = begun /\ (Mine(f)' <=> Mine(f)) /\ Patient' = Patient /\ stuck' = stuck
  BY <1>3 DEF server, Mine, Patient
<1>19. ASSUME f \notin lostBegin' \cup stuck' PROVE Offered(f)'
  <2>1. Offered(f) /\ m.kind # "begin"
    BY <1>1, <1>15, <1>18, <1>19 DEF OperationInv
  <2>2. Offering(m) => Offering(c)
    BY <1>5, <2>1 DEF Offering
  <2> QED
    BY <1>3, <1>17, <1>18, <2>1, <2>2 DEF Offered, buttons
<1>20. ASSUME f \in Patient' PROVE Waited(f)' = {c} /\ Carried(c)'
  <2>1. Waited(f) = {m} /\ Carried(m)
    BY <1>15, <1>18, <1>20, OneWaited
  <2>2. FormData(f)' = FormData(f)
    BY <1>3, ChangedKept DEF fields
  <2> QED
    BY <1>5, <1>15, <1>17, <1>18, <2>1, <2>2 DEF Carried
<1>21. ASSUME f \in Patient' \ (lostBegin' \cup late') PROVE InStep(f)'
  <2>1. InStep(f) /\ Waited(f) = {m} /\ m.kind # "begin"
    BY <1>1, <1>15, <1>18, <1>21, OneWaited DEF OperationInv
  <2>2. Course(m)
    BY <2>1 DEF InStep
  <2>3. Course(c)'
    BY <1>3, <1>5, <1>18, <2>1, <2>2 DEF Course, fields, buttons
  <2> QED
    BY <1>3, <1>20, <1>21, <2>1, <2>3 DEF InStep, Quiet, fields, buttons
<1>10. Own(f)'
  <2>1. FieldOK(f)'
    BY <1>1, <1>3 DEF OperationInv, FieldOK, fields
  <2> QED
    BY <1>19, <1>20, <1>21, <2>1 DEF Own, Alone
<1>11. IsFiniteSet(left \cup {c})
  <2>1. IsFiniteSet({given})
    BY FS_Singleton
  <2>2. IsFiniteSet(left)
    BY <2>1, FS_Subset
  <2> QED
    BY <2>2, FS_AddElement
<1> DEFINE gone == {m}  new == left \cup {c}
<1>12. /\ calls' = (calls \ gone) \cup new /\ \A n \in gone \cup new : n.form = f
       /\ IsFiniteSet(new) /\ \A n \in new : CallOK(n)'
  BY <1>5, <1>6, <1>9, <1>11
<1> HIDE DEF gone, new
<1> QED
  BY <1>1, <1>7, <1>8, <1>10, <1>12, <1>15, Moved

-----------------------------------------------------------------------------
(* Callbacks of the form *)

LEMMA OnBeginStep ==
  ASSUME OperationInv, NEW m \in calls, OnBeginOperation(m)
  PROVE  OperationInv'
<1> DEFINE f == m.form
           o == m.operation
<1>1. m \in CallType /\ f \in Forms /\ CallOK(m) /\ m.kind = "begin" /\ m.state = "served"
  BY DEF OperationInv, TypeOK, CallType, OnBeginOperation, Answered
<1>2. o \in Operations /\ Editable[o] \in SUBSET Fields
  BY <1>1, OperationFormAssumption DEF CallOK
<1>3. /\ calls' = calls \ {m}
      /\ UNCHANGED <<server, masked, value, formValue, current, question, history>>
      /\ m.ok => /\ editable' = [editable EXCEPT ![f] = Editable[o]]
                 /\ menu' = [menu EXCEPT ![f] = FALSE]
                 /\ commit' = [commit EXCEPT ![f] = TRUE]
                 /\ UNCHANGED edit
      /\ ~m.ok => /\ editable' = [editable EXCEPT ![f] = {}]
                  /\ edit' = [edit EXCEPT ![f] = TRUE]
                  /\ UNCHANGED <<menu, commit>>
  BY DEF OnBeginOperation
<1>4. CallsOf(f)' = CallsOf(f) \ {m} /\ Waited(f)' = Waited(f) \ {m}
  BY <1>3, CallRemoved
<1>5. TypeOK'
  BY <1>1, <1>2, <1>3 DEF OperationInv, TypeOK, server, history
<1>6. OnlyForm(f)
  BY <1>1, <1>3 DEF OnlyForm, OperationInv, TypeOK, server, history, Mine
<1>7. FieldOK(f)'
  BY <1>1, <1>3 DEF OperationInv, FieldOK, history
<1>8. f \notin lostBegin' \cup stuck' => Offered(f)'
  <2>1. CASE m.ok
    BY <1>1, <1>3, <2>1 DEF OperationInv, TypeOK, Offered
  <2>2. CASE ~m.ok
    BY <1>1, <1>3, <1>4, <2>2 DEF OperationInv, Offered, Offering, Mine, server, history
  <2> QED
    BY <2>1, <2>2
<1>11. f \in Patient' => f \in Patient /\ Waited(f)' = {}
  BY <1>1, <1>3, <1>4, OneWaited DEF Patient, history
<1>9. ASSUME f \in Patient' \ (lostBegin' \cup late') PROVE InStep(f)'
  <2>1. InStep(f) /\ m \in Waited(f)
    BY <1>1, <1>3, <1>9, <1>11 DEF OperationInv, Waited, CallsOf, history
  <2>2. ~question[f] /\ Course(m)
    BY <2>1 DEF InStep, Quiet
  <2>3. Settled(f)' /\ (commit'[f] => ~menu'[f])
    BY <1>1, <1>3, <2>2 DEF OperationInv, TypeOK, Course, Settled, Mine, server
  <2> QED
    BY <1>3, <1>9, <1>11, <2>2, <2>3 DEF InStep, Quiet
<1>10. Own(f)'
  BY <1>7, <1>8, <1>9, <1>11 DEF Own, Alone
<1> QED
  BY <1>1, <1>3, <1>5, <1>6, <1>10, MovedRemove DEF history

LEMMA OnEndedStep ==
  ASSUME OperationInv, NEW m \in calls, OnEnded(m)
  PROVE  OperationInv'
<1> DEFINE f == m.form
<1>1. m \in CallType /\ f \in Forms /\ m.state = "served" /\ m.kind \in {"complete", "cancel"}
  BY DEF OperationInv, TypeOK, CallType, OnEnded, Answered
<1>2. /\ current' = [current EXCEPT ![f] = None]
      /\ menu' = [menu EXCEPT ![f] = TRUE]
      /\ commit' = [commit EXCEPT ![f] = FALSE]
      /\ masked' = [masked EXCEPT ![f] = TRUE]
      /\ calls' = (calls \ {m}) \cup {Load(f)}
      /\ UNCHANGED <<server, value, formValue, editable, edit, question, history>>
  BY DEF OnEnded, Refresh
<1>3. PICK c \in CallType : SentAs(c, f, "load", None, NoValues)
  BY <1>1, CallIs, NoValuesIs
<1>4. calls' = (calls \ {m}) \cup {c} /\ c.form = f
  BY <1>2, <1>3 DEF SentAs, Load
<1>5. /\ CallsOf(f)' = (CallsOf(f) \ {m}) \cup {c}
      /\ Waited(f)' = (Waited(f) \ {m}) \cup {c}
  BY <1>3, <1>4, CallReplaced DEF SentAs
<1>13. f \in Patient' => f \in Patient /\ Waited(f) = {m} /\ Waited(f)' = {c}
  BY <1>1, <1>2, <1>5, OneWaited DEF Patient, history
<1>14. f \in Patient' => Alone(f)'
  BY <1>3, <1>13 DEF Alone, Carried, SentAs
<1>6. TypeOK'
  BY <1>1, <1>2, <1>4 DEF OperationInv, TypeOK, CallType, server, history
<1>7. OnlyForm(f)
  BY <1>1, <1>2 DEF OnlyForm, OperationInv, TypeOK, server, history, Mine
<1>8. CallOK(c)'
  BY <1>3 DEF CallOK, SentAs
<1>9. FieldOK(f)'
  BY <1>1, <1>2 DEF OperationInv, FieldOK, history
<1>10. Offered(f)'
  BY <1>3, <1>5 DEF SentAs, Offered, Offering
<1>11. ASSUME f \in Patient' \ (lostBegin' \cup late') PROVE InStep(f)'
  <2>1. InStep(f)
    BY <1>1, <1>2, <1>11, <1>13 DEF OperationInv, history
  <2>2. Waited(f)' = {c} /\ ~question[f]
    BY <1>11, <1>13, <2>1 DEF InStep, Quiet
  <2>3. Course(c)' /\ ~commit'[f]
    BY <1>1, <1>2, <1>3 DEF OperationInv, TypeOK, Course, SentAs
  <2> QED
    BY <1>2, <2>2, <2>3 DEF InStep, Quiet
<1>12. Own(f)'
  BY <1>9, <1>10, <1>11, <1>14 DEF Own
<1> QED
  BY <1>1, <1>2, <1>4, <1>6, <1>7, <1>8, <1>12, MovedReplace DEF history

LEMMA OnExecutedStep ==
  ASSUME OperationInv, NEW m \in calls, OnExecutedOperation(m)
  PROVE  OperationInv'
<1> DEFINE f == m.form
<1>1. m \in CallType /\ f \in Forms /\ m.state = "served" /\ m.kind = "exec"
  BY DEF OperationInv, TypeOK, CallType, OnExecutedOperation, Answered
<1>2. /\ masked' = [masked EXCEPT ![f] = TRUE]
      /\ calls' = (calls \ {m}) \cup {Load(f)}
      /\ UNCHANGED <<server, value, formValue, editable, buttons, history>>
  BY DEF OnExecutedOperation, Refresh
<1>3. PICK c \in CallType : SentAs(c, f, "load", None, NoValues)
  BY <1>1, CallIs, NoValuesIs
<1>4. calls' = (calls \ {m}) \cup {c} /\ c.form = f
  BY <1>2, <1>3 DEF SentAs, Load
<1>5. /\ CallsOf(f)' = (CallsOf(f) \ {m}) \cup {c}
      /\ Waited(f)' = (Waited(f) \ {m}) \cup {c}
  BY <1>3, <1>4, CallReplaced DEF SentAs
<1>13. f \in Patient' => f \in Patient /\ Waited(f) = {m} /\ Waited(f)' = {c}
  BY <1>1, <1>2, <1>5, OneWaited DEF Patient, history
<1>14. f \in Patient' => Alone(f)'
  BY <1>3, <1>13 DEF Alone, Carried, SentAs
<1>6. TypeOK'
  BY <1>1, <1>2, <1>4 DEF OperationInv, TypeOK, CallType, server, buttons, history
<1>7. OnlyForm(f)
  BY <1>1, <1>2 DEF OnlyForm, OperationInv, TypeOK, server, buttons, history, Mine
<1>8. CallOK(c)'
  BY <1>3 DEF CallOK, SentAs
<1>9. FieldOK(f)'
  BY <1>1, <1>2 DEF OperationInv, FieldOK, history
<1>10. Offered(f)'
  BY <1>3, <1>5 DEF SentAs, Offered, Offering
<1>11. ASSUME f \in Patient' \ (lostBegin' \cup late') PROVE InStep(f)'
  <2>1. InStep(f)
    BY <1>1, <1>2, <1>11, <1>13 DEF OperationInv, history
  <2>2. Waited(f)' = {c} /\ ~question[f] /\ ~commit[f]
    BY <1>1, <1>11, <1>13, <2>1 DEF InStep, Quiet, Course
  <2>3. Course(c)'
    BY <1>1, <1>2, <1>3, <2>2 DEF OperationInv, TypeOK, Course, SentAs, buttons
  <2> QED
    BY <1>2, <2>2, <2>3 DEF InStep, Quiet, buttons
<1>12. Own(f)'
  BY <1>9, <1>10, <1>11, <1>14 DEF Own
<1> QED
  BY <1>1, <1>2, <1>4, <1>6, <1>7, <1>8, <1>12, MovedReplace DEF history

LEMMA OnLoadStep ==
  ASSUME OperationInv, NEW m \in calls, OnLoad(m)
  PROVE  OperationInv'
<1> DEFINE f == m.form
<1>1. m \in CallType /\ f \in Forms /\ CallOK(m) /\ m.kind = "load" /\ m.state = "served"
  BY DEF OperationInv, TypeOK, CallType, OnLoad, Answered
<1>2. /\ calls' = calls \ {m}
      /\ UNCHANGED <<server, question, ordered, hasty, misled, lostBegin, late>>
  BY DEF OnLoad
<1>3. CallsOf(f)' = CallsOf(f) \ {m} /\ Waited(f)' = Waited(f) \ {m}
  BY <1>2, CallRemoved
<1>7. f \in Patient' => f \in Patient /\ Waited(f) = {m} /\ Waited(f)' = {}
  BY <1>1, <1>2, <1>3, OneWaited DEF Patient
<1>4. f \in Patient' \ (lostBegin' \cup late') =>
        InStep(f) /\ Course(m) /\ Waited(f)' = {} /\ ~question[f]
  BY <1>1, <1>2, <1>7 DEF OperationInv, InStep, Quiet
<1>5. CASE m.ok
  <2>1. /\ value' = [value EXCEPT ![f] = SetData(m.row)]
        /\ formValue' = [formValue EXCEPT ![f] = m.row]
        /\ typed' = [typed EXCEPT ![f] = {}]
        /\ masked' = [masked EXCEPT ![f] = FALSE]
        /\ stuck' = stuck
        /\ IF m.begun = None THEN NoOperation(f) ELSE BegunOperation(f, m.begun)
    BY <1>5 DEF OnLoad
  <2>11. m.row \in Row /\ SetData(m.row) \in Row
    BY <1>1, <1>5, OperationFormAssumption DEF CallOK, SetData, Row
  <2>2. /\ value' \in [Forms -> Row] /\ formValue' \in [Forms -> Row]
        /\ masked' \in [Forms -> BOOLEAN] /\ typed' \in [Forms -> SUBSET Fields]
    BY <1>1, <2>1, <2>11 DEF OperationInv, TypeOK
  <2>3. m.begun # None => m.begun \in Operations /\ Editable[m.begun] \in SUBSET Fields
    BY <1>1, OperationFormAssumption DEF CallType
  <2>4. /\ editable' \in [Forms -> SUBSET Fields] /\ current' \in [Forms -> Operations \cup {None}]
        /\ menu' \in [Forms -> BOOLEAN] /\ edit' \in [Forms -> BOOLEAN]
        /\ commit' \in [Forms -> BOOLEAN]
    BY <1>1, <2>1, <2>3 DEF OperationInv, TypeOK, NoOperation, BegunOperation
  <2>5. TypeOK'
    BY <1>2, <2>1, <2>2, <2>4 DEF OperationInv, TypeOK, server
  <2>6. OnlyForm(f)
    BY <1>1, <1>2, <2>1 DEF OnlyForm, OperationInv, TypeOK, server, Mine, NoOperation, BegunOperation
  <2>7. FieldOK(f)'
    <3>1. value'[f] = SetData(m.row) /\ formValue'[f] = m.row
      BY <1>1, <2>1 DEF OperationInv, TypeOK
    <3> QED
      BY <2>11, <3>1, OperationFormAssumption DEF FieldOK, SetData, Row
  <2>8. f \notin lostBegin' \cup stuck' => Offered(f)'
    <3>1. CASE m.begun = None
      BY <1>1, <1>2, <1>3, <1>5, <2>1, <3>1
      DEF OperationInv, Offered, Offering, Mine, server, NoOperation
    <3>2. CASE m.begun # None
      BY <1>1, <2>1, <3>2 DEF OperationInv, TypeOK, Offered, BegunOperation
    <3> QED
      BY <3>1, <3>2
  <2>9. ASSUME f \in Patient' \ (lostBegin' \cup late') PROVE InStep(f)'
    <3>1. ~commit[f] /\ m.begun = IF Mine(f) THEN begun.operation ELSE None
      BY <1>1, <1>4, <1>5, <2>9 DEF Course
    <3>2. begun' = begun /\ (Mine(f)' <=> Mine(f)) /\ masked'[f] = FALSE
      BY <1>1, <1>2, <2>1 DEF Mine, server, OperationInv, TypeOK
    <3>3. CASE Mine(f)
      <4>1. m.begun = begun.operation /\ m.begun # None
        BY <1>1, <3>1, <3>3, NoneIs
      <4>2. /\ commit'[f] /\ ~menu'[f] /\ current'[f] = begun'.operation
            /\ editable'[f] = Editable[begun'.operation]
        BY <1>1, <2>1, <3>2, <4>1 DEF OperationInv, TypeOK, BegunOperation
      <4> QED
        BY <1>2, <1>4, <2>9, <3>2, <3>3, <4>2 DEF InStep, Quiet, Settled
    <3>4. CASE ~Mine(f)
      <4>1. ~commit'[f]
        BY <2>1, <3>1, <3>4 DEF NoOperation
      <4> QED
        BY <1>2, <1>4, <2>9, <3>2, <3>4, <4>1 DEF InStep, Quiet, Settled
    <3> QED
      BY <3>3, <3>4
  <2>10. Own(f)'
    BY <1>7, <2>7, <2>8, <2>9 DEF Own, Alone
  <2> QED
    BY <1>1, <1>2, <2>5, <2>6, <2>10, MovedRemove
<1>6. CASE ~m.ok
  <2>1. stuck' = stuck \cup {f} /\ UNCHANGED <<fields, current, menu, edit, commit, typed>>
    BY <1>6 DEF OnLoad
  <2>2. TypeOK'
    BY <1>1, <1>2, <2>1 DEF OperationInv, TypeOK, server, fields
  <2>3. OnlyForm(f)
    BY <1>2, <2>1 DEF OnlyForm, server, fields, Mine
  <2>4. FieldOK(f)'
    BY <1>1, <2>1 DEF OperationInv, FieldOK, fields
  <2>5. ASSUME f \in Patient' \ (lostBegin' \cup late') PROVE InStep(f)'
    <3>1. masked[f] /\ ~commit[f]
      BY <1>1, <1>4, <2>5 DEF Course
    <3> QED
      BY <1>2, <1>4, <2>1, <2>5, <3>1 DEF InStep, Quiet, Settled, fields
  <2>6. Own(f)'
    BY <1>7, <2>1, <2>4, <2>5 DEF Own, Alone
  <2> QED
    BY <1>1, <1>2, <2>2, <2>3, <2>6, MovedRemove
<1> QED
  BY <1>5, <1>6

-----------------------------------------------------------------------------
(* The inductive invariant *)

LEMMA InitInv == Init => OperationInv
<1> SUFFICES ASSUME Init PROVE OperationInv
  OBVIOUS
<1> DEFINE First(f) ==
      [form |-> f, no |-> 0, kind |-> "load", operation |-> None, values |-> NoValues,
       during |-> 0, retry |-> 0, state |-> "sent", ok |-> FALSE, row |-> NoValues,
       begun |-> None]
<1>1. calls = {First(f) : f \in Forms}
  BY DEF Init
<1>2. \A f \in Forms : First(f) \in CallType
  BY NoValuesIs, OperationFormAssumption DEF CallType
<1>3. calls \subseteq CallType
  BY <1>1, <1>2
<1>4. /\ row \in Row /\ begins \in Nat
      /\ begun \in {None} \cup [form : Forms, operation : Operations, no : Nat]
      /\ stored \in Row \cup {None} /\ (stored = None <=> begun = None)
  <2>1. Opened \subseteq Row /\ Started \subseteq Operations /\ None \notin Row
    BY OperationFormAssumption DEF Row
  <2>2. CASE row \in Opened /\ begun = None /\ begins = 0 /\ stored = None
    BY <2>1, <2>2
  <2>3. CASE /\ begun \in [form : Forms, operation : Started, no : {1}] /\ begins = 1
             /\ stored \in Opened /\ row \in Handling(begun.operation, stored)
    <3>1. begun \in [form : Forms, operation : Operations, no : Nat] /\ begun # None
      BY <2>1, <2>3, OperationFormAssumption
    <3> QED
      BY <2>1, <2>3, <3>1, HandlingIs
  <2> QED
    BY <2>2, <2>3 DEF Init
<1>5. SetData(row) \in Row /\ value \in [Forms -> Row] /\ formValue \in [Forms -> Row]
  <2>1. SetData(row) \in Row
    BY <1>4, OperationFormAssumption DEF SetData, Row
  <2> QED
    BY <1>4, <2>1 DEF Init
<1>6. TypeOK
  <2>1. /\ ordered = 0
        /\ masked = [f \in Forms |-> TRUE] /\ editable = [f \in Forms |-> {}]
        /\ current = [f \in Forms |-> None] /\ typed = [f \in Forms |-> {}]
        /\ menu = [f \in Forms |-> FALSE] /\ edit = [f \in Forms |-> FALSE]
        /\ commit = [f \in Forms |-> FALSE] /\ question = [f \in Forms |-> FALSE]
        /\ hasty = {} /\ misled = {} /\ lostBegin = {} /\ late = {} /\ stuck = {}
    BY DEF Init
  <2> HIDE DEF First
  <2> QED
    BY <1>3, <1>4, <1>5, <2>1, OperationFormAssumption DEF TypeOK, CallType
<1>7. \A f \in Forms : First(f).form = f
  OBVIOUS
<1>8. \A m \in calls : m.kind = "load" /\ m.state = "sent" /\ m.ok = FALSE
  BY <1>1
<1>9. \A f \in Forms : CallsOf(f) = {First(f)}
  <2> HIDE DEF First
  <2> QED
    BY <1>1, <1>7 DEF CallsOf
<1>13. ASSUME NEW f \in Forms PROVE Waited(f) = {First(f)} /\ First(f).kind = "load"
  <2>1. First(f).state # "given_up" /\ First(f).kind = "load"
    OBVIOUS
  <2> HIDE DEF First
  <2> QED
    BY <1>9, <2>1 DEF Waited
<1>10. ASSUME NEW f \in Forms
       PROVE  IsFiniteSet(CallsOf(f)) /\ FieldOK(f) /\ Offered(f) /\ Alone(f)
  <2>1. IsFiniteSet(CallsOf(f))
    BY <1>9, FS_Singleton
  <2>2. FieldOK(f)
    <3>1. value[f] = SetData(row) /\ formValue[f] = row
      BY DEF Init
    <3> QED
      BY <1>4, <3>1, OperationFormAssumption DEF FieldOK, SetData, Row
  <2>3. Offering(First(f)) /\ Carried(First(f))
    BY DEF Offering, Carried
  <2>4. Offered(f) /\ Alone(f)
    <3> HIDE DEF First
    <3> QED
      BY <1>9, <1>13, <2>3 DEF Offered, Alone
  <2> QED
    BY <2>1, <2>2, <2>4
<1>11. \A m \in calls : CallOK(m)
  BY <1>8 DEF CallOK
<1>12. ASSUME NEW f \in Forms PROVE InStep(f)
  <2>1. \A m \in Waited(f) : m.form = f /\ m.kind = "load" /\ m.ok = FALSE
    BY <1>8 DEF CallsOf, Waited
  <2>2. ~commit[f] /\ masked[f] /\ ~question[f]
    BY DEF Init
  <2>3. \A m \in Waited(f) : Course(m)
    BY <2>1, <2>2 DEF Course
  <2>4. ~Quiet(f)
    <3> HIDE DEF First
    <3> QED
      BY <1>13 DEF Quiet
  <2> QED
    BY <2>2, <2>3, <2>4 DEF InStep
<1> QED
  BY <1>6, <1>10, <1>11, <1>12 DEF OperationInv, Patient

LEMMA StutterInv == OperationInv /\ UNCHANGED vars => OperationInv'
<1> SUFFICES ASSUME OperationInv, UNCHANGED vars PROVE OperationInv'
  OBVIOUS
<1>1. UNCHANGED <<row, begun, begins, stored, masked, value, formValue, editable, current,
                  menu, edit, commit, question, calls, ordered, typed, hasty, misled,
                  lostBegin, late, stuck>>
  BY DEF vars, server, fields, buttons, history
<1>2. TypeOK'
  BY <1>1 DEF OperationInv, TypeOK
<1>3. \A f : CallsOf(f)' = CallsOf(f) /\ Waited(f)' = Waited(f)
  BY <1>1 DEF CallsOf, Waited
<1>4. \A f \in Forms : FieldOK(f)' /\ (Offered(f) => Offered(f)')
  BY <1>1, <1>3 DEF OperationInv, FieldOK, Offered, Offering, Mine
<1>5. \A m \in calls' : CallOK(m)'
  BY <1>1 DEF OperationInv, CallOK
<1>7. ASSUME NEW f \in Forms, Alone(f) PROVE Alone(f)'
  <2>1. \A g : FormData(g)' = FormData(g)
    BY <1>1, ChangedKept
  <2>2. \A m \in Waited(f) : Carried(m)'
    BY <1>1, <1>7, <2>1 DEF Alone, Carried, Mine
  <2> QED
    BY <1>3, <1>7, <2>2 DEF Alone
<1>6. ASSUME NEW f \in Forms, InStep(f) PROVE InStep(f)'
  <2>1. \A m \in Waited(f) : Course(m)'
    BY <1>1, <1>6 DEF InStep, Course, Mine
  <2>2. Settled(f) => Settled(f)'
    BY <1>1 DEF Settled, Mine
  <2> QED
    BY <1>1, <1>3, <1>6, <2>1, <2>2 DEF InStep, Quiet
<1> QED
  BY <1>1, <1>2, <1>3, <1>4, <1>5, <1>6, <1>7 DEF OperationInv, Patient

LEMMA NextInv == OperationInv /\ [Next]_vars => OperationInv'
<1> SUFFICES ASSUME OperationInv, [Next]_vars PROVE OperationInv'
  OBVIOUS
<1>1. CASE UNCHANGED vars
  BY <1>1, StutterInv
<1>2. ASSUME NEW f \in Forms, User(f) PROVE OperationInv'
  BY <1>2, BeginStep, ExecuteStep, TypeStep, CommitStep, CancelStep, CancelConfirmedStep,
     CancelDeniedStep
  DEF User
<1>3. ASSUME NEW m \in calls, Server(m) PROVE OperationInv'
  BY <1>3, ServeActions, LoseStep DEF Server
<1>4. ASSUME NEW m \in calls, Callback(m) PROVE OperationInv'
  BY <1>4, OnBeginStep, OnEndedStep, OnExecutedStep, OnLoadStep DEF Callback
<1> QED
  BY <1>1, <1>2, <1>3, <1>4 DEF Next

\* The inductive invariant: what the one call of a patient user's form has to
\* do with the buttons of the form and with the operation begun on the server.
THEOREM OperationInvariant == Spec => []OperationInv
<1> QED
  BY InitInv, NextInv, PTL DEF Spec

\* Once everything it waits for is answered, the form of a patient user offers
\* to end an operation exactly if that user has begun one - except a form not told
\* of the outcome of a Begin, one that gave up a Complete or Cancel, and one of
\* whose callbacks raised (update, onBeginOperation).
THEOREM ButtonsTheorem == Spec => []ButtonsTellTruth
<1>1. OperationInv => ButtonsTellTruth
  <2> SUFFICES ASSUME OperationInv, NEW f \in Patient \ (lostBegin \cup late \cup stuck), Quiet(f)
               PROVE  /\ commit[f] <=> Mine(f)
                      /\ commit[f] => /\ current[f] = begun.operation
                                      /\ editable[f] = Editable[begun.operation]
    BY DEF ButtonsTellTruth, Mine
  <2>1. Settled(f)
    BY DEF OperationInv, InStep
  <2> QED
    BY <2>1 DEF Settled
<1> QED
  BY <1>1, OperationInvariant, PTL

\* No operation is left begun behind the back of its user, patient or not, unless
\* the form was not told of the outcome of a Begin or a load of it was refused.
THEOREM OfferedTheorem == Spec => []OperationOffered
<1>1. OperationInv => OperationOffered
  BY DEF OperationInv, OperationOffered, Offered, Offering, Mine, Quiet, Waited
<1> QED
  BY <1>1, OperationInvariant, PTL

-----------------------------------------------------------------------------
(* Ending an operation *)

LEMMA BegunKept ==
  ASSUME NEW f \in Forms, User(f)
  PROVE  begun' = begun
BY DEF User, Begin, Execute, Type, CommitOperation, CancelOperation, CancelConfirmed,
       CancelDenied, server

LEMMA BegunHeard ==
  ASSUME NEW m \in calls, Callback(m)
  PROVE  begun' = begun
BY DEF Callback, OnBeginOperation, OnEnded, OnExecutedOperation, OnLoad, server

\* The request that ends the operation is the one that is served.
LEMMA EndingIs ==
  ASSUME [Next]_vars, NEW m \in calls, Ending(m)
  PROVE  ServeComplete(m) \/ ServeCancel(m)
<1>1. PICK n \in calls : Server(n)
  <2>1. ~UNCHANGED vars
    BY DEF Ending, vars, server
  <2> QED
    BY <2>1, BegunKept, BegunHeard DEF Next, Ending
<1>2. ServeBegin(n) \/ ServeComplete(n) \/ ServeCancel(n)
  BY <1>1 DEF Server, ServeExecute, ServeLoad, Refuse, Lose, Ending, server
<1>3. n = m
  BY <1>2 DEF ServeBegin, ServeComplete, ServeCancel, Answer, Ending
<1> QED
  BY <1>2, <1>3 DEF ServeBegin, Served, Ending

LEMMA PatientEnding ==
  ASSUME OperationInv, [Next]_vars, NEW m \in calls, m.form \in Patient, Ending(m)
  PROVE  /\ m.form \notin lostBegin => begun.no = m.during
         /\ m.kind = "complete" => row' \in Handling(begun.operation, Written(FormData(m.form)))
<1>1. Carried(m)
  BY OneWaited DEF Ending
<1>2. Mine(m.form)
  BY EndingIs DEF ServeComplete, ServeCancel, MayEnd, Mine
<1>3. m.kind = "complete" => row' \in Handling(begun.operation, Written(m.values))
  BY EndingIs DEF ServeComplete, ServeCancel, Served
<1> QED
  BY <1>1, <1>2, <1>3 DEF Carried, Ending

\* A Complete or a Cancel that its patient user still waits for, sent again or not,
\* ends the operation it was ordered in and no later one, unless the form was not
\* told of the outcome of a Begin; nothing is said of an attempt that was given up
\* (CheckCancelCompleteState, beginRequest).
THEOREM EndsOwnTheorem == Spec => EndsOwnOperation
<1>1. ASSUME OperationInv, [Next]_vars
      PROVE  [\A m \in calls : m.form \in Patient \ lostBegin /\ Ending(m) => begun.no = m.during]_vars
  BY <1>1, PatientEnding
<1> QED
  BY <1>1, OperationInvariant, PTL DEF Spec, EndsOwnOperation

\* In the fields its handlers do not set, a Complete of a patient user writes what
\* that user has filled in, and the loaded value again where the field does not
\* give it back as it was; it leaves the rest as other users have left it
\* (FormField.isChanged and get, blockFields).
THEOREM CompletesTheorem == Spec => CompletesWhatWasTyped
<1>1. ASSUME OperationInv, [Next]_vars
      PROVE  [\A m \in calls : m.form \in Patient /\ Ending(m) /\ m.kind = "complete" =>
                \A x \in {y \in Fields : Handled[begun.operation][y] = {}} :
                  LET shows == value[m.form][x]
                      loadedWith == formValue[m.form][x]
                  IN  row'[x] = IF x \in typed[m.form] /\ shows # loadedWith THEN shows
                                ELSE IF GivenBack(x, loadedWith) THEN row[x]
                                ELSE Shown[x][loadedWith]]_vars
  <2> SUFFICES ASSUME NEW m \in calls, m.form \in Patient, Ending(m), m.kind = "complete",
                      NEW x \in Fields, Handled[begun.operation][x] = {}
               PROVE  LET shows == value[m.form][x]
                          loadedWith == formValue[m.form][x]
                      IN  row'[x] = IF x \in typed[m.form] /\ shows # loadedWith THEN shows
                                    ELSE IF GivenBack(x, loadedWith) THEN row[x]
                                    ELSE Shown[x][loadedWith]
    OBVIOUS
  <2> DEFINE shows == value[m.form][x]
             loadedWith == formValue[m.form][x]
  <2>1. row'[x] = Written(FormData(m.form))[x]
    BY <1>1, PatientEnding DEF Handling
  <2>2. m.form \in Forms /\ shows \in Values
    BY <1>1 DEF Patient, OperationInv, TypeOK, Row
  <2>3. row'[x] = IF shows # loadedWith \/ x \in ByIdentity THEN shows ELSE row[x]
    BY <2>1, <2>2, OperationFormAssumption DEF Written, FormData, Changed
  <2>4. /\ Shown[x][shows] = shows
        /\ x \in typed[m.form] \/ shows = Shown[x][loadedWith]
    BY <1>1, <2>2 DEF OperationInv, FieldOK
  <2> QED
    BY <2>3, <2>4 DEF GivenBack
<1> QED
  BY <1>1, OperationInvariant, PTL DEF Spec, CompletesWhatWasTyped
=============================================================================
