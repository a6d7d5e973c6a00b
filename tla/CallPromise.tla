----------------------------- MODULE CallPromise -----------------------------
(***************************************************************************)
(* What a remote call of the client promises to the code that issues it,   *)
(* whatever happens on the way (batches, questions to the user, time-outs, *)
(* retries): its callback is run at most once, and it is told of a success *)
(* only when the server has carried the call out.  The server may carry a  *)
(* call out more than once, and after its callback was told of a failure.  *)
(***************************************************************************)
EXTENDS Naturals, Sequences

CONSTANTS Calls,    \* remote calls
          Failures  \* what a callback may be told besides "ok"

VARIABLES issued,   \* calls issued so far
          done,     \* how many times the server has carried a call out
          results   \* what the callback of a call has been told, in order

vars == <<issued, done, results>>

Init ==
  /\ issued = {}
  /\ done = [c \in Calls |-> 0]
  /\ results = [c \in Calls |-> <<>>]

Issue(c) ==
  /\ c \notin issued
  /\ issued' = issued \cup {c}
  /\ UNCHANGED <<done, results>>

\* A request carries several calls: those that succeed are carried out.
Execute(S) ==
  /\ S \subseteq issued
  /\ done' = [c \in Calls |-> IF c \in S THEN done[c] + 1 ELSE done[c]]
  /\ UNCHANGED <<issued, results>>

\* The callbacks of the calls in ok are told of a success, those of the calls
\* in no of a failure.
Report(ok, no) ==
  /\ ok \cap no = {} /\ ok \cup no \subseteq issued
  /\ \A c \in ok \cup no : results[c] = <<>>
  /\ \A c \in ok : done[c] > 0
  /\ \E failure \in [no -> Failures] :
       results' = [c \in Calls |-> IF c \in ok THEN <<"ok">>
                                   ELSE IF c \in no THEN <<failure[c]>>
                                   ELSE results[c]]
  /\ UNCHANGED <<issued, done>>

Next ==
  \/ \E c \in Calls : Issue(c)
  \/ \E S \in SUBSET Calls : Execute(S)
  \/ \E ok, no \in SUBSET Calls : Report(ok, no)

Spec == Init /\ [][Next]_vars
=============================================================================
