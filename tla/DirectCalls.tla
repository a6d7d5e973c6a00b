----------------------------- MODULE DirectCalls -----------------------------
(***************************************************************************)
(* Remote calls of the browser client: ControlingProvider over the         *)
(* RemotingProvider of Ext.direct, with the questions the server asks the  *)
(* user through them.                                                      *)
(*                                                                         *)
(* A call that gives a time-out is sent at once in a request of its own;   *)
(* the others wait in callBuffer and are sent together by a timer.  The    *)
(* server answers the calls of a request one by one, in order: carried     *)
(* out, refused, or a question (InteractiveException).  A question opens   *)
(* the one message box of the page; "yes" stores the answer in the context *)
(* of a call and sends that call again, anything else ends it.             *)
(*                                                                         *)
(* The loop of onData declares exception, event and transaction once for   *)
(* the whole response: exception keeps its value over an event that has    *)
(* none, and the function the message box will call sees the values of the *)
(* last event.                                                             *)
(***************************************************************************)
EXTENDS Integers, Sequences, FiniteSets

CONSTANTS
  Calls,         \* calls, each issued once (objects Ext.direct.Transaction)
  Alone,         \* those that give a time-out in their options
  Raising,       \* those whose callback raises when it is told of an exception
  Interactions,  \* identifiers of questions
  Asks,          \* Asks[c]: the questions the method of c may ask
  MaxRetries,    \* maxRetries: 1, and 0 in the debug build
  NoDialog       \* the message box has no function to call

ASSUME CallsAssumption ==
  /\ Alone \subseteq Calls
  /\ Raising \subseteq Calls
  /\ Asks \in [Calls -> SUBSET Interactions]
  /\ Interactions \cap {"ok", "refused", "lost"} = {}
  /\ MaxRetries \in Nat
  /\ NoDialog \notin [transaction : Calls, event : {"ok", "refused"} \cup Interactions,
                      interaction : Interactions]

VARIABLES
  transactions,  \* Ext.direct.Manager.transactions
  callBuffer,    \* calls waiting for the timer, in order
  retryCount,    \* retryCount[c]
  answers,       \* answers[c]: questions answered in the context of c
  dialog,        \* what the message box will do with the user's answer
  requests,      \* requests in flight
  results,       \* results[c]: what the callback of c has been told, in order
  done,          \* done[c]: how many times the server has carried c out
  asked,         \* asked[c]: questions the server has asked for c
  failed,        \* calls of a request that failed on the way
  spoilt         \* calls that shared a response, or the message box, with a
                 \* question and were confused with it

provider == <<transactions, callBuffer, retryCount, answers, dialog>>
history == <<results, done, asked, failed, spoilt>>
vars == <<provider, requests, history>>

-----------------------------------------------------------------------------
(* Sending *)

\* What is sent of a call: its context as it stands when the request is built.
\* The retry number is not sent; it tells the attempts of a call apart here.
GetCallData(c) == [tid |-> c, answers |-> answers'[c], retry |-> retryCount'[c]]

\* state "sent": on its way to the server or there; "served": its events are on
\* their way back; "abandoned": reported as failed, and may still be served.
SendRequest(batch) ==
  [data |-> [k \in DOMAIN batch |-> GetCallData(batch[k])],
   state |-> "sent", events |-> <<>>]

\* Mutant: a time-out does not keep a call out of the buffer.
BufferAll(c, others) == callBuffer' = Append(callBuffer, c) /\ requests' = others

\* queueTransaction: a call with a time-out is sent at once, others are buffered.
QueueTransaction(c, others) ==
  IF c \in Alone
  THEN callBuffer' = callBuffer /\ requests' = others \cup {SendRequest(<<c>>)}
  ELSE callBuffer' = Append(callBuffer, c) /\ requests' = others

Issue(c) ==
  /\ c \notin transactions /\ results[c] = <<>>
  /\ transactions' = transactions \cup {c}
  /\ UNCHANGED <<retryCount, answers, dialog, history>>
  /\ QueueTransaction(c, requests)

\* Mutant: the buffer is not emptied.
SendAndKeep ==
  /\ callBuffer # <<>>
  /\ UNCHANGED <<transactions, retryCount, answers, dialog, history, callBuffer>>
  /\ requests' = requests \cup {SendRequest(callBuffer)}

CombineAndSend ==
  /\ callBuffer # <<>>
  /\ UNCHANGED <<transactions, retryCount, answers, dialog, history>>
  /\ requests' = requests \cup {SendRequest(callBuffer)}
  /\ callBuffer' = <<>>

-----------------------------------------------------------------------------
(* The server, and the way to it and back *)

Tids(r) == {r.data[k].tid : k \in DOMAIN r.data}

Verdicts(r) ==
  {ev \in [DOMAIN r.data -> {"ok", "refused"} \cup Interactions] :
     \A k \in DOMAIN r.data :
       ev[k] \in {"ok", "refused"} \cup (Asks[r.data[k].tid] \ r.data[k].answers)}

\* The calls of a request are executed in order, each in transactions of its
\* own; a question or a refusal undoes what its call did.
Serve(r) ==
  /\ r.state \in {"sent", "abandoned"}
  /\ \E ev \in Verdicts(r) :
       /\ done' = [c \in Calls |->
            IF \E k \in DOMAIN ev : r.data[k].tid = c /\ ev[k] = "ok"
            THEN done[c] + 1 ELSE done[c]]
       /\ asked' = [c \in Calls |-> asked[c] \cup
            {ev[k] : k \in {k \in DOMAIN ev : r.data[k].tid = c /\ ev[k] \in Interactions}}]
       /\ requests' = (requests \ {r}) \cup
            (IF r.state = "sent" THEN {[r EXCEPT !.state = "served", !.events = ev]} ELSE {})
  /\ UNCHANGED <<provider, results, failed, spoilt>>

\* A request the client has given up never reaches the server.
Vanish(r) ==
  /\ r.state = "abandoned"
  /\ requests' = requests \ {r}
  /\ UNCHANGED <<provider, history>>

-----------------------------------------------------------------------------
(* The answer of the server: onData with success = true *)

\* The value of exception while event k is handled is a question: of event k or
\* of an earlier one with only plain answers after it.
QuestionAt(r, k) ==
  {j \in 1..k : r.events[j] \in Interactions /\ \A m \in (j + 1)..k : r.events[m] = "ok"}

Interactive(r, k) == QuestionAt(r, k) # {}

Interaction(r, k) == r.events[CHOOSE j \in QuestionAt(r, k) : TRUE]

Raises(r, k) ==
  /\ ~Interactive(r, k) /\ r.events[k] = "refused"
  /\ r.data[k].tid \in Raising \cap transactions

\* A callback that raises ends the loop.
Handled(r) == {k \in DOMAIN r.events : \A j \in 1..(k - 1) : ~Raises(r, j)}

\* Mutant: the callback is run for a question, too.
CalledBackAlways(r) == {k \in Handled(r) : r.data[k].tid \in transactions}

CalledBack(r) ==
  {k \in Handled(r) : ~Interactive(r, k) /\ r.data[k].tid \in transactions}

\* Events that open the message box: questions, and refusals, which the
\* 'exception' handlers of the application show in it.
Shown(r) == {k \in Handled(r) : Interactive(r, k) \/ r.events[k] = "refused"}

TidsAt(r, K) == {r.data[k].tid : k \in K}

\* The last event handled: the function given to the message box finds its values.
Final(r) == {k \in Handled(r) : \A j \in Handled(r) : j <= k}

\* Mutant: the function takes the event of a question for a success.
DialogOfSuccess(r) ==
  LET question == {k \in Final(r) : Interactive(r, k)}
  IN IF Shown(r) = {} THEN dialog
     ELSE IF question = {} THEN NoDialog
     ELSE LET last == CHOOSE k \in question : TRUE
          IN [transaction |-> r.data[last].tid, event |-> "ok",
              interaction |-> Interaction(r, last)]

\* The function the message box is left with: showing it again replaces it.
DialogAfter(r) ==
  LET question == {k \in Final(r) : Interactive(r, k)}
  IN IF Shown(r) = {} THEN dialog
     ELSE IF question = {} THEN NoDialog
     ELSE LET last == CHOOSE k \in question : TRUE
          IN [transaction |-> r.data[last].tid, event |-> r.events[last],
              interaction |-> Interaction(r, last)]

\* Calls this response confuses with a question: several events taken for
\* questions, a question whose message box another event or another response
\* takes over, and the events after a callback that raised.
Confused(r) ==
  LET questions == {k \in Handled(r) : Interactive(r, k)}
      mixed == IF questions # {} /\ questions # Final(r) THEN TidsAt(r, questions) ELSE {}
      cut == TidsAt(r, DOMAIN r.events \ Handled(r)) 
               \cup TidsAt(r, {k \in Handled(r) : Raises(r, k)})
      takenOver == IF Shown(r) # {} /\ dialog # NoDialog THEN {dialog.transaction} ELSE {}
  IN mixed \cup cut \cup takenOver

OnData(r) ==
  /\ r.state = "served"
  /\ requests' = requests \ {r}
  /\ results' = [c \in Calls |->
       LET K == {k \in CalledBack(r) : r.data[k].tid = c}
       IN IF K = {} THEN results[c] ELSE Append(results[c], r.events[CHOOSE k \in K : TRUE])]
  /\ transactions' = transactions \ TidsAt(r, {k \in CalledBack(r) : ~Raises(r, k)})
  /\ dialog' = DialogAfter(r)
  /\ spoilt' = spoilt \cup Confused(r)
  /\ UNCHANGED <<callBuffer, retryCount, answers, done, asked, failed>>

-----------------------------------------------------------------------------
(* No answer: onData with success = false *)

\* Mutant: retries without end.
RetriedAlways(r, k) == r.data[k].tid \in transactions

Retried(r, k) == r.data[k].tid \in transactions /\ retryCount[r.data[k].tid] < MaxRetries

RaisesLost(r, k) == ~Retried(r, k) /\ r.data[k].tid \in Raising \cap transactions

HandledLost(r) == {k \in DOMAIN r.data : \A j \in 1..(k - 1) : ~RaisesLost(r, j)}

Increasing(K) ==
  {s \in [1..Cardinality(K) -> K] : \A i, j \in DOMAIN s : i < j => s[i] < s[j]}

\* Mutant: a retry forgets the calls that were sent together.
QueueAlone(r, K, others) ==
  /\ callBuffer' = callBuffer
  /\ requests' = others \cup {SendRequest(<<c>>) : c \in TidsAt(r, K) \cap Alone}

\* queueTransaction for the calls at the indices K of a request, one by one.
QueueInOrder(r, K, others) ==
  /\ \E s \in Increasing({k \in K : r.data[k].tid \notin Alone}) :
       callBuffer' = callBuffer \o [i \in DOMAIN s |-> r.data[s[i]].tid]
  /\ requests' = others \cup {SendRequest(<<c>>) : c \in TidsAt(r, K) \cap Alone}

\* The connection breaks or its time-out of five minutes passes: before the
\* request is served (the server may still serve it) or after.
OnFailure(r) ==
  /\ r.state \in {"sent", "served"}
  /\ LET again == {k \in HandledLost(r) : Retried(r, k)}
         told == {k \in HandledLost(r) \ again : r.data[k].tid \in transactions}
     IN /\ retryCount' = [c \in Calls |->
             IF c \in TidsAt(r, again) THEN retryCount[c] + 1 ELSE retryCount[c]]
        /\ results' = [c \in Calls |->
             IF c \in TidsAt(r, told) THEN Append(results[c], "lost") ELSE results[c]]
        /\ transactions' = transactions \ TidsAt(r, {k \in told : ~RaisesLost(r, k)})
        /\ spoilt' = spoilt \cup TidsAt(r, (DOMAIN r.data \ HandledLost(r))
                                             \cup {k \in told : RaisesLost(r, k)})
        /\ failed' = failed \cup Tids(r)
        /\ UNCHANGED <<answers, dialog, done, asked>>
        /\ QueueInOrder(r, again, (requests \ {r}) \cup
             (IF r.state = "sent" THEN {[r EXCEPT !.state = "abandoned"]} ELSE {}))

-----------------------------------------------------------------------------
(* The user answers a question: the function given to interactWithUser *)

\* Mutant: one context for all calls.
StoreForAll == answers' = [c \in Calls |-> answers[c] \cup {dialog.interaction}]

StoreAnswer ==
  answers' = [answers EXCEPT ![dialog.transaction] = @ \cup {dialog.interaction}]

AnswerYes ==
  /\ dialog # NoDialog
  /\ dialog' = NoDialog
  /\ StoreAnswer
  /\ retryCount' = [retryCount EXCEPT ![dialog.transaction] = @ + 1]
  /\ UNCHANGED <<transactions, history>>
  /\ QueueTransaction(dialog.transaction, requests)

\* The "No" button, or closing the box: skipRetry.
AnswerNo ==
  /\ dialog # NoDialog
  /\ dialog' = NoDialog
  /\ StoreAnswer
  /\ LET c == dialog.transaction
         raises == c \in Raising /\ dialog.event # "ok"
     IN /\ results' = [results EXCEPT ![c] =
             Append(@, IF dialog.event = "ok" THEN "ok" ELSE "refused")]
        /\ transactions' = IF raises THEN transactions ELSE transactions \ {c}
        /\ spoilt' = IF raises THEN spoilt \cup {c} ELSE spoilt
  /\ UNCHANGED <<callBuffer, retryCount, requests, done, asked, failed>>

-----------------------------------------------------------------------------
Init ==
  /\ transactions = {} /\ callBuffer = <<>> /\ requests = {}
  /\ retryCount = [c \in Calls |-> 0]
  /\ answers = [c \in Calls |-> {}]
  /\ dialog = NoDialog
  /\ results = [c \in Calls |-> <<>>]
  /\ done = [c \in Calls |-> 0]
  /\ asked = [c \in Calls |-> {}]
  /\ failed = {} /\ spoilt = {}

Next ==
  \/ \E c \in Calls : Issue(c)
  \/ CombineAndSend
  \/ \E r \in requests : Serve(r) \/ Vanish(r) \/ OnData(r) \/ OnFailure(r)
  \/ AnswerYes
  \/ AnswerNo

Spec == Init /\ [][Next]_vars

\* The timer of the buffer fires, a request is answered or given up when its
\* time-out passes, and the user closes the message box.
Fairness ==
  /\ WF_vars(CombineAndSend)
  /\ WF_vars(\E r \in requests : OnData(r) \/ OnFailure(r))
  /\ WF_vars(AnswerYes \/ AnswerNo)

FairSpec == Spec /\ Fairness
=============================================================================
