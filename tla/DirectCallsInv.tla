--------------------------- MODULE DirectCallsInv ---------------------------
(***************************************************************************)
(* What the remote calls of the client guarantee.                          *)
(***************************************************************************)
EXTENDS DirectCalls

Waiting == {r \in requests : r.state # "abandoned"}

Buffered == {callBuffer[k] : k \in DOMAIN callBuffer}

Events == {"ok", "refused"} \cup Interactions

Request ==
  [data : Seq([tid : Calls, answers : SUBSET Interactions, retry : Nat]),
   state : {"sent", "served", "abandoned"},
   events : Seq(Events)]

TypeOK ==
  /\ transactions \subseteq Calls
  /\ callBuffer \in Seq(Calls \ Alone)
  /\ retryCount \in [Calls -> Nat]
  /\ answers \in [Calls -> SUBSET Interactions]
  /\ dialog \in {NoDialog} \cup
       [transaction : Calls, event : Events, interaction : Interactions]
  /\ requests \subseteq Request
  /\ \A r \in requests :
       DOMAIN r.events = IF r.state = "served" THEN DOMAIN r.data ELSE {}
  /\ results \in [Calls -> Seq({"ok", "refused", "lost"})]
  /\ done \in [Calls -> Nat]
  /\ asked \in [Calls -> SUBSET Interactions]
  /\ failed \subseteq Calls /\ spoilt \subseteq Calls

\* A call that waits in the buffer or in a request ...
Underway == Buffered \cup UNION {Tids(r) : r \in Waiting}

\* ... waits in one place.
Once ==
  /\ \A j, k \in DOMAIN callBuffer : callBuffer[j] = callBuffer[k] => j = k
  /\ \A r \in Waiting : \A j, k \in DOMAIN r.data : r.data[j].tid = r.data[k].tid => j = k
  /\ \A r, s \in Waiting : r # s => Tids(r) \cap Tids(s) = {}
  /\ \A r \in Waiting : Tids(r) \cap Buffered = {}

Unanswered(c) == c \in transactions /\ results[c] = <<>>

\* A call whose answer is still awaited is waited for in one place only - the
\* buffer, a request or the message box - and is registered: no attempt of a
\* call is under way twice (retry, queueTransaction, the message box).
OneAttempt ==
  /\ Once
  /\ dialog # NoDialog => /\ dialog.transaction \notin Underway
                          /\ Unanswered(dialog.transaction)
  /\ \A c \in Underway : Unanswered(c)

\* The callback of a call is never run twice, not even by a response that
\* mixes answers with a question or by a lost answer that is asked for again.
CalledBackAtMostOnce == \A c \in Calls : Len(results[c]) <= 1

\* What is in flight has been issued, and an event that tells of a success, or a
\* message box left with one, is of a call the server has carried out.
Truthful ==
  /\ \A r \in requests :
       /\ Tids(r) \subseteq transactions \cup {c \in Calls : results[c] # <<>>}
       /\ \A k \in DOMAIN r.events : r.events[k] = "ok" => done[r.data[k].tid] > 0
  /\ dialog # NoDialog /\ dialog.event = "ok" => done[dialog.transaction] > 0

\* The inductive invariant of the calls.
CallsInv == TypeOK /\ OneAttempt /\ CalledBackAtMostOnce /\ Truthful

\* A call that no failure and no confusion with a question touched is carried
\* out once if its callback is told of a success and not at all if it is told
\* of a refusal, whatever was asked and answered in between.
ToldWhatWasDone ==
  \A c \in Calls \ (failed \cup spoilt) :
    /\ done[c] <= 1
    /\ results[c] = <<"ok">> => done[c] = 1
    /\ results[c] = <<"refused">> => done[c] = 0

\* The context of a call holds answers to questions asked for that call.
AnswersBelong == \A c \in Calls : answers[c] \subseteq asked[c]

\* ... which holds of every call that did not share its response, or the
\* message box, with the question of another.
UnmixedAnswersBelong == \A c \in Calls \ spoilt : answers[c] \subseteq asked[c]

\* No call is sent again for ever: each attempt after the first is one of the
\* allowed retries or follows an answer of the user that is new to its context.
\* (A call confused with the question of another may store an answer it has.)
AttemptsBounded ==
  \A c \in Calls \ spoilt : retryCount[c] <= MaxRetries + Cardinality(answers[c])

\* An attempt carries the answers its call has, and a question it comes back
\* with was asked for that call and is new to it, unless confused.
Fresh ==
  /\ \A c \in Calls : IsFiniteSet(answers[c])
  /\ \A r \in Waiting : \A k \in DOMAIN r.data : r.data[k].answers = answers[r.data[k].tid]
  /\ \A r \in Waiting : \A k \in DOMAIN r.events : r.events[k] \in Interactions
       => r.events[k] \in asked[r.data[k].tid] \ r.data[k].answers
  /\ dialog # NoDialog /\ dialog.transaction \notin spoilt
       => dialog.interaction \in asked[dialog.transaction] \ answers[dialog.transaction]

\* A call that no failure and no confusion touched has been carried out only if
\* the response on its way, or its callback, says so.
Fate ==
  /\ \A r \in requests : r.state = "abandoned" => Tids(r) \subseteq failed
  /\ \A c \in Calls \ (failed \cup spoilt) :
       results[c] = <<>> /\ (\A r \in requests : r.state = "served" => c \notin Tids(r))
       => done[c] = 0
  /\ \A r \in requests : r.state = "served" =>
       \A k \in DOMAIN r.events : r.data[k].tid \notin failed \cup spoilt =>
         done[r.data[k].tid] = IF r.events[k] = "ok" THEN 1 ELSE 0
  /\ dialog # NoDialog /\ dialog.transaction \notin spoilt => dialog.event \in Interactions

\* The inductive invariant of what a call is told and asked.
FateInv == Fresh /\ Fate /\ ToldWhatWasDone /\ UnmixedAnswersBelong /\ AttemptsBounded

\* Every call issued is answered, unless it is confused with a question or a
\* callback raises: a failure on the way, a retry and any number of questions
\* do not lose it.
EveryCallAnswered ==
  \A c \in Calls : c \in transactions ~> (results[c] # <<>> \/ c \in spoilt)

\* The provider keeps the promise of a remote call.
Promise == INSTANCE CallPromise
  WITH Failures <- {"refused", "lost"},
       issued <- transactions \cup {c \in Calls : results[c] # <<>>}

KeepsPromise == Promise!Spec
=============================================================================
