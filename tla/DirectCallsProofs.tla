-------------------------- MODULE DirectCallsProofs --------------------------
(***************************************************************************)
(* Proofs about DirectCalls, for any calls, questions and retries.         *)
(***************************************************************************)
EXTENDS DirectCallsInv, FiniteSetTheorems, SequenceTheorems, TLAPS

-----------------------------------------------------------------------------
(* Sequences *)

LEMMA FunctionIsSeq ==
  ASSUME NEW S, NEW n \in Nat, NEW f \in [1..n -> S]
  PROVE  f \in Seq(S) /\ Len(f) = n /\ DOMAIN f = 1..n
OBVIOUS

LEMMA Told ==
  ASSUME NEW e \in {"ok", "refused", "lost"}
  PROVE  /\ Append(<<>>, e) = <<e>>
         /\ <<e>> \in Seq({"ok", "refused", "lost"})
         /\ Len(<<e>>) = 1 /\ <<e>> # <<>>
OBVIOUS

LEMMA AnsweredOnce ==
  ASSUME CallsInv, NEW c \in Calls, results[c] = <<>>, NEW e \in {"ok", "refused", "lost"}
  PROVE  Append(results[c], e) = <<e>>
BY Told

-----------------------------------------------------------------------------
(* Requests *)

LEMMA TidsAreCalls ==
  ASSUME TypeOK, NEW r \in requests
  PROVE  /\ Tids(r) \subseteq Calls
         /\ \A k \in DOMAIN r.data : r.data[k].tid \in Tids(r)
         /\ \E n \in Nat : DOMAIN r.data = 1..n /\ n = Len(r.data)
<1> DEFINE D == [tid : Calls, answers : SUBSET Interactions, retry : Nat]
<1>1. r.data \in Seq(D)
  BY DEF TypeOK, Request
<1>2. DOMAIN r.data = 1..Len(r.data) /\ Len(r.data) \in Nat
  BY <1>1, LenProperties
<1>3. \A k \in DOMAIN r.data : r.data[k].tid \in Calls
  <2>1. \A k \in DOMAIN r.data : r.data[k] \in D
    BY <1>1, <1>2, ElementOfSeq
  <2> QED
    BY <2>1
<1> QED
  BY <1>2, <1>3 DEF Tids

Context == answers' \in [Calls -> SUBSET Interactions] /\ retryCount' \in [Calls -> Nat]

\* A request as it is sent.
LEMMA Sent ==
  ASSUME Context, NEW batch \in Seq(Calls)
  PROVE  /\ SendRequest(batch) \in Request
         /\ SendRequest(batch).state = "sent"
         /\ DOMAIN SendRequest(batch).events = {}
         /\ DOMAIN SendRequest(batch).data = DOMAIN batch
         /\ \A k \in DOMAIN batch : SendRequest(batch).data[k].tid = batch[k]
         /\ Tids(SendRequest(batch)) = {batch[k] : k \in DOMAIN batch}
<1> DEFINE D == [tid : Calls, answers : SUBSET Interactions, retry : Nat]
           data == [k \in DOMAIN batch |-> GetCallData(batch[k])]
<1>1. Len(batch) \in Nat /\ DOMAIN batch = 1..Len(batch)
  BY LenProperties
<1>2. \A k \in DOMAIN batch : GetCallData(batch[k]) \in D
  BY <1>1, ElementOfSeq DEF GetCallData, Context
<1>3. data \in Seq(D)
  <2>1. data \in [1..Len(batch) -> D]
    BY <1>1, <1>2
  <2> QED
    BY <1>1, <2>1, FunctionIsSeq
<1>4. \A k \in DOMAIN batch : data[k].tid = batch[k]
  BY DEF GetCallData
<1>5. <<>> \in Seq(Events) /\ DOMAIN <<>> = {}
  OBVIOUS
<1>6. /\ SendRequest(batch) = [data |-> data, state |-> "sent", events |-> <<>>]
      /\ DOMAIN data = DOMAIN batch
  BY DEF SendRequest
<1> HIDE DEF data
<1> QED
  BY <1>3, <1>4, <1>5, <1>6 DEF Request, Tids

\* A request whose answer may still come ...
LEMMA WaitingIs == \A r \in requests : r \in Waiting <=> r.state # "abandoned"
BY DEF Waiting

\* ... with the calls that are sent in it, once each.
LEMMA SentAlone ==
  ASSUME Context, NEW c \in Calls
  PROVE  LET q == SendRequest(<<c>>)
         IN /\ q \in Request /\ q.state = "sent" /\ DOMAIN q.events = {}
            /\ Tids(q) = {c}
            /\ \A j, k \in DOMAIN q.data : q.data[j].tid = q.data[k].tid => j = k
<1>1. <<c>> \in Seq(Calls) /\ DOMAIN <<c>> = {1} /\ <<c>>[1] = c
  OBVIOUS
<1> DEFINE q == SendRequest(<<c>>)
<1>2. /\ q \in Request /\ q.state = "sent" /\ DOMAIN q.events = {}
      /\ DOMAIN q.data = DOMAIN <<c>>
      /\ Tids(q) = {<<c>>[k] : k \in DOMAIN <<c>>}
  BY <1>1, Sent
<1>3. Tids(q) = {c}
  BY <1>1, <1>2
<1> QED
  BY <1>1, <1>2, <1>3

-----------------------------------------------------------------------------
(* Queueing a call that waits nowhere *)

Shape == \A r \in requests : DOMAIN r.events = IF r.state = "served" THEN DOMAIN r.data ELSE {}

Queue ==
  /\ callBuffer \in Seq(Calls \ Alone)
  /\ requests \subseteq Request
  /\ Shape
  /\ Once

LEMMA BufferAppended ==
  ASSUME NEW S, NEW s \in Seq(S), NEW c \in S
  PROVE  /\ Append(s, c) \in Seq(S)
         /\ DOMAIN Append(s, c) = 1..(Len(s) + 1) /\ DOMAIN s = 1..Len(s) /\ Len(s) \in Nat
         /\ \A k \in DOMAIN s : Append(s, c)[k] = s[k]
         /\ Append(s, c)[Len(s) + 1] = c
OBVIOUS

LEMMA Queued ==
  ASSUME CallsInv, Context, NEW c \in Calls, c \notin Underway, QueueTransaction(c, requests)
  PROVE  /\ Queue'
         /\ Underway' = Underway \cup {c}
         /\ \A r \in requests' : r \in requests \/ (Tids(r) = {c} /\ DOMAIN r.events = {})
<1>1. Queue
  BY DEF CallsInv, TypeOK, OneAttempt, Queue, Shape
<1>2. c \notin Buffered /\ \A r \in Waiting : c \notin Tids(r)
  BY DEF Underway
<1>3. CASE c \in Alone
  <2> DEFINE q == SendRequest(<<c>>)
  <2>1. callBuffer' = callBuffer /\ requests' = requests \cup {q}
    BY <1>3 DEF QueueTransaction
  <2>2. /\ q \in Request /\ q.state = "sent" /\ DOMAIN q.events = {}
        /\ Tids(q) = {c}
        /\ \A j, k \in DOMAIN q.data : q.data[j].tid = q.data[k].tid => j = k
    BY SentAlone
  <2> HIDE DEF q
  <2>3. Waiting' = Waiting \cup {q} /\ Buffered' = Buffered
    BY <2>1, <2>2 DEF Waiting, Buffered
  <2>4. Once'
    BY <1>1, <1>2, <2>1, <2>2, <2>3 DEF Queue, Once
  <2>5. Queue'
    BY <1>1, <2>1, <2>2, <2>4 DEF Queue, Shape
  <2>6. Underway' = Underway \cup {c}
    BY <2>2, <2>3 DEF Underway
  <2> QED
    BY <2>1, <2>2, <2>5, <2>6
<1>4. CASE c \notin Alone
  <2>1. callBuffer' = Append(callBuffer, c) /\ requests' = requests
    BY <1>4 DEF QueueTransaction
  <2>2. /\ Append(callBuffer, c) \in Seq(Calls \ Alone)
        /\ DOMAIN callBuffer' = 1..(Len(callBuffer) + 1)
        /\ DOMAIN callBuffer = 1..Len(callBuffer) /\ Len(callBuffer) \in Nat
        /\ \A k \in DOMAIN callBuffer : callBuffer'[k] = callBuffer[k]
        /\ callBuffer'[Len(callBuffer) + 1] = c
    BY <1>1, <1>4, <2>1, BufferAppended DEF Queue
  <2>3. DOMAIN callBuffer' = DOMAIN callBuffer \cup {Len(callBuffer) + 1}
    BY <2>2
  <2>4. Buffered' = Buffered \cup {c}
    BY <2>2, <2>3 DEF Buffered
  <2>5. Waiting' = Waiting
    BY <2>1 DEF Waiting
  <2>6. \A j, k \in DOMAIN callBuffer' : callBuffer'[j] = callBuffer'[k] => j = k
    BY <1>1, <1>2, <2>2, <2>3 DEF Queue, Once, Buffered
  <2>7. Once'
    BY <1>1, <1>2, <2>4, <2>5, <2>6 DEF Queue, Once
  <2>8. Queue'
    BY <1>1, <2>1, <2>2, <2>7 DEF Queue, Shape
  <2>9. Underway' = Underway \cup {c}
    BY <2>4, <2>5 DEF Underway
  <2> QED
    BY <2>1, <2>8, <2>9
<1> QED
  BY <1>3, <1>4

-----------------------------------------------------------------------------
(* The steps, one by one *)

Results == {<<>>} \cup {<<e>> : e \in {"ok", "refused", "lost"}}

Types ==
  /\ transactions \subseteq Calls
  /\ retryCount \in [Calls -> Nat]
  /\ answers \in [Calls -> SUBSET Interactions]
  /\ dialog \in {NoDialog} \cup
       [transaction : Calls, event : Events, interaction : Interactions]
  /\ results \in [Calls -> Results]
  /\ done \in [Calls -> Nat]
  /\ asked \in [Calls -> SUBSET Interactions]
  /\ failed \subseteq Calls /\ spoilt \subseteq Calls

Awaited ==
  /\ dialog # NoDialog => /\ dialog.transaction \notin Underway
                          /\ Unanswered(dialog.transaction)
  /\ \A c \in Underway : Unanswered(c)

LEMMA InResults ==
  /\ <<>> \in Results
  /\ \A e \in {"ok", "refused", "lost"} : <<e>> \in Results
BY Zenon DEF Results

LEMMA ResultsAre ==
  ASSUME NEW R
  PROVE  R \in [Calls -> Results] <=>
           /\ R \in [Calls -> Seq({"ok", "refused", "lost"})]
           /\ \A c \in Calls : Len(R[c]) <= 1
<1> DEFINE T == {"ok", "refused", "lost"}
<1>1. \A x \in Results : x \in Seq(T) /\ Len(x) <= 1
  <2>1. <<>> \in Seq(T) /\ Len(<<>>) <= 1
    OBVIOUS
  <2>2. \A e \in T : <<e>> \in Seq(T) /\ Len(<<e>>) <= 1
    OBVIOUS
  <2> QED
    BY <2>1, <2>2, Zenon DEF Results
<1>2. ASSUME NEW x \in Seq(T), Len(x) <= 1 PROVE x \in Results
  <2>1. CASE Len(x) = 0
    <3>1. x = <<>>
      BY <2>1, EmptySeq
    <3> QED
      BY <3>1, InResults, Zenon
  <2>2. CASE Len(x) = 1
    <3>1. x[1] \in T
      BY <2>2, ElementOfSeq
    <3>2. <<x[1]>> \in Seq(T) /\ Len(<<x[1]>>) = 1 /\ <<x[1]>>[1] = x[1]
      BY <3>1
    <3>3. PICK e \in T : e = x[1]
      BY <3>1
    <3>4. x = <<e>>
      BY <2>2, <3>2, <3>3, SeqEqual
    <3> QED
      BY <3>4, InResults, Zenon
  <2>3. Len(x) \in Nat
    BY LenProperties
  <2>4. Len(x) = 0 \/ Len(x) = 1
    BY <1>2, <2>3
  <2> QED
    BY <2>1, <2>2, <2>4
<1> QED
  BY <1>1, <1>2

LEMMA CallsInvIs == CallsInv <=> Types /\ Queue /\ Awaited /\ Truthful
BY ResultsAre DEF CallsInv, TypeOK, OneAttempt, CalledBackAtMostOnce, Types, Queue, Shape, Awaited

LEMMA CallsInvIsNext == CallsInv' <=> Types' /\ Queue' /\ Awaited' /\ Truthful'
BY CallsInvIs, PTL

LEMMA InitStep == Init => CallsInv
<1> SUFFICES ASSUME Init PROVE Types /\ Queue /\ Awaited /\ Truthful
  BY CallsInvIs
<1>1. <<>> \in Results /\ <<>> \in Seq(Calls \ Alone) /\ DOMAIN <<>> = {}
  BY DEF Results
<1>2. Waiting = {} /\ Buffered = {}
  BY <1>1 DEF Init, Waiting, Buffered
<1>3. Types
  BY <1>1 DEF Init, Types
<1>4. Queue
  BY <1>1, <1>2 DEF Init, Queue, Shape, Once
<1>5. Awaited /\ Truthful
  BY <1>2 DEF Init, Awaited, Truthful, Underway
<1> QED
  BY <1>3, <1>4, <1>5

LEMMA IssueStep ==
  ASSUME CallsInv, NEW c \in Calls, Issue(c)
  PROVE  CallsInv'
<1>1. Types /\ Queue /\ Awaited /\ Truthful
  BY CallsInvIs
<1>2. c \notin Underway
  BY <1>1 DEF Awaited, Unanswered, Issue
<1>3. Context
  BY <1>1 DEF Context, Types, Issue
<1>4. /\ Queue'
      /\ Underway' = Underway \cup {c}
      /\ \A r \in requests' : r \in requests \/ (Tids(r) = {c} /\ DOMAIN r.events = {})
  BY <1>2, <1>3, Queued DEF Issue
<1>5. Types'
  BY <1>1 DEF Types, Issue, history
<1>6. Awaited'
  BY <1>1, <1>4 DEF Awaited, Unanswered, Issue, history, Types
<1>7. Truthful'
  BY <1>1, <1>4 DEF Truthful, Issue, history, Types
<1> QED
  BY <1>4, <1>5, <1>6, <1>7, CallsInvIsNext

LEMMA CombineAndSendStep ==
  ASSUME CallsInv, CombineAndSend
  PROVE  CallsInv'
<1>1. Types /\ Queue /\ Awaited /\ Truthful
  BY CallsInvIs
<1> DEFINE q == SendRequest(callBuffer)
<1>2. callBuffer \in Seq(Calls) /\ DOMAIN callBuffer = 1..Len(callBuffer)
  BY <1>1, LenProperties DEF Queue
<1>3. Context
  BY <1>1 DEF Context, Types, CombineAndSend
<1>4. /\ q \in Request /\ q.state = "sent" /\ DOMAIN q.events = {}
      /\ DOMAIN q.data = DOMAIN callBuffer
      /\ \A k \in DOMAIN callBuffer : q.data[k].tid = callBuffer[k]
      /\ Tids(q) = Buffered
  BY <1>2, <1>3, Sent DEF Buffered
<1>5. requests' = requests \cup {q} /\ callBuffer' = <<>>
  BY DEF CombineAndSend
<1> HIDE DEF q
<1>6. <<>> \in Seq(Calls \ Alone) /\ DOMAIN <<>> = {}
  OBVIOUS
<1>7. Waiting' = Waiting \cup {q} /\ Buffered' = {}
  BY <1>4, <1>5, <1>6 DEF Waiting, Buffered
<1>8. Once'
  BY <1>1, <1>4, <1>5, <1>6, <1>7 DEF Queue, Once
<1>9. Queue'
  BY <1>1, <1>4, <1>5, <1>6, <1>8 DEF Queue, Shape
<1>10. Underway' = Underway
  BY <1>4, <1>7 DEF Underway
<1>11. Types'
  BY <1>1 DEF Types, CombineAndSend, history
<1>12. Awaited'
  BY <1>1, <1>10 DEF Awaited, Unanswered, CombineAndSend, history
<1>13. Truthful'
  <2>1. \A c \in Buffered : c \in transactions
    BY <1>1 DEF Awaited, Unanswered, Underway
  <2> QED
    BY <1>1, <1>4, <1>5, <2>1 DEF Truthful, CombineAndSend, history
<1> QED
  BY <1>9, <1>11, <1>12, <1>13, CallsInvIsNext

LEMMA ServeStep ==
  ASSUME CallsInv, NEW r \in requests, Serve(r)
  PROVE  CallsInv'
<1>1. Types /\ Queue /\ Awaited /\ Truthful
  BY CallsInvIs
<1>2. PICK ev \in Verdicts(r) :
       /\ done' = [c \in Calls |->
            IF \E k \in DOMAIN ev : r.data[k].tid = c /\ ev[k] = "ok"
            THEN done[c] + 1 ELSE done[c]]
       /\ asked' = [c \in Calls |-> asked[c] \cup
            {ev[k] : k \in {k \in DOMAIN ev : r.data[k].tid = c /\ ev[k] \in Interactions}}]
       /\ requests' = (requests \ {r}) \cup
            (IF r.state = "sent" THEN {[r EXCEPT !.state = "served", !.events = ev]} ELSE {})
  BY DEF Serve
<1> DEFINE q == [r EXCEPT !.state = "served", !.events = ev]
<1>3. PICK n \in Nat : DOMAIN r.data = 1..n
  BY TidsAreCalls DEF CallsInv
<1>4. r \in Request
  BY <1>1 DEF Queue
<1>5. ev \in [1..n -> Events]
  BY <1>3 DEF Verdicts, Events
<1>6. ev \in Seq(Events) /\ DOMAIN ev = DOMAIN r.data
  BY <1>3, <1>5, FunctionIsSeq
<1>7. /\ q \in Request /\ q.state = "served" /\ q.events = ev /\ q.data = r.data
      /\ Tids(q) = Tids(r)
  BY <1>4, <1>6 DEF Request, Tids
<1>8. requests' = (requests \ {r}) \cup (IF r.state = "sent" THEN {q} ELSE {})
  BY <1>2
<1> HIDE DEF q
<1>9. UNCHANGED <<transactions, callBuffer, retryCount, answers, dialog, results, failed, spoilt>>
  BY DEF Serve, provider
<1>10. Buffered' = Buffered
  BY <1>9 DEF Buffered
<1>11. r.state \in {"sent", "abandoned"}
  BY DEF Serve
<1>12. Waiting' = IF r.state = "sent" THEN (Waiting \ {r}) \cup {q} ELSE Waiting
  BY <1>7, <1>8, <1>11 DEF Waiting
<1>13. r.state = "sent" => r \in Waiting
  BY DEF Waiting
<1>14. Once'
  BY <1>1, <1>7, <1>9, <1>10, <1>12, <1>13 DEF Queue, Once
<1>15. Queue'
  BY <1>1, <1>6, <1>7, <1>8, <1>9, <1>14 DEF Queue, Shape
<1>16. Underway' = Underway
  BY <1>7, <1>10, <1>12, <1>13 DEF Underway
<1>17. Types'
  <2>1. done' \in [Calls -> Nat]
    BY <1>1, <1>2 DEF Types
  <2>2. asked' \in [Calls -> SUBSET Interactions]
    BY <1>1, <1>2 DEF Types
  <2> QED
    BY <1>1, <1>9, <2>1, <2>2 DEF Types
<1>18. Awaited'
  BY <1>1, <1>9, <1>16 DEF Awaited, Unanswered
<1>19. Truthful'
  <2>1. \A c \in Calls : done[c] > 0 => done'[c] > 0
    BY <1>1, <1>2 DEF Types
  <2>2. \A k \in DOMAIN ev : ev[k] = "ok" => done'[r.data[k].tid] > 0
    <3>1. \A k \in DOMAIN ev : r.data[k].tid \in Calls
      BY <1>6, TidsAreCalls DEF CallsInv
    <3> QED
      BY <1>1, <1>2, <3>1 DEF Types
  <2>3. ASSUME NEW s \in requests' PROVE
          /\ Tids(s) \subseteq transactions' \cup {c \in Calls : results'[c] # <<>>}
          /\ \A k \in DOMAIN s.events : s.events[k] = "ok" => done'[s.data[k].tid] > 0
    <3>1. CASE s \in requests
      <4>1. \A k \in DOMAIN s.events : s.data[k].tid \in Calls
        BY <1>1, <3>1, TidsAreCalls DEF CallsInv, Queue, Shape
      <4> QED
        BY <1>1, <1>9, <2>1, <3>1, <4>1 DEF Truthful
    <3>2. CASE s = q
      BY <1>1, <1>7, <1>9, <2>2, <3>2 DEF Truthful
    <3> QED
      BY <1>8, <3>1, <3>2
  <2>4. dialog' # NoDialog /\ dialog'.event = "ok" => done'[dialog'.transaction] > 0
    <3>1. dialog # NoDialog => dialog.transaction \in Calls
      BY <1>1 DEF Types
    <3> QED
      BY <1>1, <1>9, <2>1, <3>1 DEF Truthful
  <2> QED
    BY <2>3, <2>4 DEF Truthful
<1> QED
  BY <1>15, <1>17, <1>18, <1>19, CallsInvIsNext

LEMMA VanishStep ==
  ASSUME CallsInv, NEW r \in requests, Vanish(r)
  PROVE  CallsInv'
<1>1. Types /\ Queue /\ Awaited /\ Truthful
  BY CallsInvIs
<1>2. Waiting' = Waiting /\ Buffered' = Buffered
  BY DEF Waiting, Buffered, Vanish, provider
<1>3. Underway' = Underway
  BY <1>2 DEF Underway
<1>4. Queue'
  BY <1>1, <1>2 DEF Queue, Shape, Once, Vanish, provider
<1>5. Types'
  BY <1>1 DEF Types, Vanish, provider, history
<1>6. Awaited'
  BY <1>1, <1>3 DEF Awaited, Unanswered, Vanish, provider, history
<1>7. Truthful'
  BY <1>1 DEF Truthful, Vanish, provider, history
<1> QED
  BY <1>4, <1>5, <1>6, <1>7, CallsInvIsNext

\* A response: its calls wait for it, once each, and are told what it says.
LEMMA Responded ==
  ASSUME CallsInv, NEW r \in requests, r.state = "served"
  PROVE  /\ r \in Waiting
         /\ \A k \in DOMAIN r.data : /\ r.data[k].tid \in Calls \cap Tids(r)
                                     /\ Unanswered(r.data[k].tid)
         /\ DOMAIN r.events = DOMAIN r.data
         /\ \A k \in DOMAIN r.events : r.events[k] \in Events
         /\ \A k \in CalledBack(r) : /\ k \in DOMAIN r.events
                                     /\ r.events[k] \in {"ok", "refused"}
                                     /\ ~Interactive(r, k)
         /\ \A k \in DOMAIN r.events : Interactive(r, k) => Interaction(r, k) \in Interactions
<1>1. Types /\ Queue /\ Awaited /\ Truthful
  BY CallsInvIs
<1>2. r \in Waiting
  BY DEF Waiting
<1>3. \A k \in DOMAIN r.data : r.data[k].tid \in Calls \cap Tids(r) /\ Unanswered(r.data[k].tid)
  <2>1. \A c \in Tids(r) : Unanswered(c)
    BY <1>1, <1>2 DEF Awaited, Underway
  <2> QED
    BY <2>1, TidsAreCalls DEF CallsInv
<1>4. DOMAIN r.events = DOMAIN r.data
  BY <1>1 DEF Queue, Shape
<1>5. \A k \in DOMAIN r.events : r.events[k] \in Events /\ k \in Nat
  <2>1. r.events \in Seq(Events)
    BY <1>1 DEF Queue, Request
  <2>2. DOMAIN r.events = 1..Len(r.events) /\ Len(r.events) \in Nat
    BY <2>1, LenProperties
  <2> QED
    BY <2>1, <2>2, ElementOfSeq
<1>6. \A k \in DOMAIN r.events : r.events[k] \in Interactions => Interactive(r, k)
  <2> SUFFICES ASSUME NEW k \in DOMAIN r.events, r.events[k] \in Interactions
               PROVE  k \in QuestionAt(r, k)
    BY DEF Interactive
  <2>1. k \in 1..k /\ (k + 1)..k = {}
    <3>1. DOMAIN r.events \in {1..n : n \in Nat}
      BY <1>4, TidsAreCalls DEF CallsInv
    <3> QED
      BY <3>1
  <2> QED
    BY <2>1 DEF QuestionAt
<1>7. \A k \in CalledBack(r) : /\ k \in DOMAIN r.events
                               /\ r.events[k] \in {"ok", "refused"}
                               /\ ~Interactive(r, k)
  BY <1>5, <1>6 DEF CalledBack, Handled, Events
<1>8. \A k \in DOMAIN r.events : Interactive(r, k) => Interaction(r, k) \in Interactions
  BY DEF Interactive, Interaction, QuestionAt
<1> QED
  BY <1>2, <1>3, <1>4, <1>5, <1>7, <1>8

\* The message box after a response: as it was, without a function to call, or
\* with the values of a call of the response whose callback is not run.
LEMMA DialogOf ==
  ASSUME CallsInv, NEW r \in requests, r.state = "served"
  PROVE  \/ DialogAfter(r) \in {dialog, NoDialog}
         \/ \E k \in DOMAIN r.data \ CalledBack(r) :
              /\ Interaction(r, k) \in Interactions
              /\ DialogAfter(r) = [transaction |-> r.data[k].tid, event |-> r.events[k],
                                   interaction |-> Interaction(r, k)]
<1> DEFINE question == {k \in Final(r) : Interactive(r, k)}
           last == CHOOSE k \in question : TRUE
<1>1. CASE Shown(r) = {} \/ question = {}
  BY <1>1 DEF DialogAfter
<1>2. CASE Shown(r) # {} /\ question # {}
  <2>1. last \in question
    BY <1>2
  <2>2. /\ last \in DOMAIN r.data \ CalledBack(r)
        /\ Interaction(r, last) \in Interactions
    BY <2>1, Responded DEF Final, Handled
  <2>3. DialogAfter(r) = [transaction |-> r.data[last].tid, event |-> r.events[last],
                          interaction |-> Interaction(r, last)]
    BY <1>2 DEF DialogAfter
  <2> HIDE DEF last
  <2> QED
    BY <2>2, <2>3
<1> QED
  BY <1>1, <1>2

LEMMA OnDataStep ==
  ASSUME CallsInv, NEW r \in requests, OnData(r)
  PROVE  CallsInv'
<1>1. Types /\ Queue /\ Awaited /\ Truthful
  BY CallsInvIs
<1> DEFINE K(c) == {k \in CalledBack(r) : r.data[k].tid = c}
           given(c) == r.events[CHOOSE k \in K(c) : TRUE]
<1>2. /\ r.state = "served" /\ requests' = requests \ {r}
      /\ results' = [c \in Calls |-> IF K(c) = {} THEN results[c]
                                     ELSE Append(results[c], given(c))]
      /\ transactions' = transactions \ TidsAt(r, {k \in CalledBack(r) : ~Raises(r, k)})
      /\ dialog' = DialogAfter(r)
      /\ spoilt' = spoilt \cup Confused(r)
      /\ UNCHANGED <<callBuffer, retryCount, answers, done, asked, failed>>
  BY DEF OnData
<1>3. /\ r \in Waiting /\ DOMAIN r.events = DOMAIN r.data
      /\ \A k \in DOMAIN r.data : /\ r.data[k].tid \in Calls \cap Tids(r)
                                  /\ Unanswered(r.data[k].tid)
      /\ \A k \in DOMAIN r.events : r.events[k] \in Events
      /\ \A k \in CalledBack(r) : k \in DOMAIN r.events /\ r.events[k] \in {"ok", "refused"}
  BY <1>2, Responded
<1>4. \A c \in Calls : K(c) # {} =>
        given(c) \in {"ok", "refused"} /\ c \in Tids(r) /\ results[c] = <<>>
  BY <1>3 DEF Unanswered
<1> HIDE DEF given
<1>5. \A c \in Calls : IF K(c) = {} THEN results'[c] = results[c]
                       ELSE results[c] = <<>> /\ results'[c] = <<given(c)>>
  BY <1>2, <1>4, AnsweredOnce
<1>6. Waiting' = Waiting \ {r} /\ Buffered' = Buffered
  BY <1>2, <1>3 DEF Waiting, Buffered
<1>7. /\ Underway' \subseteq Underway
      /\ \A c \in Tids(r) : c \notin Underway'
  BY <1>1, <1>3, <1>6 DEF Queue, Once, Underway
<1>8. Queue'
  BY <1>1, <1>2, <1>6 DEF Queue, Shape, Once
<1>9. Types'
  <2>1. results' \in [Calls -> Results]
    BY <1>1, <1>2, <1>4, <1>5, InResults, Zenon DEF Types
  <2>2. dialog' \in {NoDialog} \cup
          [transaction : Calls, event : Events, interaction : Interactions]
    <3>1. CASE dialog' \in {dialog, NoDialog}
      BY <1>1, <3>1 DEF Types
    <3>2. CASE \E k \in DOMAIN r.data : /\ Interaction(r, k) \in Interactions
            /\ dialog' = [transaction |-> r.data[k].tid, event |-> r.events[k],
                          interaction |-> Interaction(r, k)]
      BY <1>3, <3>2
    <3> QED
      BY <1>2, <3>1, <3>2, DialogOf
  <2>3. spoilt' \subseteq Calls
    <3>1. \A k \in Handled(r) : k \in DOMAIN r.data
      BY <1>3 DEF Handled
    <3>2. dialog # NoDialog => dialog.transaction \in Calls
      BY <1>1 DEF Types
    <3>3. Confused(r) \subseteq Calls
      BY <1>3, <3>1, <3>2 DEF Confused, TidsAt
    <3> QED
      BY <1>1, <1>2, <3>3 DEF Types
  <2> QED
    BY <1>1, <1>2, <2>1, <2>2, <2>3 DEF Types
<1>10. \A c \in Calls : c \in transactions /\ K(c) = {} => c \in transactions'
  BY <1>2 DEF TidsAt
<1>11. \A c \in Calls : K(c) = {} /\ Unanswered(c) => (c \in transactions' /\ results'[c] = <<>>)
  BY <1>5, <1>10 DEF Unanswered
<1>12. \A c \in Calls \ Tids(r) : K(c) = {}
  BY <1>4
<1>13. Awaited'
  <2>1. ASSUME NEW c \in Underway' PROVE c \in transactions' /\ results'[c] = <<>>
    <3>1. c \in Underway /\ c \notin Tids(r)
      BY <1>7, <2>1
    <3>2. Unanswered(c) /\ c \in Calls
      BY <1>1, <3>1 DEF Awaited, Unanswered, Types
    <3> QED
      BY <1>11, <1>12, <3>1, <3>2
  <2>2. ASSUME dialog' # NoDialog
        PROVE  /\ dialog'.transaction \notin Underway'
               /\ dialog'.transaction \in transactions' /\ results'[dialog'.transaction] = <<>>
    <3>1. CASE dialog' = dialog
      <4>1. dialog.transaction \notin Underway /\ Unanswered(dialog.transaction)
        BY <1>1, <2>2, <3>1 DEF Awaited
      <4>2. dialog.transaction \in Calls \ Tids(r)
        BY <1>1, <1>3, <4>1 DEF Underway, Unanswered, Types
      <4> QED
        BY <1>7, <1>11, <1>12, <3>1, <4>1, <4>2
    <3>2. CASE \E k \in DOMAIN r.data \ CalledBack(r) :
              dialog' = [transaction |-> r.data[k].tid, event |-> r.events[k],
                         interaction |-> Interaction(r, k)]
      <4>1. PICK k \in DOMAIN r.data \ CalledBack(r) : dialog'.transaction = r.data[k].tid
        BY <3>2
      <4>2. K(r.data[k].tid) = {}
        BY <1>1, <1>3, <4>1 DEF Queue, Once
      <4> QED
        BY <1>3, <1>7, <1>11, <4>1, <4>2
    <3> QED
      BY <1>2, <2>2, <3>1, <3>2, DialogOf
  <2> QED
    BY <2>1, <2>2 DEF Awaited, Unanswered
<1>14. Truthful'
  <2>1. \A c \in Calls : c \in transactions => c \in transactions' \/ results'[c] # <<>>
    BY <1>5, <1>10, Told
  <2>2. \A c \in Calls : results[c] # <<>> => results'[c] # <<>>
    BY <1>5
  <2>3. ASSUME NEW s \in requests' PROVE
          /\ Tids(s) \subseteq transactions' \cup {c \in Calls : results'[c] # <<>>}
          /\ \A k \in DOMAIN s.events : s.events[k] = "ok" => done'[s.data[k].tid] > 0
    <3>1. Tids(s) \subseteq Calls
      BY <1>2, TidsAreCalls DEF CallsInv
    <3> QED
      BY <1>1, <1>2, <2>1, <2>2, <3>1 DEF Truthful
  <2>4. dialog' # NoDialog /\ dialog'.event = "ok" => done'[dialog'.transaction] > 0
    BY <1>1, <1>2, <1>3, DialogOf DEF Truthful
  <2> QED
    BY <2>3, <2>4 DEF Truthful
<1> QED
  BY <1>8, <1>9, <1>13, <1>14, CallsInvIsNext

\* Calls requeued one after the other.
LEMMA IncreasingIs ==
  ASSUME NEW n \in Nat, NEW K, K \subseteq 1..n, NEW s \in Increasing(K)
  PROVE  /\ \E m \in Nat : s \in [1..m -> K]
         /\ \A i, j \in DOMAIN s : s[i] = s[j] => i = j
<1>1. IsFiniteSet(K)
  <2>1. IsFiniteSet(1..n)
    BY FS_Interval
  <2>2. K \in SUBSET (1..n)
    OBVIOUS
  <2> QED
    BY <2>1, <2>2, FS_Subset
<1>2. Cardinality(K) \in Nat
  BY <1>1, FS_CardinalityType
<1>3. s \in [1..Cardinality(K) -> K] /\ \A i, j \in DOMAIN s : i < j => s[i] < s[j]
  BY DEF Increasing
<1>4. \A i, j \in DOMAIN s : s[i] = s[j] => i = j
  <2> SUFFICES ASSUME NEW i \in DOMAIN s, NEW j \in DOMAIN s, i < j PROVE s[i] # s[j]
    BY <1>2, <1>3
  <2>1. s[i] \in 1..n /\ s[j] \in 1..n /\ s[i] < s[j]
    BY <1>3
  <2> QED
    BY <2>1
<1> QED
  BY <1>2, <1>3, <1>4

OneToOne(f) == \A i, j \in DOMAIN f : f[i] = f[j] => i = j

Elements(f) == {f[i] : i \in DOMAIN f}

LEMMA ConcatIs ==
  ASSUME NEW S, NEW s \in Seq(S), NEW g \in Seq(S)
  PROVE  /\ s \o g \in Seq(S) /\ DOMAIN (s \o g) = 1..(Len(s) + Len(g))
         /\ \A i \in 1..(Len(s) + Len(g)) :
              (s \o g)[i] = IF i <= Len(s) THEN s[i] ELSE g[i - Len(s)]
BY ConcatProperties, LenProperties

LEMMA Concatenated ==
  ASSUME NEW S, NEW s \in Seq(S), NEW g \in Seq(S), OneToOne(s), OneToOne(g),
         Elements(s) \cap Elements(g) = {}
  PROVE  /\ s \o g \in Seq(S) /\ OneToOne(s \o g)
         /\ Elements(s \o g) = Elements(s) \cup Elements(g)
<1> DEFINE c == s \o g
           m == Len(g)
<1>1. DOMAIN g = 1..m /\ m \in Nat
  BY LenProperties
<1>2. DOMAIN s = 1..Len(s) /\ Len(s) \in Nat
  BY LenProperties
<1>3. /\ c \in Seq(S) /\ DOMAIN c = 1..(Len(s) + m)
      /\ \A i \in 1..(Len(s) + m) : c[i] = IF i <= Len(s) THEN s[i] ELSE g[i - Len(s)]
  BY ConcatIs
<1> HIDE DEF c, m
<1>4. \A i, j \in DOMAIN c : c[i] = c[j] => i = j
  <2> SUFFICES ASSUME NEW i \in 1..(Len(s) + m), NEW j \in 1..(Len(s) + m), c[i] = c[j], i <= j
               PROVE  i = j
    BY <1>2, <1>3
  <2>1. CASE j <= Len(s)
    BY <1>2, <1>3, <2>1 DEF OneToOne
  <2>2. CASE i > Len(s)
    <3>1. i - Len(s) \in 1..m /\ j - Len(s) \in 1..m
      BY <1>1, <1>2, <2>2
    <3>2. g[i - Len(s)] = g[j - Len(s)]
      BY <1>2, <1>3, <2>2
    <3>3. i - Len(s) = j - Len(s)
      BY <1>1, <3>1, <3>2 DEF OneToOne
    <3> QED
      BY <1>2, <3>3
  <2>3. CASE i <= Len(s) /\ j > Len(s)
    <3>1. i \in DOMAIN s /\ j - Len(s) \in 1..m
      BY <1>1, <1>2, <2>3
    <3>2. s[i] = g[j - Len(s)]
      BY <1>2, <1>3, <2>3
    <3>3. s[i] \in Elements(s) \cap Elements(g)
      BY <1>1, <3>1, <3>2 DEF Elements
    <3> QED
      BY <3>3
  <2> QED
    BY <1>2, <2>1, <2>2, <2>3
<1>5. {c[i] : i \in DOMAIN c} = {s[i] : i \in DOMAIN s} \cup {g[j] : j \in 1..m}
  <2>1. \A i \in DOMAIN s : i \in DOMAIN c /\ c[i] = s[i]
    BY <1>1, <1>2, <1>3
  <2>2. \A j \in 1..m : j + Len(s) \in DOMAIN c /\ c[j + Len(s)] = g[j]
    BY <1>1, <1>2, <1>3
  <2>3. \A i \in DOMAIN c : i \in DOMAIN s \/ (i - Len(s) \in 1..m /\ c[i] = g[i - Len(s)])
    BY <1>1, <1>2, <1>3
  <2>4. {c[i] : i \in DOMAIN c} \subseteq {s[i] : i \in DOMAIN s} \cup {g[j] : j \in 1..m}
    <3> SUFFICES ASSUME NEW i \in DOMAIN c
                 PROVE  c[i] \in {s[k] : k \in DOMAIN s} \cup {g[j] : j \in 1..m}
      OBVIOUS
    <3> QED
      BY <2>1, <2>3
  <2>5. {s[i] : i \in DOMAIN s} \subseteq {c[i] : i \in DOMAIN c}
    BY <2>1
  <2>6. {g[j] : j \in 1..m} \subseteq {c[i] : i \in DOMAIN c}
    <3> SUFFICES ASSUME NEW j \in 1..m PROVE \E i \in DOMAIN c : c[i] = g[j]
      OBVIOUS
    <3> QED
      BY <2>2
  <2> QED
    BY <2>4, <2>5, <2>6
<1> QED
  BY <1>1, <1>3, <1>4, <1>5 DEF c, OneToOne, Elements

\* The calls of a failed request that are sent again: those with a time-out in
\* requests of their own, the others in the buffer.
LEMMA Requeued ==
  ASSUME CallsInv, Context, NEW r \in Waiting, NEW K, K \subseteq DOMAIN r.data,
         NEW left, left \subseteq {[r EXCEPT !.state = "abandoned"]},
         r.state = "sent" \/ left = {},
         QueueInOrder(r, K, (requests \ {r}) \cup left)
  PROVE  /\ Queue'
         /\ Underway' \subseteq (Underway \ Tids(r)) \cup TidsAt(r, K)
         /\ \A q \in requests' : \/ q \in requests
                                 \/ Tids(q) \subseteq Tids(r) /\ DOMAIN q.events = {}
<1>1. Types /\ Queue /\ Awaited /\ Truthful
  BY CallsInvIs
<1>2. r \in requests /\ r \in Request
  BY <1>1 DEF Waiting, Queue
<1>3. PICK n \in Nat : DOMAIN r.data = 1..n
  BY <1>2, TidsAreCalls DEF CallsInv
<1>4. \A k \in DOMAIN r.data : r.data[k].tid \in Tids(r) /\ r.data[k].tid \in Calls
  BY <1>2, TidsAreCalls DEF CallsInv
<1> DEFINE J == {k \in K : r.data[k].tid \notin Alone}
           A == TidsAt(r, K) \cap Alone
           alone == {SendRequest(<<c>>) : c \in A}
<1>5. PICK s \in Increasing(J) : callBuffer' = callBuffer \o [i \in DOMAIN s |-> r.data[s[i]].tid]
  BY DEF QueueInOrder
<1>6. requests' = (requests \ {r}) \cup left \cup alone
  BY DEF QueueInOrder
<1> DEFINE g == [i \in DOMAIN s |-> r.data[s[i]].tid]
<1>7. PICK m \in Nat : s \in [1..m -> J] /\ \A i, j \in DOMAIN s : s[i] = s[j] => i = j
  <2>1. J \subseteq 1..n
    BY <1>3
  <2> HIDE DEF J
  <2> QED
    BY <2>1, IncreasingIs
<1>8. \A i \in 1..m : /\ g[i] \in Calls \ Alone /\ g[i] \in TidsAt(r, K)
                      /\ g[i] \in Tids(r) \ Buffered
  <2>1. \A i \in 1..m : g[i] = r.data[s[i]].tid /\ s[i] \in J
    BY <1>7
  <2>2. Tids(r) \cap Buffered = {}
    BY <1>1 DEF Queue, Once
  <2> QED
    BY <1>4, <2>1, <2>2 DEF TidsAt
<1>9. OneToOne(g)
  <2>1. \A j, k \in J : r.data[j].tid = r.data[k].tid => j = k
    BY <1>1 DEF Queue, Once
  <2> QED
    BY <1>7, <2>1 DEF OneToOne
<1>10. g \in [1..m -> Calls \ Alone]
  BY <1>7, <1>8
<1>11. callBuffer' = callBuffer \o g
  BY <1>5
<1> HIDE DEF g
<1>12. g \in Seq(Calls \ Alone) /\ DOMAIN g = 1..m
  BY <1>10, FunctionIsSeq
<1>13. callBuffer \in Seq(Calls \ Alone) /\ OneToOne(callBuffer)
  BY <1>1 DEF Queue, Once, OneToOne
<1>14. Elements(callBuffer) = Buffered /\ Elements(callBuffer) \cap Elements(g) = {}
  BY <1>8, <1>12 DEF Buffered, Elements
<1>15. /\ callBuffer' \in Seq(Calls \ Alone) /\ OneToOne(callBuffer')
       /\ Buffered' = Buffered \cup Elements(g)
  <2>1. Buffered' = Elements(callBuffer')
    BY DEF Buffered, Elements
  <2> QED
    BY <1>9, <1>11, <1>12, <1>13, <1>14, <2>1, Concatenated
<1>16. A \subseteq Calls /\ A \subseteq Tids(r) /\ A \subseteq TidsAt(r, K)
  BY <1>4 DEF TidsAt
<1> HIDE DEF J, A
<1>17. \A q \in alone : /\ q \in Request /\ q.state = "sent" /\ DOMAIN q.events = {}
                        /\ \A j, k \in DOMAIN q.data : q.data[j].tid = q.data[k].tid => j = k
                        /\ \E c \in A : q = SendRequest(<<c>>) /\ Tids(q) = {c}
  BY <1>16, SentAlone
<1> HIDE DEF alone
<1>18. \A q \in left : /\ q \in Request /\ q.state = "abandoned"
                       /\ q.events = r.events /\ r.state = "sent" /\ Tids(q) = Tids(r)
  BY <1>2 DEF Request, Tids
<1>19. Waiting' = (Waiting \ {r}) \cup alone
  BY <1>6, <1>17, <1>18 DEF Waiting
<1>20. \A q \in Waiting \ {r} : Tids(q) \cap Tids(r) = {}
  BY <1>1 DEF Queue, Once
<1>21. Tids(r) \cap Buffered = {} /\ \A q \in Waiting : Tids(q) \cap Buffered = {}
  BY <1>1 DEF Queue, Once
<1>22. A \cap Elements(g) = {}
  BY <1>8, <1>12 DEF A, Elements
<1>23. Elements(g) \subseteq Tids(r) \cap TidsAt(r, K)
  BY <1>8, <1>12 DEF Elements
<1>24. Once'
  <2>1. \A q \in Waiting' : \A j, k \in DOMAIN q.data : q.data[j].tid = q.data[k].tid => j = k
    BY <1>1, <1>17, <1>19 DEF Queue, Once
  <2>2. ASSUME NEW p \in Waiting', NEW q \in Waiting', p # q PROVE Tids(p) \cap Tids(q) = {}
    <3>1. CASE p \in Waiting \ {r} /\ q \in Waiting \ {r}
      BY <1>1, <2>2, <3>1 DEF Queue, Once
    <3>2. CASE p \in Waiting \ {r} /\ q \in alone
      <4>1. Tids(q) \subseteq Tids(r)
        BY <1>16, <1>17, <3>2
      <4>2. Tids(p) \cap Tids(r) = {}
        BY <1>20, <3>2
      <4> QED
        BY <4>1, <4>2
    <3>3. CASE p \in alone /\ q \in Waiting \ {r}
      <4>1. Tids(p) \subseteq Tids(r)
        BY <1>16, <1>17, <3>3
      <4>2. Tids(q) \cap Tids(r) = {}
        BY <1>20, <3>3
      <4> QED
        BY <4>1, <4>2
    <3>4. CASE p \in alone /\ q \in alone
      <4>1. PICK a \in A : p = SendRequest(<<a>>) /\ Tids(p) = {a}
        BY <1>17, <3>4
      <4>2. PICK c \in A : q = SendRequest(<<c>>) /\ Tids(q) = {c}
        BY <1>17, <3>4
      <4> QED
        BY <2>2, <4>1, <4>2
    <3> QED
      BY <1>19, <2>2, <3>1, <3>2, <3>3, <3>4
  <2>3. ASSUME NEW q \in Waiting' PROVE Tids(q) \cap Buffered' = {}
    <3>1. CASE q \in Waiting \ {r}
      BY <1>15, <1>20, <1>21, <1>23, <3>1
    <3>2. CASE q \in alone
      BY <1>15, <1>16, <1>17, <1>21, <1>22, <3>2
    <3> QED
      BY <1>19, <2>3, <3>1, <3>2
  <2> QED
    BY <1>15, <2>1, <2>2, <2>3 DEF Once, OneToOne
<1>25. Queue'
  <2>1. requests' \subseteq Request
    BY <1>1, <1>6, <1>17, <1>18 DEF Queue
  <2>2. Shape'
    BY <1>1, <1>2, <1>6, <1>17, <1>18 DEF Queue, Shape
  <2> QED
    BY <1>15, <1>24, <2>1, <2>2 DEF Queue
<1>26. Underway' \subseteq (Underway \ Tids(r)) \cup TidsAt(r, K)
  <2>1. Buffered \subseteq Underway \ Tids(r)
    BY <1>21 DEF Underway
  <2>2. \A q \in Waiting \ {r} : Tids(q) \subseteq Underway \ Tids(r)
    BY <1>20 DEF Underway
  <2>3. \A q \in alone : Tids(q) \subseteq TidsAt(r, K)
    BY <1>16, <1>17
  <2> QED
    BY <1>15, <1>19, <1>23, <2>1, <2>2, <2>3 DEF Underway
<1>27. \A q \in requests' : \/ q \in requests
                            \/ Tids(q) \subseteq Tids(r) /\ DOMAIN q.events = {}
  <2>1. \A q \in alone : Tids(q) \subseteq Tids(r) /\ DOMAIN q.events = {}
    BY <1>16, <1>17
  <2>2. r.state = "sent" => DOMAIN r.events = {}
    BY <1>1, <1>2 DEF Queue, Shape
  <2>3. \A q \in left : Tids(q) \subseteq Tids(r) /\ DOMAIN q.events = {}
    BY <1>18, <2>2
  <2> QED
    BY <1>6, <2>1, <2>3
<1> QED
  BY <1>25, <1>26, <1>27

\* A failed request: which calls are sent again, and which are told.
LEMMA Failing ==
  ASSUME CallsInv, NEW r \in requests, r.state \in {"sent", "served"}
  PROVE  LET again == {k \in HandledLost(r) : Retried(r, k)}
             told == {k \in HandledLost(r) \ again : r.data[k].tid \in transactions}
         IN /\ r \in Waiting
            /\ again \subseteq DOMAIN r.data /\ told \subseteq DOMAIN r.data
            /\ TidsAt(r, again) \subseteq Tids(r) /\ TidsAt(r, told) \subseteq Tids(r)
            /\ TidsAt(r, again) \cap TidsAt(r, told) = {}
            /\ Tids(r) \subseteq Calls /\ \A c \in Tids(r) : Unanswered(c)
<1>1. Types /\ Queue /\ Awaited /\ Truthful
  BY CallsInvIs
<1>2. r \in Waiting
  BY DEF Waiting
<1>3. Tids(r) \subseteq Calls /\ \A c \in Tids(r) : Unanswered(c)
  BY <1>1, <1>2, TidsAreCalls DEF CallsInv, Awaited, Underway
<1>4. \A j, k \in DOMAIN r.data : r.data[j].tid = r.data[k].tid => j = k
  BY <1>1, <1>2 DEF Queue, Once
<1> QED
  BY <1>2, <1>3, <1>4 DEF TidsAt, Tids, HandledLost

LEMMA OnFailureStep ==
  ASSUME CallsInv, NEW r \in requests, OnFailure(r)
  PROVE  CallsInv'
<1>1. Types /\ Queue /\ Awaited /\ Truthful
  BY CallsInvIs
<1> DEFINE again == {k \in HandledLost(r) : Retried(r, k)}
           told == {k \in HandledLost(r) \ again : r.data[k].tid \in transactions}
           left == IF r.state = "sent" THEN {[r EXCEPT !.state = "abandoned"]} ELSE {}
<1>2. /\ r.state \in {"sent", "served"}
      /\ retryCount' = [c \in Calls |->
           IF c \in TidsAt(r, again) THEN retryCount[c] + 1 ELSE retryCount[c]]
      /\ results' = [c \in Calls |->
           IF c \in TidsAt(r, told) THEN Append(results[c], "lost") ELSE results[c]]
      /\ transactions' = transactions \ TidsAt(r, {k \in told : ~RaisesLost(r, k)})
      /\ spoilt' = spoilt \cup TidsAt(r, (DOMAIN r.data \ HandledLost(r))
                                           \cup {k \in told : RaisesLost(r, k)})
      /\ failed' = failed \cup Tids(r)
      /\ UNCHANGED <<answers, dialog, done, asked>>
      /\ QueueInOrder(r, again, (requests \ {r}) \cup left)
  BY DEF OnFailure
<1>3. /\ r \in Waiting
      /\ again \subseteq DOMAIN r.data /\ told \subseteq DOMAIN r.data
      /\ TidsAt(r, again) \subseteq Tids(r) /\ TidsAt(r, told) \subseteq Tids(r)
      /\ TidsAt(r, again) \cap TidsAt(r, told) = {}
      /\ Tids(r) \subseteq Calls /\ \A c \in Tids(r) : Unanswered(c)
  BY <1>2, Failing
<1>4. /\ left \subseteq {[r EXCEPT !.state = "abandoned"]}
      /\ r.state = "sent" \/ left = {}
  OBVIOUS
<1>5. TidsAt(r, {k \in told : ~RaisesLost(r, k)}) \subseteq TidsAt(r, told)
  BY DEF TidsAt
<1>6. TidsAt(r, (DOMAIN r.data \ HandledLost(r)) \cup {k \in told : RaisesLost(r, k)}) \subseteq Calls
  BY <1>3 DEF TidsAt, Tids
<1> HIDE DEF again, told, left
<1>7. Context
  BY <1>1, <1>2 DEF Context, Types
<1>8. /\ Queue'
      /\ Underway' \subseteq (Underway \ Tids(r)) \cup TidsAt(r, again)
      /\ \A q \in requests' : \/ q \in requests
                              \/ Tids(q) \subseteq Tids(r) /\ DOMAIN q.events = {}
  BY <1>2, <1>3, <1>4, <1>7, Requeued
<1>9. \A c \in Calls : results'[c] = IF c \in TidsAt(r, told) THEN <<"lost">> ELSE results[c]
  <2>1. \A c \in TidsAt(r, told) : Append(results[c], "lost") = <<"lost">>
    BY <1>3, Told DEF Unanswered
  <2> QED
    BY <1>2, <2>1
<1>10. Types'
  <2>1. results' \in [Calls -> Results]
    BY <1>1, <1>2, <1>9, InResults, Zenon DEF Types
  <2>2. spoilt' \subseteq Calls /\ failed' \subseteq Calls /\ transactions' \subseteq Calls
    BY <1>1, <1>2, <1>3, <1>6 DEF Types
  <2> QED
    BY <1>1, <1>2, <1>7, <2>1, <2>2 DEF Types, Context
<1>11. \A c \in Calls \ TidsAt(r, told) : Unanswered(c) => c \in transactions' /\ results'[c] = <<>>
  BY <1>2, <1>5, <1>9 DEF Unanswered
<1>12. \A c \in Underway : Unanswered(c) /\ c \in Calls
  BY <1>1 DEF Awaited, Unanswered, Types
<1>13. Awaited'
  <2>1. ASSUME NEW c \in Underway' PROVE c \in transactions' /\ results'[c] = <<>>
    BY <1>3, <1>8, <1>11, <1>12, <2>1
  <2>2. ASSUME dialog' # NoDialog
        PROVE  /\ dialog'.transaction \notin Underway'
               /\ dialog'.transaction \in transactions' /\ results'[dialog'.transaction] = <<>>
    <3>1. dialog' = dialog /\ dialog.transaction \notin Underway /\ Unanswered(dialog.transaction)
      BY <1>1, <1>2, <2>2 DEF Awaited
    <3>2. dialog.transaction \in Calls \ Tids(r)
      BY <1>1, <1>3, <3>1 DEF Underway, Unanswered, Types
    <3> QED
      BY <1>3, <1>8, <1>11, <3>1, <3>2
  <2> QED
    BY <2>1, <2>2 DEF Awaited, Unanswered
<1>14. Truthful'
  <2>1. \A c \in Calls : c \in transactions => c \in transactions' \/ results'[c] # <<>>
    BY <1>2, <1>5, <1>9, Told
  <2>2. \A c \in Calls : results[c] # <<>> => results'[c] # <<>>
    BY <1>9, Told
  <2>3. \A c \in Tids(r) : c \in transactions
    BY <1>3 DEF Unanswered
  <2>4. ASSUME NEW s \in requests' PROVE
          /\ Tids(s) \subseteq transactions' \cup {c \in Calls : results'[c] # <<>>}
          /\ \A k \in DOMAIN s.events : s.events[k] = "ok" => done'[s.data[k].tid] > 0
    <3>1. CASE s \in requests
      <4>1. Tids(s) \subseteq Calls
        BY <3>1, TidsAreCalls DEF CallsInv
      <4> QED
        BY <1>1, <1>2, <2>1, <2>2, <3>1, <4>1 DEF Truthful
    <3>2. CASE Tids(s) \subseteq Tids(r) /\ DOMAIN s.events = {}
      BY <1>3, <2>1, <2>3, <3>2
    <3> QED
      BY <1>8, <3>1, <3>2
  <2>5. dialog' # NoDialog /\ dialog'.event = "ok" => done'[dialog'.transaction] > 0
    BY <1>1, <1>2 DEF Truthful
  <2> QED
    BY <2>4, <2>5 DEF Truthful
<1> QED
  BY <1>8, <1>10, <1>13, <1>14, CallsInvIsNext

LEMMA AnswerYesStep ==
  ASSUME CallsInv, AnswerYes
  PROVE  CallsInv'
<1>1. Types /\ Queue /\ Awaited /\ Truthful
  BY CallsInvIs
<1> DEFINE c == dialog.transaction
<1>2. c \in Calls /\ c \notin Underway /\ Unanswered(c) /\ dialog.interaction \in Interactions
  BY <1>1 DEF Types, Awaited, AnswerYes
<1>3. /\ answers' = [answers EXCEPT ![c] = @ \cup {dialog.interaction}]
      /\ retryCount' = [retryCount EXCEPT ![c] = @ + 1]
      /\ dialog' = NoDialog
      /\ UNCHANGED <<transactions, results, done, asked, failed, spoilt>>
      /\ QueueTransaction(c, requests)
  BY DEF AnswerYes, StoreAnswer, history
<1> HIDE DEF c
<1>4. Context
  BY <1>1, <1>2, <1>3 DEF Context, Types
<1>5. /\ Queue'
      /\ Underway' = Underway \cup {c}
      /\ \A r \in requests' : r \in requests \/ (Tids(r) = {c} /\ DOMAIN r.events = {})
  BY <1>2, <1>3, <1>4, Queued
<1>6. Types'
  BY <1>1, <1>3, <1>4 DEF Types, Context
<1>7. Awaited'
  BY <1>1, <1>2, <1>3, <1>5 DEF Awaited, Unanswered
<1>8. Truthful'
  BY <1>1, <1>2, <1>3, <1>5 DEF Truthful, Unanswered
<1> QED
  BY <1>5, <1>6, <1>7, <1>8, CallsInvIsNext

LEMMA AnswerNoStep ==
  ASSUME CallsInv, AnswerNo
  PROVE  CallsInv'
<1>1. Types /\ Queue /\ Awaited /\ Truthful
  BY CallsInvIs
<1> DEFINE c == dialog.transaction
           e == IF dialog.event = "ok" THEN "ok" ELSE "refused"
<1>2. c \in Calls /\ c \notin Underway /\ Unanswered(c) /\ dialog.interaction \in Interactions
  BY <1>1 DEF Types, Awaited, AnswerNo
<1>3. /\ answers' = [answers EXCEPT ![c] = @ \cup {dialog.interaction}]
      /\ dialog' = NoDialog
      /\ results' = [results EXCEPT ![c] = Append(@, e)]
      /\ transactions' \subseteq transactions /\ transactions \subseteq transactions' \cup {c}
      /\ spoilt' \subseteq spoilt \cup {c}
      /\ UNCHANGED <<callBuffer, retryCount, requests, done, asked, failed>>
  BY DEF AnswerNo, StoreAnswer
<1>4. e \in {"ok", "refused", "lost"}
  OBVIOUS
<1> HIDE DEF c, e
<1>5. results' = [results EXCEPT ![c] = <<e>>]
  BY <1>2, <1>3, <1>4, AnsweredOnce DEF Unanswered
<1>6. \A d \in Calls : results'[d] = IF d = c THEN <<e>> ELSE results[d]
  BY <1>1, <1>5 DEF Types
<1>7. Waiting' = Waiting /\ Buffered' = Buffered
  BY <1>3 DEF Waiting, Buffered
<1>8. Underway' = Underway
  BY <1>7 DEF Underway
<1>9. Queue'
  BY <1>1, <1>3, <1>7 DEF Queue, Shape, Once
<1>10. Types'
  <2>1. results' \in [Calls -> Results]
    <3>1. <<e>> \in Results
      BY <1>4, InResults, Zenon
    <3> QED
      BY <1>1, <1>5, <3>1, Zenon DEF Types
  <2>2. answers' \in [Calls -> SUBSET Interactions]
    BY <1>1, <1>2, <1>3 DEF Types
  <2> QED
    BY <1>1, <1>2, <1>3, <2>1, <2>2 DEF Types
<1>11. Awaited'
  BY <1>1, <1>2, <1>3, <1>6, <1>8 DEF Awaited, Unanswered, Types
<1>12. Truthful'
  <2>1. \A d \in Calls : d \in transactions \/ results[d] # <<>>
                         => d \in transactions' \/ results'[d] # <<>>
    BY <1>3, <1>4, <1>6, Told
  <2>2. \A r \in requests : Tids(r) \subseteq Calls
    BY TidsAreCalls DEF CallsInv
  <2> QED
    BY <1>1, <1>3, <2>1, <2>2 DEF Truthful
<1> QED
  BY <1>9, <1>10, <1>11, <1>12, CallsInvIsNext

LEMMA NextStep ==
  ASSUME CallsInv, [Next]_vars
  PROVE  CallsInv'
<1>1. CASE \E c \in Calls : Issue(c)
  BY <1>1, IssueStep
<1>2. CASE CombineAndSend
  BY <1>2, CombineAndSendStep
<1>3. CASE \E r \in requests : Serve(r) \/ Vanish(r) \/ OnData(r) \/ OnFailure(r)
  BY <1>3, ServeStep, VanishStep, OnDataStep, OnFailureStep
<1>4. CASE AnswerYes
  BY <1>4, AnswerYesStep
<1>5. CASE AnswerNo
  BY <1>5, AnswerNoStep
<1>6. CASE UNCHANGED vars
  <2>1. Waiting' = Waiting /\ Buffered' = Buffered
    BY <1>6 DEF Waiting, Buffered, vars, provider
  <2>2. Underway' = Underway
    BY <2>1 DEF Underway
  <2>3. Types /\ Queue /\ Awaited /\ Truthful
    BY CallsInvIs
  <2>4. Types' /\ Truthful'
    BY <1>6, <2>3 DEF Types, Truthful, vars, provider, history
  <2>5. Queue'
    BY <1>6, <2>1, <2>3 DEF Queue, Shape, Once, vars, provider
  <2>6. Awaited'
    BY <1>6, <2>2, <2>3 DEF Awaited, Unanswered, vars, provider, history
  <2> QED
    BY <2>4, <2>5, <2>6, CallsInvIsNext
<1> QED
  BY <1>1, <1>2, <1>3, <1>4, <1>5, <1>6 DEF Next

-----------------------------------------------------------------------------
(* The theorems *)

\* The inductive invariant: types, one place per call, one callback per call,
\* and no event that tells of a success the server did not have.
THEOREM CallsInvariant == Spec => []CallsInv
<1>1. CallsInv /\ [Next]_vars => CallsInv'
  BY NextStep
<1> QED
  BY InitStep, <1>1, PTL DEF Spec

\* No attempt of a call is under way twice: buffer, requests and the message box
\* never hold the same call (queueTransaction, retry, interactWithUser).
THEOREM OneAttemptTheorem == Spec => []OneAttempt
<1>1. CallsInv => OneAttempt
  BY DEF CallsInv
<1> QED
  BY CallsInvariant, <1>1, PTL

\* The callback of a call runs at most once, whatever batches, lost answers,
\* retries and questions do (onData, skipRetry).
THEOREM CalledBackTheorem == Spec => []CalledBackAtMostOnce
<1>1. CallsInv => CalledBackAtMostOnce
  BY DEF CallsInv
<1> QED
  BY CallsInvariant, <1>1, PTL

-----------------------------------------------------------------------------
(* What a call is told and asked *)

\* What FateInv says of a request in flight ...
FreshRequest(r) ==
  /\ \A k \in DOMAIN r.data : r.data[k].answers = answers[r.data[k].tid]
  /\ \A k \in DOMAIN r.events : r.events[k] \in Interactions
       => r.events[k] \in asked[r.data[k].tid] \ r.data[k].answers

TrueRequest(r) ==
  \A k \in DOMAIN r.events : r.data[k].tid \notin failed \cup spoilt =>
    done[r.data[k].tid] = IF r.events[k] = "ok" THEN 1 ELSE 0

\* ... of the message box ...
FreshDialog ==
  dialog # NoDialog /\ dialog.transaction \notin spoilt =>
    /\ dialog.interaction \in asked[dialog.transaction] \ answers[dialog.transaction]
    /\ dialog.event \in Interactions

\* ... and of a call.
FreshCall(c) ==
  /\ IsFiniteSet(answers[c])
  /\ c \notin spoilt => /\ answers[c] \subseteq asked[c]
                        /\ retryCount[c] <= MaxRetries + Cardinality(answers[c])

InResponse(c) == \E r \in requests : r.state = "served" /\ c \in Tids(r)

TrueCall(c) ==
  c \notin failed \cup spoilt =>
    /\ results[c] = <<>> /\ ~InResponse(c) => done[c] = 0
    /\ done[c] <= 1
    /\ results[c] = <<"ok">> => done[c] = 1
    /\ results[c] = <<"refused">> => done[c] = 0

FateParts ==
  /\ \A r \in Waiting : FreshRequest(r)
  /\ \A r \in requests : r.state = "abandoned" => Tids(r) \subseteq failed
  /\ \A r \in requests : r.state = "served" => TrueRequest(r)
  /\ FreshDialog
  /\ \A c \in Calls : FreshCall(c) /\ TrueCall(c)

LEMMA FateInvIs == FateInv <=> FateParts
BY DEF FateInv, Fresh, Fate, ToldWhatWasDone, UnmixedAnswersBelong, AttemptsBounded, FateParts,
       FreshRequest, TrueRequest, FreshDialog, FreshCall, TrueCall, InResponse

LEMMA FateInvIsNext == FateInv' <=> FateParts'
BY FateInvIs, PTL

LEMMA FateInitStep == Init => FateInv
<1> SUFFICES ASSUME Init PROVE FateInv
  OBVIOUS
<1>1. requests = {} /\ Waiting = {}
  BY DEF Init, Waiting
<1>2. FreshDialog
  BY DEF Init, FreshDialog
<1>3. ASSUME NEW c \in Calls PROVE FreshCall(c) /\ TrueCall(c)
  <2>1. IsFiniteSet({}) /\ Cardinality({}) = 0
    BY FS_EmptySet
  <2>2. <<>> # <<"ok">> /\ <<>> # <<"refused">>
    OBVIOUS
  <2> QED
    BY <2>1, <2>2, CallsAssumption DEF Init, FreshCall, TrueCall
<1> QED
  BY <1>1, <1>2, <1>3, FateInvIs DEF FateParts

\* A request as it is sent carries the answers its calls have.
LEMMA SentFresh ==
  ASSUME NEW batch
  PROVE  /\ \A k \in DOMAIN SendRequest(batch).data :
              SendRequest(batch).data[k].answers = answers'[SendRequest(batch).data[k].tid]
         /\ DOMAIN SendRequest(batch).events = {}
         /\ SendRequest(batch).state = "sent"
<1>1. DOMAIN <<>> = {}
  OBVIOUS
<1> QED
  BY <1>1 DEF SendRequest, GetCallData

LEMMA QueuedFresh ==
  ASSUME NEW c, NEW others, QueueTransaction(c, others)
  PROVE  /\ others \subseteq requests'
         /\ \A q \in requests' \ others : FreshRequest(q)' /\ q.state = "sent"
<1>1. CASE c \in Alone
  <2>1. \A q \in requests' \ others : q = SendRequest(<<c>>)
    BY <1>1 DEF QueueTransaction
  <2> QED
    BY <1>1, <2>1, SentFresh DEF FreshRequest, QueueTransaction
<1>2. CASE c \notin Alone
  BY <1>2 DEF QueueTransaction
<1> QED
  BY <1>1, <1>2

LEMMA FateIssueStep ==
  ASSUME CallsInv, FateInv, NEW c \in Calls, Issue(c)
  PROVE  FateInv'
<1>1. FateParts
  BY FateInvIs
<1>2. UNCHANGED <<retryCount, answers, dialog, results, done, asked, failed, spoilt>>
  BY DEF Issue, history
<1>3. /\ requests \subseteq requests'
      /\ \A q \in requests' \ requests : FreshRequest(q)' /\ q.state = "sent"
  BY QueuedFresh DEF Issue
<1>4. \A q \in requests : FreshRequest(q)' <=> FreshRequest(q)
  BY <1>2 DEF FreshRequest
<1>5. \A q \in requests : TrueRequest(q)' <=> TrueRequest(q)
  BY <1>2 DEF TrueRequest
<1>6. \A d \in Calls : InResponse(d)' <=> InResponse(d)
  BY <1>3 DEF InResponse, Tids
<1>7. \A d \in Calls : FreshCall(d)' /\ TrueCall(d)'
  BY <1>1, <1>2, <1>6 DEF FateParts, FreshCall, TrueCall
<1>8. \A q \in Waiting' : FreshRequest(q)'
  BY <1>1, <1>3, <1>4 DEF FateParts, Waiting
<1>9. FreshDialog'
  BY <1>1, <1>2 DEF FateParts, FreshDialog
<1> QED
  BY <1>1, <1>2, <1>3, <1>5, <1>7, <1>8, <1>9, FateInvIsNext DEF FateParts

LEMMA FateCombineStep ==
  ASSUME CallsInv, FateInv, CombineAndSend
  PROVE  FateInv'
<1>1. FateParts
  BY FateInvIs
<1> DEFINE p == SendRequest(callBuffer)
<1>2. UNCHANGED <<retryCount, answers, dialog, results, done, asked, failed, spoilt>>
  BY DEF CombineAndSend, history
<1>3. /\ requests \subseteq requests'
      /\ \A q \in requests' \ requests : FreshRequest(q)' /\ q.state = "sent"
  <2>1. requests' = requests \cup {p}
    BY DEF CombineAndSend
  <2>2. /\ \A k \in DOMAIN p.data : p.data[k].answers = answers'[p.data[k].tid]
        /\ DOMAIN p.events = {} /\ p.state = "sent"
    BY SentFresh
  <2> HIDE DEF p
  <2>3. \A q \in requests' \ requests : q = p
    BY <2>1
  <2> QED
    BY <2>1, <2>2, <2>3 DEF FreshRequest
<1> HIDE DEF p
<1>4. \A q \in requests : FreshRequest(q)' <=> FreshRequest(q)
  BY <1>2 DEF FreshRequest
<1>5. \A q \in requests : TrueRequest(q)' <=> TrueRequest(q)
  BY <1>2 DEF TrueRequest
<1>6. \A d \in Calls : InResponse(d)' <=> InResponse(d)
  BY <1>3 DEF InResponse, Tids
<1>7. \A d \in Calls : FreshCall(d)' /\ TrueCall(d)'
  BY <1>1, <1>2, <1>6 DEF FateParts, FreshCall, TrueCall
<1>8. \A q \in Waiting' : FreshRequest(q)'
  BY <1>1, <1>3, <1>4 DEF FateParts, Waiting
<1>9. FreshDialog'
  BY <1>1, <1>2 DEF FateParts, FreshDialog
<1> QED
  BY <1>1, <1>2, <1>3, <1>5, <1>7, <1>8, <1>9, FateInvIsNext DEF FateParts

LEMMA FateVanishStep ==
  ASSUME CallsInv, FateInv, NEW r \in requests, Vanish(r)
  PROVE  FateInv'
<1>1. FateParts
  BY FateInvIs
<1>2. /\ requests' = requests \ {r} /\ r.state = "abandoned"
      /\ UNCHANGED <<retryCount, answers, dialog, results, done, asked, failed, spoilt>>
  BY DEF Vanish, provider, history
<1>3. \A q \in requests : FreshRequest(q)' <=> FreshRequest(q)
  BY <1>2 DEF FreshRequest
<1>4. \A q \in requests : TrueRequest(q)' <=> TrueRequest(q)
  BY <1>2 DEF TrueRequest
<1>5. \A d \in Calls : InResponse(d)' <=> InResponse(d)
  BY <1>2 DEF InResponse, Tids
<1>6. \A d \in Calls : FreshCall(d)' /\ TrueCall(d)'
  BY <1>1, <1>2, <1>5 DEF FateParts, FreshCall, TrueCall
<1>7. \A q \in Waiting' : FreshRequest(q)'
  BY <1>1, <1>2, <1>3 DEF FateParts, Waiting
<1>8. FreshDialog'
  BY <1>1, <1>2 DEF FateParts, FreshDialog
<1> QED
  BY <1>1, <1>2, <1>4, <1>6, <1>7, <1>8, FateInvIsNext DEF FateParts

LEMMA FateServeStep ==
  ASSUME CallsInv, FateInv, NEW r \in requests, Serve(r)
  PROVE  FateInv'
<1>1. FateParts /\ Types /\ Queue /\ Awaited
  BY FateInvIs, CallsInvIs
<1>2. PICK ev \in Verdicts(r) :
       /\ done' = [c \in Calls |->
            IF \E k \in DOMAIN ev : r.data[k].tid = c /\ ev[k] = "ok"
            THEN done[c] + 1 ELSE done[c]]
       /\ asked' = [c \in Calls |-> asked[c] \cup
            {ev[k] : k \in {k \in DOMAIN ev : r.data[k].tid = c /\ ev[k] \in Interactions}}]
       /\ requests' = (requests \ {r}) \cup
            (IF r.state = "sent" THEN {[r EXCEPT !.state = "served", !.events = ev]} ELSE {})
  BY DEF Serve
<1> DEFINE q == [r EXCEPT !.state = "served", !.events = ev]
<1>3. r \in Request
  BY <1>1 DEF Queue
<1>4. /\ DOMAIN ev = DOMAIN r.data
      /\ \A k \in DOMAIN ev : r.data[k].tid \in Calls \cap Tids(r)
      /\ \A k \in DOMAIN ev : ev[k] \in Interactions => ev[k] \notin r.data[k].answers
  BY TidsAreCalls, CallsAssumption DEF Verdicts, CallsInv
<1>5. q.state = "served" /\ q.events = ev /\ q.data = r.data /\ Tids(q) = Tids(r)
  BY <1>3 DEF Request, Tids
<1>6. requests' = (requests \ {r}) \cup (IF r.state = "sent" THEN {q} ELSE {})
  BY <1>2
<1> HIDE DEF q
<1>7. UNCHANGED <<retryCount, answers, dialog, results, failed, spoilt>>
  BY DEF Serve, provider
<1>8. r.state \in {"sent", "abandoned"}
  BY DEF Serve
<1>9. \A c \in Calls : asked[c] \subseteq asked'[c]
  BY <1>2
<1>10. \A c \in Calls \ Tids(r) : done'[c] = done[c]
  BY <1>2, <1>4
<1>11. r.state = "abandoned" => Tids(r) \subseteq failed
  BY <1>1 DEF FateParts
<1>12. r.state = "sent" => /\ r \in Waiting
                           /\ \A s \in Waiting \ {r} : Tids(s) \cap Tids(r) = {}
                           /\ \A j, k \in DOMAIN r.data : r.data[j].tid = r.data[k].tid => j = k
                           /\ \A c \in Tids(r) : Unanswered(c) /\ ~InResponse(c)
  <2> SUFFICES ASSUME r.state = "sent"
               PROVE  /\ r \in Waiting
                      /\ \A s \in Waiting \ {r} : Tids(s) \cap Tids(r) = {}
                      /\ \A j, k \in DOMAIN r.data : r.data[j].tid = r.data[k].tid => j = k
                      /\ \A c \in Tids(r) : Unanswered(c) /\ ~InResponse(c)
    OBVIOUS
  <2>1. r \in Waiting
    BY DEF Waiting
  <2>2. /\ \A s \in Waiting \ {r} : Tids(s) \cap Tids(r) = {}
        /\ \A j, k \in DOMAIN r.data : r.data[j].tid = r.data[k].tid => j = k
    BY <1>1, <2>1 DEF Queue, Once
  <2>3. \A c \in Tids(r) : Unanswered(c)
    BY <1>1, <2>1 DEF Awaited, Underway
  <2>4. \A c \in Tids(r) : ~InResponse(c)
    BY <2>2 DEF InResponse, Waiting
  <2> QED
    BY <2>1, <2>2, <2>3, <2>4
<1>13. r.state = "sent" => FreshRequest(q)'
  <2> SUFFICES ASSUME r.state = "sent" PROVE FreshRequest(q)'
    OBVIOUS
  <2>1. \A k \in DOMAIN r.data : r.data[k].answers = answers[r.data[k].tid]
    BY <1>1, <1>12 DEF FateParts, FreshRequest
  <2>2. \A k \in DOMAIN ev : ev[k] \in Interactions => ev[k] \in asked'[r.data[k].tid]
    BY <1>2, <1>4
  <2> QED
    BY <1>4, <1>5, <1>7, <2>1, <2>2 DEF FreshRequest
<1>14. ASSUME r.state = "sent", NEW c \in Tids(r) \ (failed \cup spoilt), c \in Calls
       PROVE  /\ done[c] = 0
              /\ done'[c] = IF \E k \in DOMAIN ev : r.data[k].tid = c /\ ev[k] = "ok" THEN 1 ELSE 0
  BY <1>1, <1>2, <1>12, <1>14 DEF FateParts, TrueCall, Unanswered
<1>15. r.state = "sent" => TrueRequest(q)'
  <2> SUFFICES ASSUME r.state = "sent", NEW k \in DOMAIN ev, r.data[k].tid \notin failed \cup spoilt
               PROVE  done'[r.data[k].tid] = IF ev[k] = "ok" THEN 1 ELSE 0
    BY <1>5, <1>7 DEF TrueRequest
  <2> QED
    BY <1>4, <1>12, <1>14
<1>16. \A s \in Waiting \ {r} : FreshRequest(s)'
  <2> SUFFICES ASSUME NEW s \in Waiting \ {r} PROVE FreshRequest(s)'
    OBVIOUS
  <2>1. FreshRequest(s) /\ s \in requests
    BY <1>1 DEF FateParts, Waiting
  <2>2. DOMAIN s.events \subseteq DOMAIN s.data /\ \A k \in DOMAIN s.data : s.data[k].tid \in Calls
    BY <1>1, <2>1, TidsAreCalls DEF CallsInv, Queue, Shape
  <2> QED
    BY <1>7, <1>9, <2>1, <2>2 DEF FreshRequest
<1>17. \A s \in requests \ {r} : s.state = "served" => TrueRequest(s)'
  <2> SUFFICES ASSUME NEW s \in requests \ {r}, s.state = "served", NEW k \in DOMAIN s.events,
                      s.data[k].tid \notin failed \cup spoilt
               PROVE  done'[s.data[k].tid] = IF s.events[k] = "ok" THEN 1 ELSE 0
    BY <1>7 DEF TrueRequest
  <2>1. s.data[k].tid \in Calls /\ s.data[k].tid \in Tids(s)
    BY <1>1, TidsAreCalls DEF CallsInv, Queue, Shape
  <2>2. s.data[k].tid \notin Tids(r)
    BY <1>8, <1>11, <1>12, <2>1 DEF Waiting
  <2> QED
    BY <1>1, <1>10, <2>1, <2>2 DEF FateParts, TrueRequest
<1>18. ASSUME NEW c \in Calls PROVE FreshCall(c)'
  BY <1>1, <1>7, <1>9 DEF FateParts, FreshCall
<1>19. ASSUME NEW c \in Calls PROVE TrueCall(c)'
  <2> SUFFICES ASSUME c \notin failed \cup spoilt PROVE TrueCall(c)'
    BY <1>7 DEF TrueCall
  <2>1. CASE c \notin Tids(r)
    <3>1. InResponse(c) => InResponse(c)'
      BY <1>6, <1>8 DEF InResponse, Tids
    <3> QED
      BY <1>1, <1>7, <1>10, <2>1, <3>1 DEF FateParts, TrueCall
  <2>2. CASE c \in Tids(r)
    <3>1. r.state = "sent"
      BY <1>8, <1>11, <2>2
    <3>2. InResponse(c)' /\ results'[c] = <<>> /\ done'[c] \in {0, 1}
      <4>1. q \in requests' /\ q.state = "served" /\ c \in Tids(q)
        BY <1>5, <1>6, <2>2, <3>1
      <4>2. InResponse(c)'
        BY <4>1 DEF InResponse, Tids
      <4>3. results'[c] = <<>>
        BY <1>7, <1>12, <2>2, <3>1 DEF Unanswered
      <4> QED
        BY <1>14, <2>2, <3>1, <4>2, <4>3
    <3> QED
      BY <3>2, Told DEF TrueCall
  <2> QED
    BY <2>1, <2>2
<1>20. FreshDialog'
  <2>1. dialog # NoDialog => dialog.transaction \in Calls
    BY <1>1 DEF Types
  <2> QED
    BY <1>1, <1>7, <1>9, <2>1 DEF FateParts, FreshDialog
<1>21. \A s \in Waiting' : FreshRequest(s)'
  BY <1>6, <1>13, <1>16 DEF Waiting
<1>22. \A s \in requests' : s.state = "served" => TrueRequest(s)'
  BY <1>6, <1>15, <1>17
<1>23. \A s \in requests' : s.state = "abandoned" => Tids(s) \subseteq failed'
  BY <1>1, <1>5, <1>6, <1>7 DEF FateParts
<1> QED
  BY <1>18, <1>19, <1>20, <1>21, <1>22, <1>23, FateInvIsNext DEF FateParts

\* A call of a response that is not confused is called back, or the response
\* ends with its question.
LEMMA Unconfused ==
  ASSUME CallsInv, NEW r \in requests, r.state = "served",
         NEW k \in DOMAIN r.data, r.data[k].tid \notin Confused(r)
  PROVE  \/ k \in CalledBack(r)
         \/ /\ Interactive(r, k) /\ r.events[k] \in Interactions
            /\ Interaction(r, k) = r.events[k]
<1>1. /\ DOMAIN r.events = DOMAIN r.data
      /\ \A j \in DOMAIN r.data : Unanswered(r.data[j].tid)
  BY Responded
<1>2. PICK n \in Nat : DOMAIN r.data = 1..n
  BY TidsAreCalls DEF CallsInv
<1>3. k \in Handled(r)
  BY <1>1 DEF Confused, TidsAt
<1>4. CASE ~Interactive(r, k)
  BY <1>1, <1>3, <1>4 DEF CalledBack, Unanswered
<1>5. CASE Interactive(r, k)
  <2> DEFINE questions == {j \in Handled(r) : Interactive(r, j)}
  <2>1. k \in questions
    BY <1>3, <1>5
  <2>2. questions = Final(r)
    BY <2>1 DEF Confused, TidsAt
  <2>3. \A j \in questions : j = k
    <3>1. \A j \in questions : j \in 1..n /\ j <= k /\ k <= j
      BY <1>1, <1>2, <2>1, <2>2 DEF Final, Handled
    <3> QED
      BY <1>2, <3>1
  <2>4. \A j \in QuestionAt(r, k) : j \in questions /\ r.events[j] \in Interactions
    <3> SUFFICES ASSUME NEW j \in QuestionAt(r, k)
                 PROVE  j \in questions /\ r.events[j] \in Interactions
      OBVIOUS
    <3>1. j \in 1..k /\ r.events[j] \in Interactions
      BY DEF QuestionAt
    <3>2. j \in DOMAIN r.events /\ 1..(j - 1) \subseteq 1..(k - 1) /\ (j + 1)..j = {} /\ j \in 1..j
      BY <1>1, <1>2, <3>1
    <3>3. j \in Handled(r)
      BY <1>3, <3>2 DEF Handled
    <3>4. j \in QuestionAt(r, j)
      BY <3>1, <3>2 DEF QuestionAt
    <3> QED
      BY <3>1, <3>3, <3>4 DEF Interactive
  <2>5. QuestionAt(r, k) = {k} /\ r.events[k] \in Interactions
    BY <1>5, <2>3, <2>4 DEF Interactive
  <2>6. Interaction(r, k) = r.events[k]
    BY <2>5 DEF Interaction
  <2> QED
    BY <1>5, <2>5, <2>6
<1> QED
  BY <1>4, <1>5

LEMMA DialogUnconfused ==
  ASSUME CallsInv, NEW r \in requests, r.state = "served",
         DialogAfter(r) # NoDialog, DialogAfter(r).transaction \notin Confused(r)
  PROVE  \/ DialogAfter(r) = dialog
         \/ \E k \in DOMAIN r.events :
              /\ r.events[k] \in Interactions
              /\ DialogAfter(r) = [transaction |-> r.data[k].tid, event |-> r.events[k],
                                   interaction |-> r.events[k]]
<1> DEFINE question == {k \in Final(r) : Interactive(r, k)}
           last == CHOOSE k \in question : TRUE
<1>1. CASE Shown(r) = {}
  BY <1>1 DEF DialogAfter
<1>2. CASE Shown(r) # {}
  <2>1. question # {}
    BY <1>2 DEF DialogAfter
  <2>2. last \in question
    BY <2>1
  <2>3. DialogAfter(r) = [transaction |-> r.data[last].tid, event |-> r.events[last],
                          interaction |-> Interaction(r, last)]
    BY <1>2, <2>1 DEF DialogAfter
  <2>4. last \in DOMAIN r.data /\ last \in DOMAIN r.events /\ Interactive(r, last)
    BY <2>2, Responded DEF Final, Handled
  <2> HIDE DEF last
  <2>5. r.data[last].tid \notin Confused(r)
    BY <2>3
  <2>6. r.events[last] \in Interactions /\ Interaction(r, last) = r.events[last]
    BY <2>4, <2>5, Unconfused DEF CalledBack
  <2> QED
    BY <2>3, <2>4, <2>6
<1> QED
  BY <1>1, <1>2

LEMMA FateOnDataStep ==
  ASSUME CallsInv, FateInv, NEW r \in requests, OnData(r)
  PROVE  FateInv'
<1>1. FateParts /\ Types /\ Queue /\ Awaited
  BY FateInvIs, CallsInvIs
<1> DEFINE K(c) == {k \in CalledBack(r) : r.data[k].tid = c}
           given(c) == r.events[CHOOSE k \in K(c) : TRUE]
<1>2. /\ r.state = "served" /\ requests' = requests \ {r}
      /\ results' = [c \in Calls |-> IF K(c) = {} THEN results[c]
                                     ELSE Append(results[c], given(c))]
      /\ dialog' = DialogAfter(r)
      /\ spoilt' = spoilt \cup Confused(r)
      /\ UNCHANGED <<retryCount, answers, done, asked, failed>>
  BY DEF OnData
<1>3. /\ r \in Waiting /\ DOMAIN r.events = DOMAIN r.data
      /\ \A k \in DOMAIN r.data : /\ r.data[k].tid \in Calls \cap Tids(r)
                                  /\ Unanswered(r.data[k].tid)
      /\ \A k \in CalledBack(r) : /\ k \in DOMAIN r.events /\ ~Interactive(r, k)
                                  /\ r.events[k] \in {"ok", "refused"}
  BY <1>2, Responded
<1>4. \A j, k \in DOMAIN r.data : r.data[j].tid = r.data[k].tid => j = k
  BY <1>1, <1>3 DEF Queue, Once
<1>5. FreshRequest(r) /\ TrueRequest(r)
  BY <1>1, <1>2, <1>3 DEF FateParts
<1>6. \A s \in Waiting' : FreshRequest(s)'
  BY <1>1, <1>2 DEF FateParts, FreshRequest, Waiting
<1>7. \A s \in requests' : s.state = "served" => TrueRequest(s)'
  BY <1>1, <1>2 DEF FateParts, TrueRequest
<1>8. \A s \in requests' : s.state = "abandoned" => Tids(s) \subseteq failed'
  BY <1>1, <1>2 DEF FateParts
<1>9. ASSUME NEW c \in Calls PROVE FreshCall(c)'
  BY <1>1, <1>2 DEF FateParts, FreshCall
<1>10. ASSUME NEW c \in Calls PROVE TrueCall(c)'
  <2> SUFFICES ASSUME c \notin failed \cup spoilt', c \notin spoilt PROVE TrueCall(c)'
    BY <1>2 DEF TrueCall
  <2>1. CASE c \notin Tids(r)
    <3>1. K(c) = {}
      BY <1>3, <2>1
    <3>2. results'[c] = results[c]
      BY <1>2, <3>1
    <3>3. InResponse(c) => InResponse(c)'
      BY <1>2, <2>1 DEF InResponse, Tids
    <3> QED
      BY <1>1, <1>2, <3>2, <3>3 DEF FateParts, TrueCall
  <2>2. CASE c \in Tids(r)
    <3>1. PICK k \in DOMAIN r.data : r.data[k].tid = c
      BY <2>2 DEF Tids
    <3>2. results[c] = <<>> /\ done[c] = IF r.events[k] = "ok" THEN 1 ELSE 0
      BY <1>3, <1>5, <3>1 DEF Unanswered, TrueRequest
    <3>3. CASE k \in CalledBack(r)
      <4>1. K(c) = {k}
        BY <1>3, <1>4, <3>1, <3>3
      <4>2. results'[c] = <<r.events[k]>> /\ r.events[k] \in {"ok", "refused"}
        <5>1. given(c) = r.events[k]
          BY <4>1
        <5>2. results'[c] = Append(<<>>, r.events[k])
          BY <1>2, <3>2, <4>1, <5>1
        <5> QED
          BY <1>3, <3>3, <5>2, Told
      <4>3. <<"ok">> # <<"refused">> /\ <<"ok">> # <<>> /\ <<"refused">> # <<>>
        OBVIOUS
      <4> QED
        BY <1>2, <3>2, <4>2, <4>3 DEF TrueCall
    <3>4. CASE k \notin CalledBack(r)
      <4>1. r.events[k] \in Interactions
        BY <1>2, <3>1, <3>4, Unconfused
      <4>2. done[c] = 0
        BY <3>2, <4>1, CallsAssumption
      <4>3. K(c) = {}
        BY <1>3, <1>4, <3>1, <3>4
      <4>4. results'[c] = <<>>
        BY <1>2, <3>2, <4>3
      <4> QED
        BY <1>2, <4>2, <4>4, Told DEF TrueCall
    <3> QED
      BY <3>3, <3>4
  <2> QED
    BY <2>1, <2>2
<1>11. FreshDialog'
  <2> SUFFICES ASSUME dialog' # NoDialog, dialog'.transaction \notin spoilt'
               PROVE  /\ dialog'.interaction \in asked[dialog'.transaction] \ answers[dialog'.transaction]
                      /\ dialog'.event \in Interactions
    BY <1>2 DEF FreshDialog
  <2>1. CASE dialog' = dialog
    BY <1>1, <1>2, <2>1 DEF FateParts, FreshDialog
  <2>2. CASE \E k \in DOMAIN r.events :
              /\ r.events[k] \in Interactions
              /\ dialog' = [transaction |-> r.data[k].tid, event |-> r.events[k],
                            interaction |-> r.events[k]]
    BY <1>3, <1>5, <2>2 DEF FreshRequest
  <2> QED
    BY <1>2, <2>1, <2>2, DialogUnconfused
<1> QED
  BY <1>6, <1>7, <1>8, <1>9, <1>10, <1>11, FateInvIsNext DEF FateParts

LEMMA FateOnFailureStep ==
  ASSUME CallsInv, FateInv, NEW r \in requests, OnFailure(r)
  PROVE  FateInv'
<1>1. FateParts /\ Types
  BY FateInvIs, CallsInvIs
<1> DEFINE again == {k \in HandledLost(r) : Retried(r, k)}
           told == {k \in HandledLost(r) \ again : r.data[k].tid \in transactions}
           left == IF r.state = "sent" THEN {[r EXCEPT !.state = "abandoned"]} ELSE {}
           alone == {SendRequest(<<c>>) : c \in TidsAt(r, again) \cap Alone}
<1>2. /\ r.state \in {"sent", "served"}
      /\ retryCount' = [c \in Calls |->
           IF c \in TidsAt(r, again) THEN retryCount[c] + 1 ELSE retryCount[c]]
      /\ results' = [c \in Calls |->
           IF c \in TidsAt(r, told) THEN Append(results[c], "lost") ELSE results[c]]
      /\ spoilt \subseteq spoilt'
      /\ failed' = failed \cup Tids(r)
      /\ UNCHANGED <<answers, dialog, done, asked>>
  BY DEF OnFailure
<1>3. requests' = (requests \ {r}) \cup left \cup alone
  BY DEF OnFailure, QueueInOrder
<1>4. TidsAt(r, told) \subseteq Tids(r)
  BY <1>2, Failing
<1>5. \A c \in TidsAt(r, again) : retryCount[c] < MaxRetries
  BY DEF TidsAt, Retried
<1>6. \A q \in left : q.state = "abandoned" /\ Tids(q) = Tids(r)
  <2>1. r \in Request
    BY CallsInvIs DEF Queue
  <2> QED
    BY <2>1 DEF Request, Tids
<1>7. \A q \in alone : q.state = "sent" /\ FreshRequest(q)'
  BY SentFresh DEF FreshRequest
<1> HIDE DEF again, told, left, alone
<1>8. \A q \in requests \ {r} : FreshRequest(q)' <=> FreshRequest(q)
  BY <1>2 DEF FreshRequest
<1>9. \A q \in Waiting' : FreshRequest(q)'
  BY <1>1, <1>3, <1>6, <1>7, <1>8 DEF FateParts, Waiting
<1>10. \A q \in requests' : q.state = "served" => TrueRequest(q)'
  BY <1>1, <1>2, <1>3, <1>6, <1>7 DEF FateParts, TrueRequest
<1>11. \A q \in requests' : q.state = "abandoned" => Tids(q) \subseteq failed'
  BY <1>1, <1>2, <1>3, <1>6, <1>7 DEF FateParts
<1>12. ASSUME NEW c \in Calls PROVE FreshCall(c)'
  <2>1. IsFiniteSet(answers[c]) /\ Cardinality(answers[c]) \in Nat
    BY <1>1, FS_CardinalityType DEF FateParts, FreshCall
  <2>2. retryCount[c] \in Nat /\ MaxRetries \in Nat
    BY <1>1, CallsAssumption DEF Types
  <2>3. retryCount[c] <= MaxRetries + Cardinality(answers[c])
        => retryCount'[c] <= MaxRetries + Cardinality(answers[c])
    BY <1>2, <1>5, <2>1, <2>2
  <2> QED
    BY <1>1, <1>2, <2>1, <2>3 DEF FateParts, FreshCall
<1>13. ASSUME NEW c \in Calls PROVE TrueCall(c)'
  <2> SUFFICES ASSUME c \notin failed \cup Tids(r), c \notin spoilt PROVE TrueCall(c)'
    BY <1>2 DEF TrueCall
  <2>1. results'[c] = results[c]
    BY <1>2, <1>4
  <2>2. InResponse(c) => InResponse(c)'
    BY <1>3 DEF InResponse, Tids
  <2> QED
    BY <1>1, <1>2, <2>1, <2>2 DEF FateParts, TrueCall
<1>14. FreshDialog'
  BY <1>1, <1>2 DEF FateParts, FreshDialog
<1> QED
  BY <1>9, <1>10, <1>11, <1>12, <1>13, <1>14, FateInvIsNext DEF FateParts

\* An answer adds one to the answers of its call, if it is new there.
LEMMA AnswerCounted ==
  ASSUME FateParts, Types, dialog # NoDialog, StoreAnswer
  PROVE  LET c == dialog.transaction
         IN /\ \A d \in Calls \ {c} : answers'[d] = answers[d]
            /\ IsFiniteSet(answers'[c])
            /\ c \notin spoilt => /\ answers'[c] \subseteq asked[c]
                                  /\ Cardinality(answers'[c]) = Cardinality(answers[c]) + 1
<1> DEFINE c == dialog.transaction
           i == dialog.interaction
<1>1. c \in Calls /\ answers \in [Calls -> SUBSET Interactions]
  BY DEF Types
<1>2. answers' = [answers EXCEPT ![c] = answers[c] \cup {i}]
  BY DEF StoreAnswer
<1>3. IsFiniteSet(answers[c])
  BY <1>1 DEF FateParts, FreshCall
<1>4. c \notin spoilt => i \in asked[c] \ answers[c] /\ answers[c] \subseteq asked[c]
  BY <1>1 DEF FateParts, FreshCall, FreshDialog
<1> HIDE DEF c, i
<1>5. answers'[c] = answers[c] \cup {i} /\ \A d \in Calls \ {c} : answers'[d] = answers[d]
  BY <1>1, <1>2
<1>6. IsFiniteSet(answers[c] \cup {i})
      /\ (i \notin answers[c] => Cardinality(answers[c] \cup {i}) = Cardinality(answers[c]) + 1)
  BY <1>3, FS_AddElement
<1>7. /\ \A d \in Calls \ {c} : answers'[d] = answers[d]
      /\ IsFiniteSet(answers'[c])
      /\ c \notin spoilt => /\ answers'[c] \subseteq asked[c]
                            /\ Cardinality(answers'[c]) = Cardinality(answers[c]) + 1
  BY <1>4, <1>5, <1>6
<1> QED
  BY <1>7 DEF c

LEMMA FateAnswerYesStep ==
  ASSUME CallsInv, FateInv, AnswerYes
  PROVE  FateInv'
<1>1. FateParts /\ Types /\ Awaited
  BY FateInvIs, CallsInvIs
<1> DEFINE c == dialog.transaction
<1>2. /\ retryCount' = [retryCount EXCEPT ![c] = retryCount[c] + 1]
      /\ dialog # NoDialog /\ dialog' = NoDialog /\ StoreAnswer
      /\ UNCHANGED <<results, done, asked, failed, spoilt>>
      /\ QueueTransaction(c, requests)
  BY DEF AnswerYes, history
<1>3. /\ \A d \in Calls \ {c} : answers'[d] = answers[d]
      /\ IsFiniteSet(answers'[c])
      /\ c \notin spoilt => /\ answers'[c] \subseteq asked[c]
                            /\ Cardinality(answers'[c]) = Cardinality(answers[c]) + 1
  BY <1>1, <1>2, AnswerCounted
<1>4. c \in Calls /\ c \notin Underway
  BY <1>1, <1>2 DEF Types, Awaited
<1> HIDE DEF c
<1>5. /\ requests \subseteq requests'
      /\ \A q \in requests' \ requests : FreshRequest(q)' /\ q.state = "sent"
  BY <1>2, QueuedFresh
<1>6. \A q \in Waiting : FreshRequest(q)'
  <2> SUFFICES ASSUME NEW q \in Waiting PROVE FreshRequest(q)'
    OBVIOUS
  <2>1. FreshRequest(q) /\ q \in requests
    BY <1>1 DEF FateParts, Waiting
  <2>2. \A k \in DOMAIN q.data : q.data[k].tid \in Calls \ {c}
    BY <1>4, <2>1, TidsAreCalls DEF CallsInv, Underway
  <2> QED
    BY <1>2, <1>3, <2>1, <2>2 DEF FreshRequest
<1>7. \A q \in Waiting' : FreshRequest(q)'
  BY <1>5, <1>6 DEF Waiting
<1>8. \A q \in requests' : q.state = "served" => TrueRequest(q)'
  BY <1>1, <1>2, <1>5 DEF FateParts, TrueRequest
<1>9. \A q \in requests' : q.state = "abandoned" => Tids(q) \subseteq failed'
  BY <1>1, <1>2, <1>5 DEF FateParts
<1>10. ASSUME NEW d \in Calls PROVE FreshCall(d)'
  <2>1. CASE d = c
    <3>1. /\ retryCount'[c] = retryCount[c] + 1 /\ retryCount[c] \in Nat /\ MaxRetries \in Nat
          /\ Cardinality(answers[c]) \in Nat
      BY <1>1, <1>2, <1>4, CallsAssumption, FS_CardinalityType DEF FateParts, FreshCall, Types
    <3>2. c \notin spoilt => retryCount[c] <= MaxRetries + Cardinality(answers[c])
      BY <1>1, <1>4 DEF FateParts, FreshCall
    <3>3. c \notin spoilt => retryCount'[c] <= MaxRetries + Cardinality(answers'[c])
      BY <1>3, <3>1, <3>2
    <3> QED
      BY <1>2, <1>3, <2>1, <3>3 DEF FreshCall
  <2>2. CASE d # c
    <3>1. retryCount'[d] = retryCount[d]
      BY <1>1, <1>2, <2>2 DEF Types
    <3> QED
      BY <1>1, <1>2, <1>3, <2>2, <3>1 DEF FateParts, FreshCall
  <2> QED
    BY <2>1, <2>2
<1>11. ASSUME NEW d \in Calls PROVE TrueCall(d)'
  <2>1. InResponse(d) => InResponse(d)'
    BY <1>5 DEF InResponse, Tids
  <2> QED
    BY <1>1, <1>2, <2>1 DEF FateParts, TrueCall
<1>12. FreshDialog'
  BY <1>2 DEF FreshDialog
<1> QED
  BY <1>7, <1>8, <1>9, <1>10, <1>11, <1>12, FateInvIsNext DEF FateParts

LEMMA FateAnswerNoStep ==
  ASSUME CallsInv, FateInv, AnswerNo
  PROVE  FateInv'
<1>1. FateParts /\ Types /\ Awaited
  BY FateInvIs, CallsInvIs
<1> DEFINE c == dialog.transaction
           e == IF dialog.event = "ok" THEN "ok" ELSE "refused"
<1>2. /\ results' = [results EXCEPT ![c] = Append(results[c], e)]
      /\ dialog # NoDialog /\ dialog' = NoDialog /\ StoreAnswer
      /\ spoilt \subseteq spoilt'
      /\ UNCHANGED <<retryCount, requests, done, asked, failed>>
  BY DEF AnswerNo
<1>3. /\ \A d \in Calls \ {c} : answers'[d] = answers[d]
      /\ IsFiniteSet(answers'[c])
      /\ c \notin spoilt => /\ answers'[c] \subseteq asked[c]
                            /\ Cardinality(answers'[c]) = Cardinality(answers[c]) + 1
  BY <1>1, <1>2, AnswerCounted
<1>4. c \in Calls /\ c \notin Underway /\ results[c] = <<>>
  BY <1>1, <1>2 DEF Types, Awaited, Unanswered
<1>5. c \notin spoilt => e = "refused"
  BY <1>1, <1>2, CallsAssumption DEF FateParts, FreshDialog
<1>6. e \in {"ok", "refused", "lost"}
  OBVIOUS
<1> HIDE DEF c, e
<1>7. \A q \in Waiting : FreshRequest(q)'
  <2> SUFFICES ASSUME NEW q \in Waiting PROVE FreshRequest(q)'
    OBVIOUS
  <2>1. FreshRequest(q) /\ q \in requests
    BY <1>1 DEF FateParts, Waiting
  <2>2. \A k \in DOMAIN q.data : q.data[k].tid \in Calls \ {c}
    BY <1>4, <2>1, TidsAreCalls DEF CallsInv, Underway
  <2> QED
    BY <1>2, <1>3, <2>1, <2>2 DEF FreshRequest
<1>8. \A q \in Waiting' : FreshRequest(q)'
  BY <1>2, <1>7 DEF Waiting
<1>9. \A q \in requests' : q.state = "served" => TrueRequest(q)'
  BY <1>1, <1>2 DEF FateParts, TrueRequest
<1>10. \A q \in requests' : q.state = "abandoned" => Tids(q) \subseteq failed'
  BY <1>1, <1>2 DEF FateParts
<1>11. ASSUME NEW d \in Calls PROVE FreshCall(d)'
  <2>1. CASE d = c
    <3>1. retryCount[c] \in Nat /\ MaxRetries \in Nat /\ Cardinality(answers[c]) \in Nat
      BY <1>1, <1>4, CallsAssumption, FS_CardinalityType DEF FateParts, FreshCall, Types
    <3>2. c \notin spoilt => retryCount[c] <= MaxRetries + Cardinality(answers[c])
      BY <1>1, <1>4 DEF FateParts, FreshCall
    <3>3. c \notin spoilt => retryCount[c] <= MaxRetries + Cardinality(answers'[c])
      BY <1>3, <3>1, <3>2
    <3> QED
      BY <1>2, <1>3, <2>1, <3>3 DEF FreshCall
  <2>2. CASE d # c
    BY <1>1, <1>2, <1>3, <2>2 DEF FateParts, FreshCall
  <2> QED
    BY <2>1, <2>2
<1>12. ASSUME NEW d \in Calls PROVE TrueCall(d)'
  <2> SUFFICES ASSUME d \notin failed \cup spoilt PROVE TrueCall(d)'
    BY <1>2 DEF TrueCall
  <2>1. CASE d = c
    <3>1. results'[c] = <<"refused">>
      BY <1>1, <1>2, <1>4, <1>5, <2>1, Told DEF Types
    <3>2. ~InResponse(c)
      BY <1>4 DEF InResponse, Waiting, Underway
    <3>3. done[c] = 0
      BY <1>1, <1>4, <2>1, <3>2 DEF FateParts, TrueCall
    <3>4. <<"refused">> # <<>> /\ <<"refused">> # <<"ok">>
      OBVIOUS
    <3> QED
      BY <1>2, <2>1, <3>1, <3>3, <3>4 DEF TrueCall
  <2>2. CASE d # c
    <3>1. results'[d] = results[d]
      BY <1>1, <1>2, <2>2 DEF Types
    <3>2. InResponse(d) => InResponse(d)'
      BY <1>2 DEF InResponse, Tids
    <3> QED
      BY <1>1, <1>2, <3>1, <3>2 DEF FateParts, TrueCall
  <2> QED
    BY <2>1, <2>2
<1>13. FreshDialog'
  BY <1>2 DEF FreshDialog
<1> QED
  BY <1>8, <1>9, <1>10, <1>11, <1>12, <1>13, FateInvIsNext DEF FateParts

LEMMA FateNextStep ==
  ASSUME CallsInv, FateInv, [Next]_vars
  PROVE  FateInv'
<1>1. CASE \E c \in Calls : Issue(c)
  BY <1>1, FateIssueStep
<1>2. CASE CombineAndSend
  BY <1>2, FateCombineStep
<1>3. CASE \E r \in requests : Serve(r) \/ Vanish(r) \/ OnData(r) \/ OnFailure(r)
  BY <1>3, FateServeStep, FateVanishStep, FateOnDataStep, FateOnFailureStep
<1>4. CASE AnswerYes
  BY <1>4, FateAnswerYesStep
<1>5. CASE AnswerNo
  BY <1>5, FateAnswerNoStep
<1>6. CASE UNCHANGED vars
  <2>1. FateParts
    BY FateInvIs
  <2>2. \A d \in Calls : InResponse(d)' <=> InResponse(d)
    BY <1>6 DEF InResponse, Tids, vars, provider
  <2>3. \A r \in Waiting' : FreshRequest(r)'
    BY <1>6, <2>1 DEF FateParts, FreshRequest, Waiting, vars, provider, history
  <2>4. \A r \in requests' : r.state = "served" => TrueRequest(r)'
    BY <1>6, <2>1 DEF FateParts, TrueRequest, vars, provider, history
  <2>5. \A r \in requests' : r.state = "abandoned" => Tids(r) \subseteq failed'
    BY <1>6, <2>1 DEF FateParts, vars, provider, history
  <2>6. FreshDialog'
    BY <1>6, <2>1 DEF FateParts, FreshDialog, vars, provider, history
  <2>7. \A d \in Calls : FreshCall(d)' /\ TrueCall(d)'
    BY <1>6, <2>1, <2>2 DEF FateParts, FreshCall, TrueCall, vars, provider, history
  <2> QED
    BY <2>3, <2>4, <2>5, <2>6, <2>7, FateInvIsNext DEF FateParts
<1> QED
  BY <1>1, <1>2, <1>3, <1>4, <1>5, <1>6 DEF Next

\* The second inductive invariant: an attempt carries the answers of its call,
\* and what was done of an untouched call is what its response says.
THEOREM FateInvariant == Spec => []FateInv
<1>1. CallsInv /\ FateInv /\ [Next]_vars => FateInv'
  BY FateNextStep
<1> QED
  BY CallsInvariant, FateInitStep, <1>1, PTL DEF Spec

\* A call that no failure and no confusion touched is carried out as its
\* callback is told (onData, interactWithUser, skipRetry).
THEOREM ToldTheorem == Spec => []ToldWhatWasDone
<1>1. FateInv => ToldWhatWasDone
  BY DEF FateInv
<1> QED
  BY FateInvariant, <1>1, PTL

\* The context of an unconfused call holds answers to questions asked for it.
THEOREM AnswersTheorem == Spec => []UnmixedAnswersBelong
<1>1. FateInv => UnmixedAnswersBelong
  BY DEF FateInv
<1> QED
  BY FateInvariant, <1>1, PTL

\* An unconfused call is sent again only as often as retries are allowed and
\* questions answered (retry, retryTransaction).
THEOREM AttemptsTheorem == Spec => []AttemptsBounded
<1>1. FateInv => AttemptsBounded
  BY DEF FateInv
<1> QED
  BY FateInvariant, <1>1, PTL

-----------------------------------------------------------------------------
(* The promise of a remote call *)

Issued == transactions \cup {c \in Calls : results[c] # <<>>}

LEMMA PromiseIssue ==
  ASSUME CallsInv, NEW c \in Calls, Issue(c)
  PROVE  Promise!Issue(c)
BY DEF Issue, history, Promise!Issue

LEMMA PromiseExecute ==
  ASSUME CallsInv, NEW r \in requests, Serve(r)
  PROVE  \E S \in SUBSET Calls : Promise!Execute(S)
<1>1. Types /\ Queue /\ Awaited /\ Truthful
  BY CallsInvIs
<1>2. PICK ev \in Verdicts(r) :
       done' = [c \in Calls |->
            IF \E k \in DOMAIN ev : r.data[k].tid = c /\ ev[k] = "ok"
            THEN done[c] + 1 ELSE done[c]]
  BY DEF Serve
<1> DEFINE S == {c \in Calls : \E k \in DOMAIN ev : r.data[k].tid = c /\ ev[k] = "ok"}
<1>3. done' = [c \in Calls |-> IF c \in S THEN done[c] + 1 ELSE done[c]]
  BY <1>2
<1>4. DOMAIN ev = DOMAIN r.data
  BY DEF Verdicts
<1>5. S \subseteq Issued /\ S \in SUBSET Calls
  <2>1. \A k \in DOMAIN r.data : r.data[k].tid \in Issued
    BY <1>1, TidsAreCalls DEF CallsInv, Truthful, Issued
  <2> QED
    BY <1>4, <2>1
<1> HIDE DEF S
<1>6. UNCHANGED <<transactions, results>>
  BY DEF Serve, provider
<1>7. Promise!Execute(S)
  BY <1>3, <1>5, <1>6 DEF Promise!Execute, Issued
<1> QED
  BY <1>5, <1>7

Reported(ok, no, failure) ==
  /\ UNCHANGED done /\ Issued' = Issued
  /\ ok \subseteq Calls /\ no \subseteq Calls /\ ok \cap no = {}
  /\ \A c \in ok \cup no : Unanswered(c)
  /\ \A c \in ok : done[c] > 0
  /\ failure \in [no -> {"refused", "lost"}]
  /\ results' = [c \in Calls |-> IF c \in ok THEN <<"ok">>
                                 ELSE IF c \in no THEN <<failure[c]>> ELSE results[c]]

LEMMA PromiseReport ==
  ASSUME NEW ok, NEW no, NEW failure, Reported(ok, no, failure)
  PROVE  \E o, n \in SUBSET Calls : Promise!Report(o, n)
<1>1. ok \cup no \subseteq Issued /\ \A c \in ok \cup no : results[c] = <<>>
  BY DEF Unanswered, Issued, Reported
<1>2. Promise!Report(ok, no)
  BY <1>1 DEF Promise!Report, Issued, Reported
<1> QED
  BY <1>2 DEF Reported

LEMMA PromiseOnData ==
  ASSUME CallsInv, NEW r \in requests, OnData(r)
  PROVE  \E o, n \in SUBSET Calls : Promise!Report(o, n)
<1>1. Types /\ Queue /\ Awaited /\ Truthful
  BY CallsInvIs
<1> DEFINE K(c) == {k \in CalledBack(r) : r.data[k].tid = c}
           given(c) == r.events[CHOOSE k \in K(c) : TRUE]
           told == {c \in Calls : K(c) # {}}
           ok == {c \in told : given(c) = "ok"}
           no == told \ ok
           failure == [c \in no |-> given(c)]
<1>2. /\ r.state = "served" /\ UNCHANGED done
      /\ results' = [c \in Calls |-> IF K(c) = {} THEN results[c]
                                     ELSE Append(results[c], given(c))]
      /\ transactions' = transactions \ TidsAt(r, {k \in CalledBack(r) : ~Raises(r, k)})
  BY DEF OnData
<1>3. /\ DOMAIN r.events = DOMAIN r.data
      /\ \A k \in DOMAIN r.data : /\ r.data[k].tid \in Calls \cap Tids(r)
                                  /\ Unanswered(r.data[k].tid)
      /\ \A k \in CalledBack(r) : k \in DOMAIN r.events /\ r.events[k] \in {"ok", "refused"}
  BY <1>2, Responded
<1>4. \A c \in told : \E k \in DOMAIN r.events :
        /\ r.data[k].tid = c /\ given(c) = r.events[k]
        /\ given(c) \in {"ok", "refused"} /\ Unanswered(c)
  BY <1>3
<1>5. \A c \in ok : done[c] > 0
  BY <1>1, <1>4 DEF Truthful
<1>6. \A c \in Calls : (K(c) = {}) <=> c \notin told
  OBVIOUS
<1>7. TidsAt(r, {k \in CalledBack(r) : ~Raises(r, k)}) \subseteq told
  BY <1>3 DEF TidsAt
<1> HIDE DEF given, K, told
<1>8. \A c \in told : given(c) \in {"ok", "refused"} /\ c \in Calls /\ results[c] = <<>>
  BY <1>4 DEF Unanswered, told
<1>9. \A c \in told : Append(results[c], given(c)) = <<given(c)>>
  BY <1>8, Told
<1>10. results' = [c \in Calls |-> IF c \in ok THEN <<"ok">>
                                   ELSE IF c \in no THEN <<failure[c]>> ELSE results[c]]
  BY <1>2, <1>6, <1>8, <1>9
<1>11. failure \in [no -> {"refused", "lost"}]
  BY <1>8
<1>12. Issued' = Issued
  <2>1. \A c \in Calls : results'[c] # <<>> <=> (results[c] # <<>> \/ c \in told)
    BY <1>2, <1>6, <1>8, <1>9, Told
  <2>2. \A c \in told : c \in transactions
    BY <1>4 DEF Unanswered
  <2> QED
    BY <1>2, <1>7, <1>8, <2>1, <2>2 DEF Issued
<1>13. ok \subseteq Calls /\ no \subseteq Calls /\ ok \cap no = {} /\ \A c \in ok \cup no : Unanswered(c)
  BY <1>4, <1>8
<1> HIDE DEF ok, no, failure
<1>14. Reported(ok, no, failure)
  BY <1>2, <1>5, <1>10, <1>11, <1>12, <1>13 DEF Reported
<1> QED
  BY <1>14, PromiseReport

LEMMA PromiseOnFailure ==
  ASSUME CallsInv, NEW r \in requests, OnFailure(r)
  PROVE  \E o, n \in SUBSET Calls : Promise!Report(o, n)
<1>1. Types /\ Queue /\ Awaited /\ Truthful
  BY CallsInvIs
<1> DEFINE again == {k \in HandledLost(r) : Retried(r, k)}
           told == {k \in HandledLost(r) \ again : r.data[k].tid \in transactions}
           no == TidsAt(r, told)
           failure == [c \in no |-> "lost"]
<1>2. /\ r.state \in {"sent", "served"} /\ UNCHANGED done
      /\ results' = [c \in Calls |-> IF c \in no THEN Append(results[c], "lost") ELSE results[c]]
      /\ transactions' = transactions \ TidsAt(r, {k \in told : ~RaisesLost(r, k)})
  BY DEF OnFailure
<1>3. no \subseteq Tids(r) /\ Tids(r) \subseteq Calls /\ \A c \in Tids(r) : Unanswered(c)
  BY <1>2, Failing
<1>4. TidsAt(r, {k \in told : ~RaisesLost(r, k)}) \subseteq no
  BY DEF TidsAt
<1> HIDE DEF no
<1>5. \A c \in no : Append(results[c], "lost") = <<"lost">>
  BY <1>3, Told DEF Unanswered
<1>6. results' = [c \in Calls |-> IF c \in {} THEN <<"ok">>
                                  ELSE IF c \in no THEN <<failure[c]>> ELSE results[c]]
  BY <1>2, <1>5
<1>7. Issued' = Issued
  <2>1. \A c \in Calls : results'[c] # <<>> <=> (results[c] # <<>> \/ c \in no)
    BY <1>2, <1>5, Told
  <2>2. \A c \in no : c \in transactions /\ c \in Calls
    BY <1>3 DEF Unanswered
  <2> QED
    BY <1>2, <1>4, <2>1, <2>2 DEF Issued
<1>8. failure \in [no -> {"refused", "lost"}]
  OBVIOUS
<1>9. no \subseteq Calls /\ \A c \in {} \cup no : Unanswered(c)
  BY <1>3
<1> HIDE DEF failure
<1>10. Reported({}, no, failure)
  BY <1>2, <1>6, <1>7, <1>8, <1>9 DEF Reported
<1> QED
  BY <1>10, PromiseReport

LEMMA PromiseAnswerNo ==
  ASSUME CallsInv, AnswerNo
  PROVE  \E o, n \in SUBSET Calls : Promise!Report(o, n)
<1>1. Types /\ Queue /\ Awaited /\ Truthful
  BY CallsInvIs
<1> DEFINE c == dialog.transaction
           e == IF dialog.event = "ok" THEN "ok" ELSE "refused"
           ok == IF dialog.event = "ok" THEN {c} ELSE {}
           no == {c} \ ok
           failure == [d \in no |-> "refused"]
<1>2. c \in Calls /\ Unanswered(c)
  BY <1>1 DEF Types, Awaited, AnswerNo
<1>3. /\ results' = [results EXCEPT ![c] = Append(@, e)]
      /\ transactions' \subseteq transactions /\ transactions \subseteq transactions' \cup {c}
      /\ UNCHANGED done
  BY DEF AnswerNo
<1>4. Append(results[c], e) = <<e>>
  BY <1>2, Told DEF Unanswered
<1>5. results' = [results EXCEPT ![c] = <<e>>] /\ results \in [Calls -> Results]
  BY <1>1, <1>3, <1>4 DEF Types
<1>6. \A d \in ok : done[d] > 0
  BY <1>1 DEF Truthful, AnswerNo
<1>7. results' = [d \in Calls |-> IF d \in ok THEN <<"ok">>
                                  ELSE IF d \in no THEN <<failure[d]>> ELSE results[d]]
  BY <1>2, <1>5
<1>8. /\ ok \subseteq Calls /\ no \subseteq Calls /\ ok \cap no = {} /\ ok \cup no = {c}
      /\ failure \in [no -> {"refused", "lost"}]
  BY <1>2
<1>9. Issued' = Issued
  <2>1. \A d \in Calls : results'[d] # <<>> <=> (results[d] # <<>> \/ d = c)
    BY <1>2, <1>5, Told
  <2> QED
    BY <1>2, <1>3, <2>1 DEF Issued, Unanswered
<1> HIDE DEF c, e, ok, no, failure
<1>10. Reported(ok, no, failure)
  BY <1>2, <1>3, <1>6, <1>7, <1>8, <1>9 DEF Reported
<1> QED
  BY <1>10, PromiseReport

LEMMA PromiseStep ==
  ASSUME CallsInv, [Next]_vars
  PROVE  [Promise!Next]_(Promise!vars)
<1>1. CASE \E c \in Calls : Issue(c)
  BY <1>1, PromiseIssue DEF Promise!Next
<1>2. CASE CombineAndSend
  BY <1>2 DEF CombineAndSend, history, Promise!vars
<1>3. CASE \E r \in requests : Serve(r)
  BY <1>3, PromiseExecute DEF Promise!Next
<1>4. CASE \E r \in requests : Vanish(r)
  BY <1>4 DEF Vanish, provider, history, Promise!vars
<1>5. CASE \E r \in requests : OnData(r)
  BY <1>5, PromiseOnData DEF Promise!Next
<1>6. CASE \E r \in requests : OnFailure(r)
  BY <1>6, PromiseOnFailure DEF Promise!Next
<1>7. CASE AnswerYes
  BY <1>7 DEF AnswerYes, history, Promise!vars
<1>8. CASE AnswerNo
  BY <1>8, PromiseAnswerNo DEF Promise!Next
<1>9. CASE UNCHANGED vars
  BY <1>9 DEF vars, provider, history, Promise!vars
<1> QED
  BY <1>1, <1>2, <1>3, <1>4, <1>5, <1>6, <1>7, <1>8, <1>9 DEF Next

\* The provider keeps the promise of a remote call: one callback, and a success
\* only for a call the server has carried out.
THEOREM PromiseTheorem == Spec => KeepsPromise
<1>1. Init => Promise!Init
  BY DEF Init, Promise!Init
<1>2. CallsInv /\ [Next]_vars => [Promise!Next]_(Promise!vars)
  BY PromiseStep
<1> QED
  BY CallsInvariant, <1>1, <1>2, PTL DEF Spec, KeepsPromise, Promise!Spec

=============================================================================
