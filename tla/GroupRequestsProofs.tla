------------------------- MODULE GroupRequestsProofs -------------------------
(***************************************************************************)
(* Proofs about GroupRequests, for any documents, statuses and routes.     *)
(***************************************************************************)
EXTENDS GroupRequestsInv, FiniteSetTheorems, SequenceTheorems, TLAPS

\* The registry of one document is empty or one record.
LEMMA OneRecord ==
  ASSUME NEW s \in Seq(ExecutedRow), Len(s) <= 1, NEW e \in ExecutedRow
  PROVE  /\ s = <<>> => Append(s, e) = <<e>>
         /\ s # <<>> => [s EXCEPT ![Len(s)] = e] = <<e>>
<1>1. s = <<>> => Append(s, e) = <<e>>
  OBVIOUS
<1>2. ASSUME s # <<>> PROVE [s EXCEPT ![Len(s)] = e] = <<e>>
  <2>1. Len(s) \in Nat /\ Len(s) # 0
    BY <1>2, EmptySeq
  <2>2. Len(s) = 1
    BY <2>1
  <2>3. /\ [s EXCEPT ![1] = e] \in Seq(ExecutedRow)
        /\ Len([s EXCEPT ![1] = e]) = 1
        /\ [s EXCEPT ![1] = e][1] = e
    BY <2>2, ExceptSeq
  <2>4. <<e>> \in Seq(ExecutedRow) /\ Len(<<e>>) = 1 /\ <<e>>[1] = e
    OBVIOUS
  <2>5. \A i \in 1..1 : [s EXCEPT ![1] = e][i] = <<e>>[i]
    BY <2>3, <2>4
  <2>6. [s EXCEPT ![1] = e] = <<e>>
    BY <2>3, <2>4, <2>5, SeqEqual
  <2> QED
    BY <2>2, <2>6
<1> QED
  BY <1>1, <1>2

-----------------------------------------------------------------------------
(* What SaveChanges does to one document.                                  *)

SavedImage(i) ==
  /\ image[i] = Nothing => image'[i] = Nothing
  /\ image[i] # Nothing =>
       image'[i] = [now |-> image[i].now, was |-> image[i].now, modified |-> FALSE]
  /\ txRows'[i] = IF Pending(i) THEN image[i].now ELSE txRows[i]

SavedRecord(i) ==
  /\ entry[i] = Nothing => entry'[i] = Nothing /\ txExecuted'[i] = txExecuted[i]
  /\ entry[i] # Nothing =>
       /\ entry'[i] = [row |-> entry[i].row, added |-> FALSE]
       /\ txExecuted'[i] = IF entry[i].added \/ txExecuted[i] # <<>>
                           THEN <<entry[i].row>> ELSE <<>>

LEMMA SavedImageFact ==
  ASSUME GroupInv, SaveChanges, NEW i \in Items
  PROVE  SavedImage(i)
BY DEF GroupInv, TypeOK, SaveChanges, AcceptChanges, SavedRows, SavedImage

LEMMA SavedRecordFact ==
  ASSUME GroupInv, SaveChanges, NEW i \in Items
  PROVE  SavedRecord(i)
<1> DEFINE s == txExecuted[i]
<1>1. s \in Seq(ExecutedRow) /\ Len(s) <= 1
  BY DEF GroupInv, TypeOK, DocumentInv, RecordInv
<1>2. txExecuted'[i] = IF entry[i] = Nothing THEN s
                       ELSE IF entry[i].added THEN Append(s, entry[i].row)
                       ELSE IF s = <<>> THEN <<>>
                       ELSE [s EXCEPT ![Len(s)] = entry[i].row]
  BY DEF SaveChanges, SavedExecuted
<1>3. entry[i] = Nothing => entry'[i] = Nothing
  BY DEF SaveChanges, AcceptChanges
<1>4. ASSUME entry[i] # Nothing
      PROVE  /\ entry'[i] = [row |-> entry[i].row, added |-> FALSE]
             /\ txExecuted'[i] = IF entry[i].added \/ s # <<>>
                                 THEN <<entry[i].row>> ELSE <<>>
  <2>1. entry[i] \in Entry
    BY <1>4 DEF GroupInv, TypeOK
  <2>2. entry[i].row \in ExecutedRow /\ entry[i].added \in BOOLEAN
    BY <2>1 DEF Entry
  <2>3. entry[i].added => s = <<>>
    BY <2>1 DEF GroupInv, DocumentInv, RecordInv
  <2>4. entry'[i] = [row |-> entry[i].row, added |-> FALSE]
    BY <1>4 DEF SaveChanges, AcceptChanges
  <2>5. /\ s = <<>> => Append(s, entry[i].row) = <<entry[i].row>>
        /\ s # <<>> => [s EXCEPT ![Len(s)] = entry[i].row] = <<entry[i].row>>
    BY <1>1, <2>2, OneRecord
  <2> HIDE DEF s
  <2> QED
    BY <1>2, <1>4, <2>3, <2>4, <2>5
<1> QED
  BY <1>2, <1>3, <1>4 DEF SavedRecord

LEMMA SavedType ==
  ASSUME GroupInv, SaveChanges
  PROVE  /\ image' \in [Items -> Image \cup {Nothing}]
         /\ entry' \in [Items -> Entry \cup {Nothing}]
         /\ txRows' \in [Items -> Row \cup {Nothing}]
         /\ txExecuted' \in [Items -> Seq(ExecutedRow)]
<1> USE DEF GroupInv, TypeOK
<1>1. image' \in [Items -> Image \cup {Nothing}]
  BY DEF SaveChanges, AcceptChanges, Image
<1>2. entry' \in [Items -> Entry \cup {Nothing}]
  BY DEF SaveChanges, AcceptChanges, Entry
<1>3. txRows' \in [Items -> Row \cup {Nothing}]
  BY DEF SaveChanges, SavedRows, Image, Pending
<1>4. txExecuted' \in [Items -> Seq(ExecutedRow)]
  <2>1. ASSUME NEW i \in Items PROVE txExecuted'[i] \in Seq(ExecutedRow)
    <3>1. CASE entry[i] = Nothing
      BY <3>1, SavedRecordFact DEF SavedRecord
    <3>2. CASE entry[i] # Nothing
      <4>1. entry[i].row \in ExecutedRow
        BY <3>2 DEF Entry
      <4>2. <<entry[i].row>> \in Seq(ExecutedRow) /\ <<>> \in Seq(ExecutedRow)
        BY <4>1, EmptySeq
      <4> QED
        BY <3>2, <4>2, SavedRecordFact DEF SavedRecord
    <3> QED
      BY <3>1, <3>2
  <2>2. txExecuted' = [i \in Items |-> txExecuted'[i]]
    BY DEF SaveChanges, SavedExecuted
  <2> QED
    BY <2>1, <2>2
<1> QED
  BY <1>1, <1>2, <1>3, <1>4

\* A save leaves every document where it was, whether or not the transaction is
\* completed with it.
LEMMA SavedDocument ==
  ASSUME GroupInv, SaveChanges, NEW i \in Items, kind' = kind, pc # "thrown",
         i \in todo' => i \in todo, i \in done' => i \in done,
         \/ rows'[i] = rows[i] /\ executed'[i] = executed[i]
         \/ rows'[i] = txRows'[i] /\ executed'[i] = txExecuted'[i]
  PROVE  DocumentInv(i)'
<1> USE DEF GroupInv
<1>1. SavedImage(i) /\ SavedRecord(i)
  BY SavedImageFact, SavedRecordFact
<1>2. image[i] # Nothing => image'[i] # Nothing
  <2>1. image'[i] = [now |-> image[i].now, was |-> image[i].now, modified |-> FALSE]
        /\ image[i] \in Image => image'[i] \in Image
    BY DEF Image
  <2> QED
    BY <2>1, <1>1, NothingAssumption DEF SavedImage, TypeOK
<1>3. image[i] # Nothing => ~Pending(i)'
  BY <1>1 DEF SavedImage, Pending
<1>4. ASSUME entry[i] # Nothing PROVE entry'[i] # Nothing
  <2>1. entry[i] \in Entry
    BY <1>4 DEF TypeOK
  <2>2. [row |-> entry[i].row, added |-> FALSE] \in Entry
    BY <2>1 DEF Entry
  <2> QED
    BY <2>2, <1>1, <1>4, NothingAssumption DEF SavedRecord
<1>5. RecordInv(i)'
  <2>1. DocumentInv(i) /\ RecordInv(i)
    BY DEF DocumentInv
  <2>2. CASE entry[i] = Nothing
    BY <2>1, <2>2, <1>1 DEF RecordInv, SavedRecord
  <2>3. CASE entry[i] # Nothing
    <3>1. Len(<<entry[i].row>>) = 1 /\ Len(<<>>) = 0
      OBVIOUS
    <3>3. entry'[i] # Nothing /\ ~entry'[i].added
      BY <2>3, <1>1, <1>4 DEF SavedRecord
    <3>4. txExecuted'[i] = <<entry[i].row>> \/ txExecuted'[i] = <<>>
      BY <2>3, <1>1 DEF SavedRecord
    <3>5. Len(txExecuted'[i]) = 1 \/ Len(txExecuted'[i]) = 0
      BY <3>1, <3>4, Zenon
    <3>6. \A n : n = 1 \/ n = 0 => n <= 1
      OBVIOUS
    <3>2. Len(txExecuted'[i]) <= 1
      BY <3>5, <3>6, Zenon
    <3> QED
      BY <2>1, <2>3, <3>2, <3>3, <1>2 DEF RecordInv
  <2> QED
    BY <2>2, <2>3
<1>6. ASSUME kind = "Execute", i \in done PROVE Settled(i)'
  <2>1. Settled(i)
    BY <1>6 DEF DocumentInv
  <2>2. txRows'[i] = txRows[i] /\ txExecuted'[i] = <<entry[i].row>>
    BY <2>1, <1>1 DEF Settled, SavedImage, SavedRecord
  <2>3. entry'[i] = [row |-> entry[i].row, added |-> FALSE]
    BY <2>1, <1>1 DEF Settled, SavedRecord
  <2> QED
    BY <2>1, <2>2, <2>3, <1>2, <1>3, <1>4 DEF Settled
<1>7. ASSUME kind = "Update", i \in done PROVE Kept(i)'
  <2>1. Kept(i)
    BY <1>7 DEF DocumentInv
  <2>2. txRows'[i] = txRows[i]
    BY <2>1, <1>1 DEF Kept, SavedImage
  <2> QED
    BY <2>1, <2>2, <1>2, <1>3 DEF Kept
<1>8. i \in todo => image'[i] = Nothing
  BY <1>1 DEF DocumentInv, SavedImage
<1> QED
  BY <1>5, <1>6, <1>7, <1>8 DEF DocumentInv

-----------------------------------------------------------------------------
(* Documents a step leaves alone, and the steps all kinds of requests share. *)

SameDocument(i) ==
  /\ rows'[i] = rows[i] /\ executed'[i] = executed[i]
  /\ txRows'[i] = txRows[i] /\ txExecuted'[i] = txExecuted[i]
  /\ image'[i] = image[i] /\ entry'[i] = entry[i]
  /\ i \in todo' <=> i \in todo
  /\ i \in done' <=> i \in done

LEMMA SameDocumentKept ==
  ASSUME NEW i \in Items, DocumentInv(i), SameDocument(i), kind' = kind, pc # "thrown"
  PROVE  DocumentInv(i)'
BY DEF DocumentInv, RecordInv, Settled, Kept, Pending, SameDocument

LEMMA ThrowStep ==
  ASSUME GroupInv, Throw, pc \notin {"answered", "thrown"}
  PROVE  GroupInv'
<1> USE DEF GroupInv, Throw, Rollback, committed, request, context
<1>1. TypeOK'
  BY DEF TypeOK
<1>2. PlaceInv' /\ OutsideTransaction' /\ KindInv' /\ InHand'
  BY DEF PlaceInv, OutsideTransaction, KindInv, InHand, Working
<1>3. ASSUME NEW i \in Items PROVE DocumentInv(i)'
  <2>1. DocumentInv(i)
    OBVIOUS
  <2> QED
    BY <2>1 DEF DocumentInv, RecordInv, Settled, Pending, TypeOK
<1> QED
  BY <1>1, <1>2, <1>3

\* A refused document whose transaction is rolled back (Execute).
LEMMA RefusedRollback ==
  ASSUME GroupInv, Refused, Rollback, UNCHANGED context, kind = "Execute", pc \in Working
  PROVE  GroupInv'
<1> USE DEF GroupInv, Refused, Rollback, committed, request, context
<1>1. TypeOK'
  BY DEF TypeOK, PlaceInv
<1>2. PlaceInv'
  BY NothingAssumption DEF PlaceInv, Working, TypeOK
<1>4. OutsideTransaction' /\ KindInv' /\ InHand'
  BY DEF OutsideTransaction, KindInv, InHand, Working
<1>3. ASSUME NEW i \in Items PROVE DocumentInv(i)'
  <2>1. DocumentInv(i)
    OBVIOUS
  <2> QED
    BY <2>1 DEF DocumentInv, RecordInv, Settled, Pending, TypeOK
<1> QED
  BY <1>1, <1>2, <1>3, <1>4

\* One refused in the transaction of the whole request (Update).
LEMMA RefusedInside ==
  ASSUME GroupInv, Refused, UNCHANGED <<committed, transaction, context>>,
         kind = "Update", pc \in {"set", "saved"}
  PROVE  GroupInv'
<1> USE DEF GroupInv, Refused, committed, transaction, request, context
<1>1. TypeOK'
  BY DEF TypeOK, PlaceInv, Working
<1>2. PlaceInv'
  BY NothingAssumption DEF PlaceInv, Working, TypeOK
<1>4. OutsideTransaction' /\ KindInv' /\ InHand'
  BY DEF OutsideTransaction, KindInv, InHand, Working
<1>3. ASSUME NEW i \in Items PROVE DocumentInv(i)'
  BY SameDocumentKept DEF SameDocument
<1> QED
  BY <1>1, <1>2, <1>3, <1>4

LEMMA LoadStep ==
  ASSUME GroupInv, Load
  PROVE  GroupInv'
<1>1. CASE Throw
  BY <1>1, ThrowStep DEF Load
<1>2. ASSUME NEW i \in todo, txRows[i] # Nothing, item' = i, todo' = todo \ {i},
             image' = [image EXCEPT ![i] =
               [now |-> txRows[i], was |-> txRows[i], modified |-> FALSE]],
             pc' = "loaded", pc = "next",
             UNCHANGED <<committed, transaction, request, done, reported, entry>>
      PROVE  GroupInv'
  <2> USE <1>2 DEF GroupInv, committed, transaction, request
  <2>0. i \in Items /\ i # Nothing /\ image[i] = Nothing /\ entry[i] = Nothing
    BY NothingAssumption DEF TypeOK, DocumentInv, RecordInv
  <2> DEFINE loaded == [now |-> txRows[i], was |-> txRows[i], modified |-> FALSE]
  <2>1. loaded \in Image
    BY <2>0 DEF TypeOK, Image
  <2>2. image'[i] = loaded /\ loaded # Nothing
    BY <2>0, <2>1, NothingAssumption DEF TypeOK
  <2> HIDE DEF loaded
  <2>3. TypeOK'
    BY <2>0, <2>1 DEF TypeOK, loaded
  <2>7. i \notin done \cup reported /\ Items \subseteq done \cup reported \cup todo
    BY NothingAssumption DEF PlaceInv
  <2>5. PlaceInv'
    BY <2>0, <2>7 DEF PlaceInv, Working
  <2>8. image'[item'].was = txRows'[item']
    BY <2>2 DEF loaded
  <2>6. OutsideTransaction' /\ KindInv' /\ InHand'
    BY <2>0, <2>2, <2>8 DEF OutsideTransaction, KindInv, InHand, Working
  <2>4. ASSUME NEW j \in Items PROVE DocumentInv(j)'
    <3>1. CASE j # i
      BY <3>1, SameDocumentKept DEF SameDocument, TypeOK
    <3>2. CASE j = i
      BY <3>2, <2>0, <2>2 DEF DocumentInv, RecordInv, PlaceInv
    <3> QED
      BY <3>1, <3>2
  <2> QED
    BY <2>3, <2>4, <2>5, <2>6
<1> QED
  BY <1>1, <1>2 DEF Load

-----------------------------------------------------------------------------
(* ExecuteGroupOperation.                                                  *)

LEMMA CheckBeginStateStep ==
  ASSUME GroupInv, CheckBeginState
  PROVE  GroupInv'
<1>1. CASE Refused /\ Rollback /\ UNCHANGED context
  BY <1>1, RefusedRollback DEF CheckBeginState, Working
<1>2. CASE ~(Refused /\ Rollback /\ UNCHANGED context)
  <2> USE DEF GroupInv, committed, transaction, request
  <2> DEFINE added == [row |-> [original |-> image[item].now.status, final |-> Unset],
                       added |-> TRUE]
  <2>1. /\ pc = "loaded" /\ kind = "Execute" /\ pc' = "running"
        /\ OriginalStatus = {} \/ image[item].now.status \in OriginalStatus
        /\ entry' = [entry EXCEPT ![item] = added]
        /\ UNCHANGED <<rows, executed, txRows, txExecuted, kind, begun, todo, item, done,
                       reported, image>>
    BY <1>2 DEF CheckBeginState
  <2>2. item \in Items /\ image[item] \in Image /\ txRows[item] # Nothing
    BY <2>1 DEF TypeOK, PlaceInv, InHand, Working
  <2>3. added \in Entry
    BY <2>2 DEF Image, Entry, Row, ExecutedRow
  <2>4. entry'[item] = added /\ added # Nothing /\ added.added
        /\ added.row.original = image[item].now.status
    BY <2>1, <2>2, <2>3, NothingAssumption DEF TypeOK
  <2> HIDE DEF added
  <2>5. TypeOK'
    BY <2>1, <2>2, <2>3 DEF TypeOK
  <2>6. PlaceInv' /\ OutsideTransaction' /\ KindInv'
    BY <2>1 DEF PlaceInv, OutsideTransaction, KindInv, Working
  <2>7. InHand'
    BY <2>1, <2>2, <2>4, NothingAssumption DEF InHand, Working
  <2>8. ASSUME NEW j \in Items PROVE DocumentInv(j)'
    <3>1. CASE j # item
      BY <2>1, <3>1, SameDocumentKept DEF SameDocument, TypeOK
    <3>2. CASE j = item
      <4>1. item \notin done \cup reported \cup todo
        BY DEF PlaceInv
      <4>2. entry[item] = Nothing \/ entry[item].added
        BY <2>1 DEF InHand
      <4> QED
        BY <3>2, <2>1, <2>2, <2>4, <4>1, <4>2, NothingAssumption DEF DocumentInv, RecordInv
    <3> QED
      BY <3>1, <3>2
  <2> QED
    BY <2>5, <2>6, <2>7, <2>8
<1> QED
  BY <1>1, <1>2

\* The document in hand is replaced in the context: by its handler or by the
\* values of the client.
LEMMA NewImage ==
  ASSUME GroupInv, pc \in Working, pc # "saved", NEW image0 \in Image,
         image' = [image EXCEPT ![item] = image0],
         image0.was = image[item].was,
         pc' \in {"running", "set"}, pc' = "running" => pc = "running",
         pc' = "set" => kind = "Update" /\ image0.now.edited,
         UNCHANGED <<committed, transaction, request, todo, item, done, reported, entry>>
  PROVE  GroupInv'
<1> USE DEF GroupInv, committed, transaction, request
<1>1. item \in Items /\ image0 # Nothing /\ image'[item] = image0
  BY NothingAssumption DEF TypeOK, PlaceInv, Working
<1>2. TypeOK'
  BY <1>1 DEF TypeOK
<1>3. PlaceInv' /\ OutsideTransaction' /\ KindInv'
  BY DEF PlaceInv, OutsideTransaction, KindInv, Working
<1>4. InHand'
  BY <1>1 DEF InHand, Working
<1>5. ASSUME NEW j \in Items PROVE DocumentInv(j)'
  <2>1. CASE j # item
    BY <2>1, SameDocumentKept DEF SameDocument, TypeOK, Working
  <2>2. CASE j = item
    BY <2>2, <1>1 DEF DocumentInv, RecordInv, PlaceInv
  <2> QED
    BY <2>1, <2>2
<1> QED
  BY <1>2, <1>3, <1>4, <1>5

LEMMA ImageInHand ==
  ASSUME GroupInv, pc \in Working
  PROVE  /\ item \in Items /\ image[item] \in Image
         /\ image[item].now \in Row /\ image[item].was \in Row
         /\ image[item].modified \in BOOLEAN
<1>1. item \in Items /\ image[item] \in Image
  BY DEF GroupInv, TypeOK, PlaceInv, InHand
<1> QED
  BY <1>1 DEF Image

LEMMA HandlerChangesStep ==
  ASSUME GroupInv, HandlerChanges
  PROVE  GroupInv'
<1>1. PICK status \in Statuses :
        image' = [image EXCEPT ![item].now = [status |-> status, edited |-> TRUE]]
  BY DEF HandlerChanges
<1> DEFINE row == [status |-> status, edited |-> TRUE]
           image0 == [image[item] EXCEPT !.now = row]
<1>2. pc = "running" /\ pc' = "running" /\ pc \in Working
  BY DEF HandlerChanges, Working
<1>3. image0 \in Image /\ image0.was = image[item].was
  BY <1>2, ImageInHand DEF Image, Row
<1>4. image' = [image EXCEPT ![item] = image0]
  BY <1>1, <1>2, ImageInHand DEF GroupInv, TypeOK
<1> HIDE DEF image0, row
<1> QED
  BY <1>2, <1>3, <1>4, NewImage DEF HandlerChanges

LEMMA SetValuesStep ==
  ASSUME GroupInv, SetValues
  PROVE  GroupInv'
<1>1. PICK status \in Statuses :
        image' = [image EXCEPT ![item] =
         [now |-> [status |-> status, edited |-> TRUE], was |-> @.was, modified |-> TRUE]]
  BY DEF SetValues
<1> DEFINE row == [status |-> status, edited |-> TRUE]
           image0 == [now |-> row, was |-> image[item].was, modified |-> TRUE]
<1>2. pc = "loaded" /\ pc' = "set" /\ pc \in Working /\ kind = "Update"
  BY DEF SetValues, Working
<1>3. row \in Row /\ row.edited
  BY DEF Row
<1>4. image0 \in Image /\ image0.was = image[item].was /\ image0.now.edited
  BY <1>2, <1>3, ImageInHand DEF Image
<1>5. image' = [image EXCEPT ![item] = image0]
  BY <1>1
<1> HIDE DEF image0, row
<1> QED
  BY <1>2, <1>4, <1>5, NewImage DEF SetValues

\* What a save leaves of the document in hand.
SavedInHand ==
  /\ item \in Items
  /\ image'[item] = [now |-> image[item].now, was |-> image[item].now, modified |-> FALSE]
  /\ image'[item] # Nothing
  /\ txRows'[item] = image[item].now /\ image[item].now \in Row /\ txRows'[item] # Nothing
  /\ pc \in {"running", "returned"} =>
       /\ entry'[item] = [row |-> entry[item].row, added |-> FALSE]
       /\ entry'[item] # Nothing
       /\ txExecuted'[item] = <<entry[item].row>>
       /\ Len(txExecuted'[item]) = 1

LEMMA SavedInHandFact ==
  ASSUME GroupInv, SaveChanges, pc \in Working
  PROVE  SavedInHand
<1> USE DEF GroupInv
<1>1. item \in Items /\ image[item] \in Image /\ image[item].now \in Row
  BY ImageInHand
<1>2. SavedImage(item) /\ SavedRecord(item) /\ image[item] # Nothing
  BY <1>1, SavedImageFact, SavedRecordFact DEF InHand
<1>3. image'[item] = [now |-> image[item].now, was |-> image[item].now, modified |-> FALSE]
  BY <1>2 DEF SavedImage
<1>4. image'[item] # Nothing
  <2>1. image'[item] \in Image
    BY <1>1, <1>3 DEF Image
  <2> QED
    BY <2>1, NothingAssumption
<1>5. txRows'[item] = image[item].now /\ txRows'[item] # Nothing
  <2>1. ~Pending(item) => image[item].now = image[item].was
    BY <1>2 DEF Pending
  <2> QED
    BY <1>1, <1>2, <2>1, NothingAssumption DEF SavedImage, InHand
<1>6. ASSUME pc \in {"running", "returned"}
      PROVE  /\ entry'[item] = [row |-> entry[item].row, added |-> FALSE]
             /\ entry'[item] # Nothing
             /\ txExecuted'[item] = <<entry[item].row>>
             /\ Len(txExecuted'[item]) = 1
  <2>1. entry[item] # Nothing /\ (entry[item].added \/ Len(txExecuted[item]) = 1)
    BY <1>6 DEF InHand
  <2>2. entry[item] \in Entry /\ entry[item].row \in ExecutedRow
    BY <1>1, <2>1 DEF TypeOK, Entry
  <2>3. entry'[item] = [row |-> entry[item].row, added |-> FALSE]
    BY <1>2, <2>1 DEF SavedRecord
  <2>4. entry'[item] \in Entry
    BY <2>2, <2>3 DEF Entry
  <2>5. Len(<<>>) # 1 /\ Len(<<entry[item].row>>) = 1
    OBVIOUS
  <2>6. entry[item].added \/ txExecuted[item] # <<>>
    BY <2>1, <2>5, Zenon
  <2>7. txExecuted'[item] = <<entry[item].row>>
    BY <1>2, <2>1, <2>6 DEF SavedRecord
  <2> QED
    BY <2>3, <2>4, <2>5, <2>7, NothingAssumption, Zenon
<1> QED
  BY <1>1, <1>3, <1>4, <1>5, <1>6 DEF SavedInHand

LEMMA HandlerSavesStep ==
  ASSUME GroupInv, HandlerSaves
  PROVE  GroupInv'
<1> USE DEF GroupInv, committed, request
<1>1. /\ pc = "running" /\ SaveChanges
      /\ UNCHANGED <<rows, executed, kind, begun, todo, item, pc, done, reported>>
  BY DEF HandlerSaves
<1>2. TypeOK'
  BY <1>1, SavedType DEF TypeOK
<1>3. PlaceInv' /\ OutsideTransaction' /\ KindInv'
  BY <1>1 DEF PlaceInv, OutsideTransaction, KindInv
<1>4. InHand'
  <2>1. SavedInHand
    BY <1>1, SavedInHandFact DEF Working
  <2>2. Len(txExecuted'[item]) = 1
    BY <1>1, <2>1 DEF SavedInHand
  <2> QED
    BY <1>1, <2>1, <2>2 DEF SavedInHand, InHand, Working
<1>5. ASSUME NEW j \in Items PROVE DocumentInv(j)'
  BY <1>1, SavedDocument
<1> QED
  BY <1>2, <1>3, <1>4, <1>5

\* The status CheckFinalStatus leaves is a final one of the operation.
LEMMA EndStatusFact ==
  ASSUME NEW status \in Statuses, MayEndIn(status)
  PROVE  /\ EndStatus(status) \in Statuses
         /\ FinalStatus = {} \/ EndStatus(status) \in FinalStatus
<1>2. CASE Cardinality(FinalStatus) = 1
  <2>1. FinalStatus # {}
    BY <1>2, FS_EmptySet
  <2>2. (CHOOSE s \in FinalStatus : TRUE) \in FinalStatus
    BY <2>1
  <2> QED
    BY <1>2, <2>2, GroupAssumption DEF EndStatus
<1>3. CASE Cardinality(FinalStatus) # 1
  BY <1>3 DEF EndStatus, MayEndIn
<1> QED
  BY <1>2, <1>3

LEMMA HandlerReturnsStep ==
  ASSUME GroupInv, HandlerReturns
  PROVE  GroupInv'
<1>1. CASE Refused /\ Rollback /\ UNCHANGED context
  BY <1>1, RefusedRollback DEF HandlerReturns, Working, GroupInv, KindInv
<1>2. CASE ~(Refused /\ Rollback /\ UNCHANGED context)
  <2> USE DEF GroupInv, committed, transaction, request
  <2> DEFINE status == image[item].now.status
             end == EndStatus(status)
             image0 == [image[item] EXCEPT !.now.status = end]
             entry0 == [entry[item] EXCEPT !.row.final = end]
  <2>1. /\ pc = "running" /\ pc' = "returned" /\ MayEndIn(status)
        /\ image' = [image EXCEPT ![item].now.status = end]
        /\ entry' = [entry EXCEPT ![item].row.final = end]
        /\ UNCHANGED <<rows, executed, txRows, txExecuted, kind, begun, todo, item, done,
                       reported>>
    BY <1>2 DEF HandlerReturns
  <2>2. pc \in Working /\ kind = "Execute" /\ item \in Items /\ image[item] \in Image
        /\ image[item].now \in Row
    BY <2>1, ImageInHand DEF Working, KindInv
  <2>3. entry[item] \in Entry /\ entry[item].row \in ExecutedRow
    BY <2>1, <2>2 DEF InHand, TypeOK, Entry
  <2>4. end \in Statuses /\ (FinalStatus = {} \/ end \in FinalStatus)
    BY <2>1, <2>2, GroupAssumption, EndStatusFact DEF Row
  <2> HIDE DEF end, status
  <2>5. image' = [image EXCEPT ![item] = image0] /\ entry' = [entry EXCEPT ![item] = entry0]
    BY <2>1, <2>2, <2>3 DEF TypeOK
  <2>6. image0 \in Image /\ image0.now.status = end /\ image0.was = image[item].was
    BY <2>2, <2>4 DEF Image, Row
  <2>7. /\ entry0 \in Entry /\ entry0.row.final = end /\ entry0.added = entry[item].added
        /\ entry0.row.original = entry[item].row.original
    BY <2>3, <2>4 DEF Entry, ExecutedRow
  <2> HIDE DEF image0, entry0
  <2>8. image'[item] = image0 /\ image0 # Nothing /\ entry'[item] = entry0 /\ entry0 # Nothing
    BY <2>2, <2>5, <2>6, <2>7, NothingAssumption DEF TypeOK
  <2>9. TypeOK'
    BY <2>1, <2>2, <2>5, <2>6, <2>7 DEF TypeOK
  <2>10. PlaceInv' /\ OutsideTransaction' /\ KindInv'
    BY <2>1, <2>2 DEF PlaceInv, OutsideTransaction, KindInv, Working
  <2>11. InHand'
    BY <2>1, <2>2, <2>4, <2>6, <2>7, <2>8 DEF InHand, Working
  <2>12. ASSUME NEW j \in Items PROVE DocumentInv(j)'
    <3>1. CASE j # item
      BY <2>1, <2>5, <3>1, SameDocumentKept DEF SameDocument, TypeOK
    <3>2. CASE j = item
      <4>1. item \notin done \cup reported \cup todo /\ entry[item] # Nothing
        BY <2>1 DEF PlaceInv, InHand
      <4> QED
        BY <3>2, <2>1, <2>2, <2>7, <2>8, <4>1 DEF DocumentInv, RecordInv
    <3> QED
      BY <3>1, <3>2
  <2> QED
    BY <2>9, <2>10, <2>11, <2>12
<1> QED
  BY <1>1, <1>2

LEMMA CompleteItemStep ==
  ASSUME GroupInv, CompleteItem
  PROVE  GroupInv'
<1> USE DEF GroupInv, request
<1>1. /\ pc = "returned" /\ pc \in Working /\ pc' = "next" /\ kind = "Execute"
      /\ SaveChanges /\ rows' = txRows' /\ executed' = txExecuted'
      /\ done' = done \cup {item} /\ item' = Nothing
      /\ UNCHANGED <<kind, begun, todo, reported>>
  BY DEF CompleteItem, Commit, KindInv, Working
<1>2. SavedInHand
  BY <1>1, SavedInHandFact
<1>3. TypeOK'
  BY <1>1, <1>2, SavedType DEF TypeOK, SavedInHand
<1>4. PlaceInv'
  BY <1>1, NothingAssumption DEF PlaceInv, TypeOK, Working
<1>5. OutsideTransaction' /\ KindInv' /\ InHand'
  BY <1>1 DEF OutsideTransaction, KindInv, InHand, Working
<1>6. ASSUME NEW j \in Items PROVE DocumentInv(j)'
  <2>1. CASE j # item
    BY <1>1, <2>1, SavedDocument
  <2>2. CASE j = item
    <3>1. RecordInv(j)'
      <4>1. \A n : n = 1 => n <= 1
        OBVIOUS
      <4>2. Len(txExecuted'[item]) <= 1
        BY <1>1, <1>2, <4>1, Zenon DEF SavedInHand
      <4> QED
        BY <1>1, <1>2, <2>2, <4>2 DEF SavedInHand, RecordInv
    <3>2. Settled(j)'
      BY <1>1, <1>2, <2>2 DEF SavedInHand, Settled, Pending, InHand
    <3>3. item \notin todo
      BY DEF PlaceInv
    <3> QED
      BY <1>1, <2>2, <3>1, <3>2, <3>3 DEF DocumentInv
  <2> QED
    BY <2>1, <2>2
<1> QED
  BY <1>3, <1>4, <1>5, <1>6

-----------------------------------------------------------------------------
(* UpdateEntries.                                                          *)

LEMMA SaveEntityStep ==
  ASSUME GroupInv, SaveEntity
  PROVE  GroupInv'
<1> USE DEF GroupInv, committed, request
<1>1. /\ pc = "set" /\ pc' = "saved" /\ pc \in Working /\ SaveChanges
      /\ UNCHANGED <<rows, executed, kind, begun, todo, item, done, reported>>
  BY DEF SaveEntity, Working
<1>2. SavedInHand /\ kind = "Update"
  BY <1>1, SavedInHandFact DEF KindInv
<1>3. TypeOK'
  BY <1>1, SavedType DEF TypeOK
<1>4. PlaceInv' /\ OutsideTransaction' /\ KindInv'
  BY <1>1, <1>2 DEF PlaceInv, OutsideTransaction, KindInv, Working
<1>5. InHand'
  BY <1>1, <1>2 DEF SavedInHand, InHand, Pending, Working
<1>6. ASSUME NEW j \in Items PROVE DocumentInv(j)'
  BY <1>1, SavedDocument
<1> QED
  BY <1>3, <1>4, <1>5, <1>6

LEMMA AcceptedStep ==
  ASSUME GroupInv, Accepted
  PROVE  GroupInv'
<1> USE DEF GroupInv, committed, transaction, request, context
<1>1. /\ pc = "saved" /\ pc' = "next" /\ pc \in Working /\ kind = "Update"
      /\ done' = done \cup {item} /\ item' = Nothing
      /\ UNCHANGED <<rows, executed, txRows, txExecuted, kind, begun, todo, reported,
                     image, entry>>
  BY DEF Accepted, KindInv, Working
<1>2. item \in Items
  BY <1>1, ImageInHand
<1>3. TypeOK'
  BY <1>1, <1>2 DEF TypeOK
<1>4. PlaceInv'
  BY <1>1, NothingAssumption DEF PlaceInv, TypeOK, Working
<1>5. OutsideTransaction' /\ KindInv' /\ InHand'
  BY <1>1 DEF OutsideTransaction, KindInv, InHand, Working
<1>6. ASSUME NEW j \in Items PROVE DocumentInv(j)'
  <2>1. CASE j # item
    BY <1>1, <2>1, SameDocumentKept DEF SameDocument
  <2>2. CASE j = item
    <3>1. Kept(j)'
      <4>1. image[item].was = image[item].now
        BY <1>1 DEF InHand, Pending, Working
      <4> QED
        BY <1>1, <2>2, <4>1 DEF Kept, InHand, Pending, Working
    <3> QED
      BY <1>1, <2>2, <3>1 DEF DocumentInv, RecordInv
  <2> QED
    BY <2>1, <2>2
<1> QED
  BY <1>3, <1>4, <1>5, <1>6

-----------------------------------------------------------------------------
(* GroupInv is inductive.                                                  *)

LEMMA AnswerStep ==
  ASSUME GroupInv, Answer
  PROVE  GroupInv'
<1> USE DEF GroupInv, committed, transaction, request, context
<1>1. /\ pc = "next" /\ pc' = "answered" /\ todo = {}
      /\ IF kind = "Update" THEN rows' = txRows /\ executed' = txExecuted
                            ELSE UNCHANGED <<rows, executed>>
      /\ UNCHANGED <<txRows, txExecuted, kind, begun, todo, item, done, reported, image, entry>>
  BY DEF Answer, CompleteAll, Commit
<1>2. TypeOK'
  BY <1>1 DEF TypeOK
<1>3. PlaceInv' /\ OutsideTransaction' /\ KindInv' /\ InHand'
  BY <1>1 DEF PlaceInv, OutsideTransaction, KindInv, InHand, Working, TypeOK
<1>4. ASSUME NEW j \in Items PROVE DocumentInv(j)'
  BY <1>1 DEF DocumentInv, RecordInv, Settled, Kept, Pending
<1> QED
  BY <1>2, <1>3, <1>4

LEMMA GroupInvInit == Init => GroupInv
<1> SUFFICES ASSUME Init PROVE GroupInv
  OBVIOUS
<1> USE DEF Init
<1>1. TypeOK
  <2>1. rows \in [Items -> Row \cup {Nothing}]
    BY DEF Row
  <2>2. executed \in [Items -> Seq(ExecutedRow)]
    BY EmptySeq
  <2> QED
    BY <2>1, <2>2, GroupAssumption DEF TypeOK
<1>2. PlaceInv /\ OutsideTransaction /\ KindInv /\ InHand
  BY NothingAssumption DEF PlaceInv, OutsideTransaction, KindInv, InHand, Working
<1>3. ASSUME NEW i \in Items PROVE DocumentInv(i)
  BY EmptySeq DEF DocumentInv, RecordInv
<1> QED
  BY <1>1, <1>2, <1>3 DEF GroupInv

LEMMA GroupInvStep == GroupInv /\ [Next]_vars => GroupInv'
<1> SUFFICES ASSUME GroupInv, [Next]_vars PROVE GroupInv'
  OBVIOUS
<1>1. CASE UNCHANGED vars
  BY <1>1 DEF vars, committed, transaction, request, context, GroupInv, TypeOK, PlaceInv,
     OutsideTransaction, KindInv, InHand, DocumentInv, RecordInv, Settled, Kept, Pending
<1>2. CASE Locked \/ HandlerFails \/ UpdateFails
  BY <1>2, ThrowStep DEF Locked, HandlerFails, UpdateFails
<1>3. CASE HandlerRefuses
  BY <1>3, RefusedRollback DEF HandlerRefuses, Working, GroupInv, KindInv
<1>4. CASE RefusedBefore \/ RefusedAfter
  BY <1>4, RefusedInside DEF RefusedBefore, RefusedAfter, GroupInv, KindInv
<1> QED
  BY <1>1, <1>2, <1>3, <1>4, LoadStep, CheckBeginStateStep, HandlerChangesStep,
     HandlerSavesStep, HandlerReturnsStep, CompleteItemStep, SetValuesStep, SaveEntityStep,
     AcceptedStep, AnswerStep DEF Next

\* The documents of a request and its shared context stay in step: for any number
\* of documents, in any order, with any of them refused or failing at any point.
THEOREM GroupInvariant == Spec => []GroupInv
  BY GroupInvInit, GroupInvStep, PTL DEF Spec

\* A document whose execution completed keeps its status and its one record,
\* whatever becomes of the documents after it in the same context.
THEOREM CompletedTheorem == Spec => []CompletedAsRecorded
<1>1. GroupInv => CompletedAsRecorded
  <2> SUFFICES ASSUME GroupInv, NEW i \in done, kind = "Execute"
               PROVE  /\ Len(executed[i]) = 1
                      /\ OriginalStatus = {} \/ executed[i][1].original \in OriginalStatus
                      /\ executed[i][1].final = rows[i].status
                      /\ FinalStatus = {} \/ rows[i].status \in FinalStatus
    BY DEF CompletedAsRecorded
  <2>1. i \in Items /\ Settled(i)
    BY DEF GroupInv, TypeOK, DocumentInv
  <2>2. executed[i] = <<entry[i].row>>
    BY <2>1 DEF Settled
  <2>3. Len(<<entry[i].row>>) = 1 /\ <<entry[i].row>>[1] = entry[i].row
    OBVIOUS
  <2> QED
    BY <2>1, <2>2, <2>3, Zenon DEF Settled
<1> QED
  BY <1>1, GroupInvariant, PTL

\* No execution is recorded twice, however often the shared context is saved and
\* rolled back with the record in it.
THEOREM RecordedOnceTheorem == Spec => []NeverRecordedTwice
<1>1. GroupInv => NeverRecordedTwice
  BY DEF GroupInv, DocumentInv, RecordInv, NeverRecordedTwice
<1> QED
  BY <1>1, GroupInvariant, PTL

\* A request that ends of itself has carried out or named every document, and the
\* accepted values of an update are committed.
THEOREM AnsweredTheorem == Spec => []EveryDocumentAnswered
<1>1. GroupInv => EveryDocumentAnswered
  <2> SUFFICES ASSUME GroupInv, pc = "answered"
               PROVE  /\ done \cup reported = Items /\ done \cap reported = {}
                      /\ kind = "Update" => \A i \in done : rows[i].edited
    BY DEF EveryDocumentAnswered
  <2>1. done \cup reported = Items /\ done \cap reported = {}
    BY NothingAssumption DEF GroupInv, TypeOK, PlaceInv
  <2>2. ASSUME kind = "Update", NEW i \in done PROVE rows[i].edited
    BY <2>2 DEF GroupInv, TypeOK, OutsideTransaction, DocumentInv, Kept
  <2> QED
    BY <2>1, <2>2
<1> QED
  BY <1>1, GroupInvariant, PTL

\* Nothing but the completion of a document, or of the request, changes the
\* database.
THEOREM CompletionTheorem == Spec => OnlyCompletionChanges
<1>1. GroupInv /\ [Next]_vars =>
        [committed' # committed =>
           IF kind = "Execute" THEN done' # done ELSE pc' = "answered"]_vars
  <2> SUFFICES ASSUME GroupInv, Next, committed' # committed
               PROVE  IF kind = "Execute" THEN done' # done ELSE pc' = "answered"
    BY DEF vars, committed
  <2>1. CompleteItem \/ Answer
    BY DEF Next, Load, Throw, Rollback, Locked, CheckBeginState, HandlerChanges,
       HandlerSaves, HandlerRefuses, HandlerFails, HandlerReturns, SetValues,
       RefusedBefore, SaveEntity, RefusedAfter, Accepted, UpdateFails
  <2>2. CASE CompleteItem
    BY <2>2 DEF CompleteItem, GroupInv, KindInv, PlaceInv
  <2>3. CASE Answer
    BY <2>3 DEF Answer, GroupInv, TypeOK
  <2> QED
    BY <2>1, <2>2, <2>3
<1> QED
  BY <1>1, GroupInvariant, PTL DEF Spec, OnlyCompletionChanges
=============================================================================
