------------------------ MODULE OutboxDeliveryProofs ------------------------
(***************************************************************************)
(* What OutboxDelivery promises for any number of events, any order of     *)
(* their stamps and any limits: one notification per published event, and  *)
(* an ordered, duplicate-free stream through any number of reconnects.     *)
(***************************************************************************)
EXTENDS OutboxDelivery, TLAPS

\* What is on its way to the client has been published.
OnTheWayIsPublished ==
  /\ \A e \in page : event[e] = "published"
  /\ \A i \in DOMAIN wire : event[wire[i]] = "published"

DeliveryInv == TypeOK /\ NotifiedOnce /\ SeenInOrder /\ OnTheWayIsPublished

(* deliver_outbox selects only rows that are stored and not yet published. *)
LEMMA BatchIsStored == \A e \in Batch : e \in Ids /\ event[e] = "stored"
BY DEF Batch, FirstBy

(* list_status_events selects only published rows. *)
LEMMA PageIsPublished == \A e \in After : e \in Ids /\ event[e] = "published"
BY DEF After, FirstBy

(* A published event stays published: no operation takes published_at away. *)
LEMMA PublishedStays ==
  ASSUME Next, event \in [Ids -> {"unused", "open", "gone", "stored", "published"}]
  PROVE  \A e \in Ids : event[e] = "published" => event'[e] = "published"
<1>1. CASE \E e \in Ids : Insert(e)
  BY <1>1 DEF Insert
<1>2. CASE \E e \in Ids, outcome \in {"stored", "gone"} : EndTransaction(e, outcome)
  BY <1>2 DEF EndTransaction
<1>3. CASE DeliverOutbox
  BY <1>3 DEF DeliverOutbox
<1>4. CASE UNCHANGED event
  BY <1>4
<1> QED
  BY <1>1, <1>2, <1>3, <1>4 
  DEF Next, MarkRead, Connect, Poll, Emit, Receive, Disconnect, EndRun, StartStatusStream

(* Every state keeps its types, whatever step is taken. *)
LEMMA TypeStep == TypeOK /\ [Next]_outboxVars => TypeOK'
<1> SUFFICES ASSUME TypeOK, [Next]_outboxVars PROVE TypeOK'
  OBVIOUS
<1> USE OutboxAssumption
<1>0. Ids \subseteq Nat /\ \A e \in Ids : e \in 0..LastId
  BY DEF Ids
<1>1. ASSUME NEW e \in Ids, Insert(e) PROVE TypeOK'
  BY <1>1 DEF TypeOK, Insert, streamVars
<1>2. ASSUME NEW e \in Ids, NEW outcome \in {"stored", "gone"}, EndTransaction(e, outcome)
      PROVE  TypeOK'
  BY <1>2 DEF TypeOK, EndTransaction, streamVars
<1>3. ASSUME NEW e \in Ids, MarkRead(e) PROVE TypeOK'
  BY <1>3 DEF TypeOK, MarkRead, streamVars
<1>4. CASE DeliverOutbox
  <2>1. event' \in [Ids -> {"unused", "open", "gone", "stored", "published"}]
    BY <1>4 DEF TypeOK, DeliverOutbox
  <2>2. notified' \in [Ids -> Nat]
    BY <1>4 DEF TypeOK, DeliverOutbox
  <2> QED
    BY <1>4, <2>1, <2>2 DEF TypeOK, DeliverOutbox, streamVars
<1>5. CASE Connect
  BY <1>5 DEF TypeOK, Connect
<1>6. CASE Poll
  BY <1>6, PageIsPublished DEF TypeOK, Poll
<1>7. CASE Emit
  BY <1>0, <1>7 DEF TypeOK, Emit
<1>8. CASE Receive
  <2>1. Head(wire) \in Ids /\ wire' \in Seq(Ids)
    BY <1>8 DEF TypeOK, Receive
  <2>2. last' \in 0..LastId
    BY <1>0, <1>8, <2>1 DEF TypeOK, Receive
  <2>3. seen' \in Seq(Ids)
    <3>1. seen \in Seq(Ids) /\ Append(seen, Head(wire)) \in Seq(Ids)
      BY <2>1 DEF TypeOK
    <3>2. seen' = seen \/ seen' = Append(seen, Head(wire))
      BY <1>8 DEF Receive
    <3> QED
      BY <3>1, <3>2
  <2> QED
    BY <1>8, <2>1, <2>2, <2>3 DEF TypeOK, Receive
<1>9. CASE Disconnect
  BY <1>9 DEF TypeOK, Disconnect
<1>10. CASE EndRun
  BY <1>10 DEF TypeOK, EndRun
<1>11. CASE StartStatusStream
  BY <1>11 DEF TypeOK, StartStatusStream
<1>12. CASE UNCHANGED outboxVars
  BY <1>12 DEF TypeOK, outboxVars
<1> QED
  BY <1>1, <1>2, <1>3, <1>4, <1>5, <1>6, <1>7, <1>8, <1>9, <1>10, <1>11, <1>12 DEF Next

(* One delivery makes the one notification of each event it publishes, and  *)
(* no other step makes or unmakes one.                                      *)
LEMMA NotifyStep == TypeOK /\ NotifiedOnce /\ [Next]_outboxVars => NotifiedOnce'
<1> SUFFICES ASSUME TypeOK, NotifiedOnce, [Next]_outboxVars PROVE NotifiedOnce'
  OBVIOUS
<1>1. ASSUME NEW e \in Ids, Insert(e) PROVE NotifiedOnce'
  BY <1>1 DEF TypeOK, NotifiedOnce, Insert
<1>2. ASSUME NEW e \in Ids, NEW outcome \in {"stored", "gone"}, EndTransaction(e, outcome)
      PROVE  NotifiedOnce'
  BY <1>2 DEF TypeOK, NotifiedOnce, EndTransaction
<1>3. CASE DeliverOutbox
  BY <1>3, BatchIsStored DEF TypeOK, NotifiedOnce, DeliverOutbox
<1>4. CASE UNCHANGED <<event, notified>>
  BY <1>4 DEF NotifiedOnce
<1> QED
  BY <1>1, <1>2, <1>3, <1>4
  DEF Next, outboxVars, MarkRead, Connect, Poll, Emit, Receive, Disconnect, EndRun,
      StartStatusStream

(* What is fetched and sent was published when it was fetched, and stays so. *)
LEMMA OnTheWayStep ==
  TypeOK /\ OnTheWayIsPublished /\ [Next]_outboxVars => OnTheWayIsPublished'
<1> SUFFICES ASSUME TypeOK, OnTheWayIsPublished, [Next]_outboxVars
             PROVE  OnTheWayIsPublished'
  OBVIOUS
<1>0. Next => \A e \in Ids : event[e] = "published" => event'[e] = "published"
  BY PublishedStays DEF TypeOK
<1>w. \A i \in DOMAIN wire : wire[i] \in Ids
  BY DEF TypeOK
<1>1. CASE Next /\ UNCHANGED <<page, wire>>
  BY <1>0, <1>w, <1>1 DEF TypeOK, OnTheWayIsPublished
<1>2. CASE Connect
  BY <1>2 DEF Connect, OnTheWayIsPublished
<1>3. CASE Poll
  BY <1>3, PageIsPublished DEF Poll, OnTheWayIsPublished
<1>4. CASE Emit
  <2> PICK e \in page : page' = page \ {e} /\ wire' = Append(wire, e)
    BY <1>4 DEF Emit
  <2>1. \A i \in DOMAIN wire' : wire'[i] = e \/ (i \in DOMAIN wire /\ wire'[i] = wire[i])
    <3>1. wire \in Seq(Ids) /\ e \in Ids
      BY DEF TypeOK
    <3> QED
      BY <3>1, SMTT(30)
  <2> QED
    BY <1>4, <2>1, SMTT(30) DEF Emit, OnTheWayIsPublished
<1>5. CASE Receive
  <2>1. \A i \in DOMAIN wire' : i + 1 \in DOMAIN wire /\ wire'[i] = wire[i + 1]
    BY <1>5 DEF Receive, TypeOK
  <2> QED
    BY <1>5, <2>1 DEF Receive, OnTheWayIsPublished
<1>6. CASE Disconnect
  BY <1>6 DEF Disconnect, OnTheWayIsPublished
<1>7. CASE EndRun
  BY <1>7 DEF EndRun, OnTheWayIsPublished
<1>8. CASE UNCHANGED outboxVars
  BY <1>8 DEF outboxVars, OnTheWayIsPublished
<1> QED
  BY <1>1, <1>2, <1>3, <1>4, <1>5, <1>6, <1>7, <1>8
  DEF Next, Insert, EndTransaction, MarkRead, DeliverOutbox, streamVars, StartStatusStream

(* The client appends to what it has seen only what lies after its          *)
(* lastEventID, which bounds everything it has seen.                        *)
LEMMA SeenStep ==
  DeliveryInv /\ [Next]_outboxVars => SeenInOrder'
<1> SUFFICES ASSUME DeliveryInv, [Next]_outboxVars PROVE SeenInOrder'
  OBVIOUS
<1>0. Next => \A e \in Ids : event[e] = "published" => event'[e] = "published"
  BY PublishedStays DEF DeliveryInv, TypeOK
<1>w. \A i \in DOMAIN seen : seen[i] \in Ids
  BY DEF DeliveryInv, TypeOK
<1>1. CASE Next /\ UNCHANGED <<last, seen>>
  BY <1>0, <1>w, <1>1 DEF DeliveryInv, SeenInOrder
<1>2. CASE Receive /\ Head(wire) > last
  <2>1. /\ wire # <<>> /\ wire \in Seq(Ids) /\ seen \in Seq(Ids) /\ last \in 0..LastId
        /\ last' = Head(wire) /\ seen' = Append(seen, Head(wire)) /\ event' = event
    BY <1>2 DEF Receive, DeliveryInv, TypeOK
  <2>2. 1 \in DOMAIN wire /\ Head(wire) = wire[1] /\ Head(wire) \in Ids
    BY <2>1
  <2>3. event[Head(wire)] = "published"
    BY <2>2 DEF DeliveryInv, OnTheWayIsPublished
  <2>4. DOMAIN seen' = 1..(Len(seen) + 1) /\ DOMAIN seen = 1..Len(seen) /\ Len(seen) \in Nat
    BY <2>1
  <2>5. \A i \in DOMAIN seen' : seen'[i] = IF i \in DOMAIN seen THEN seen[i] ELSE Head(wire)
    BY <2>1, <2>4
  <2>6. \A i \in DOMAIN seen : seen[i] \in Int /\ seen[i] <= last /\ event[seen[i]] = "published"
    BY <1>w DEF DeliveryInv, SeenInOrder, Ids
  <2>7. last \in Int /\ Head(wire) \in Int /\ Head(wire) > last
    BY <1>2, <2>1, <2>2, OutboxAssumption DEF Ids
  <2>8. \A i, j \in DOMAIN seen' : i < j => seen'[i] < seen'[j]
    <3> SUFFICES ASSUME NEW i \in DOMAIN seen', NEW j \in DOMAIN seen', i < j
                 PROVE  seen'[i] < seen'[j]
      OBVIOUS
    <3>1. i \in DOMAIN seen /\ seen'[i] = seen[i]
      BY <2>4, <2>5
    <3>2. CASE j \in DOMAIN seen
      BY <2>5, <3>1, <3>2 DEF DeliveryInv, SeenInOrder
    <3>3. CASE j \notin DOMAIN seen
      BY <2>5, <2>6, <2>7, <3>1, <3>3
    <3> QED
      BY <3>2, <3>3
  <2>9. \A i \in DOMAIN seen' : event'[seen'[i]] = "published" /\ seen'[i] <= last'
    BY <2>1, <2>3, <2>5, <2>6, <2>7
  <2> QED
    BY <2>8, <2>9 DEF SeenInOrder
<1>3. CASE Receive /\ ~(Head(wire) > last)
  BY <1>3 DEF Receive, DeliveryInv, SeenInOrder
<1>4. CASE StartStatusStream
  BY <1>4 DEF StartStatusStream, SeenInOrder
<1>5. CASE UNCHANGED outboxVars
  BY <1>5 DEF outboxVars, DeliveryInv, SeenInOrder
<1> QED
  BY <1>1, <1>2, <1>3, <1>4, <1>5
  DEF Next, Insert, EndTransaction, MarkRead, DeliverOutbox, streamVars, Connect, Poll,
      Emit, Disconnect, EndRun

(* DeliveryInv is inductive. *)
LEMMA DeliveryInvariant == Spec => []DeliveryInv
<1>1. Init => DeliveryInv
  <2> SUFFICES ASSUME Init PROVE DeliveryInv
    OBVIOUS
  <2>1. TypeOK
    BY OutboxAssumption DEF Init, TypeOK
  <2>2. NotifiedOnce /\ SeenInOrder /\ OnTheWayIsPublished
    BY DEF Init, NotifiedOnce, SeenInOrder, OnTheWayIsPublished
  <2> QED
    BY <2>1, <2>2 DEF DeliveryInv
<1>2. DeliveryInv /\ [Next]_outboxVars => DeliveryInv'
  BY TypeStep, NotifyStep, OnTheWayStep, SeenStep DEF DeliveryInv
<1> QED
  BY <1>1, <1>2, PTL DEF Spec

(* deliver_outbox consumes each outbox row exactly once: whatever the order *)
(* of commits, stamps and deliveries, a published event has made exactly    *)
(* the one notification its type maps to.                                   *)
THEOREM DeliveredExactlyOnce == Spec => []NotifiedOnce
<1>1. DeliveryInv => NotifiedOnce
  BY DEF DeliveryInv
<1> QED
  BY <1>1, DeliveryInvariant, PTL

(* The status stream as the client sees it: strictly increasing ids, no     *)
(* duplicates, published events only, through any number of reconnects of a *)
(* run.                                                                     *)
THEOREM StreamIsOrdered == Spec => []SeenInOrder
<1>1. DeliveryInv => SeenInOrder
  BY DEF DeliveryInv
<1> QED
  BY <1>1, DeliveryInvariant, PTL

(* Every variable keeps its type; the cursors stay within the drawn ids.    *)
THEOREM DeliveryTypeCorrect == Spec => []TypeOK
<1>1. DeliveryInv => TypeOK
  BY DEF DeliveryInv
<1> QED
  BY <1>1, DeliveryInvariant, PTL
=============================================================================
