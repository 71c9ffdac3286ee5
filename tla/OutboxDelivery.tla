--------------------------- MODULE OutboxDelivery ---------------------------
(***************************************************************************)
(* From a committed outbox event to the notification inbox and to the      *)
(* macOS client: deliver_outbox, list_status_events and mark_read of       *)
(* notifications/repository.py, the polling loop of notifications/sse.py   *)
(* and the run loop of StatusStreamClient.swift (one owner, one client).   *)
(*                                                                         *)
(* An event's id is drawn when its row is flushed, inside a transaction    *)
(* that commits or rolls back later, in any order with the others; its     *)
(* occurred_at was stamped earlier still, by the clock of its producer, so *)
(* the order of the stamps is not the order of the ids.                    *)
(***************************************************************************)
EXTENDS Integers, Sequences, FiniteSets

CONSTANTS
  LastId,       \* bound: how many ids the sequence of outbox_events hands out
  OccurredAt,   \* the occurred_at of the event with an id
  Notifiable,   \* the ids whose events the notification policy maps
  BatchLimit,   \* limit of deliver_outbox
  PageLimit     \* limit of list_status_events

Ids == 1..LastId

ASSUME OutboxAssumption ==
  /\ LastId \in Nat
  /\ OccurredAt \in [Ids -> Nat]
  /\ Notifiable \subseteq Ids
  /\ BatchLimit \in Nat \ {0} /\ PageLimit \in Nat \ {0}

VARIABLES
  event,      \* per id: not drawn, in an open transaction, rolled back, stored, published
  notified,   \* per id: the number of notifications made from the event
  read,       \* ids whose notification carries a read_at
  stream,     \* the client's request: closed or open; ended when its run has returned
  cursor,     \* the stream's cursor
  page,       \* ids fetched by the stream's last query and not yet emitted
  wire,       \* ids emitted and not yet parsed by the client
  last,       \* the lastEventID of the client's present run (0: nil)
  seen        \* ids handed to onEvent by the present run, in order

outboxVars == <<event, notified, read, stream, cursor, page, wire, last, seen>>
streamVars == <<stream, cursor, page, wire, last, seen>>

TypeOK ==
  /\ event \in [Ids -> {"unused", "open", "gone", "stored", "published"}]
  /\ notified \in [Ids -> Nat]
  /\ read \subseteq Ids
  /\ stream \in {"closed", "open", "ended"}
  /\ cursor \in 0..LastId
  /\ page \subseteq Ids
  /\ wire \in Seq(Ids)
  /\ last \in 0..LastId
  /\ seen \in Seq(Ids)

Init ==
  /\ event = [e \in Ids |-> "unused"]
  /\ notified = [e \in Ids |-> 0]
  /\ read = {}
  /\ stream = "closed" /\ cursor = 0 /\ page = {} /\ wire = <<>>
  /\ last = 0 /\ seen = <<>>

-----------------------------------------------------------------------------
(* Producers.                                                               *)

\* flush draws the next id.
Insert(e) ==
  /\ event[e] = "unused"
  /\ \A d \in Ids : d < e => event[d] # "unused"
  /\ event' = [event EXCEPT ![e] = "open"]
  /\ UNCHANGED <<notified, read, streamVars>>

\* The producer's transaction ends; a rolled-back id is never drawn again.
EndTransaction(e, outcome) ==
  /\ event[e] = "open"
  /\ event' = [event EXCEPT ![e] = outcome]
  /\ UNCHANGED <<notified, read, streamVars>>

-----------------------------------------------------------------------------
(* The housekeeping worker.                                                 *)

Before(d, e) == \/ OccurredAt[d] < OccurredAt[e]
                \/ OccurredAt[d] = OccurredAt[e] /\ d < e

FirstBy(S, limit, Precedes(_, _)) ==
  {e \in S : Cardinality({d \in S : Precedes(d, e)}) < limit}

BatchWithPublished ==
  FirstBy({e \in Ids : event[e] \in {"stored", "published"}}, BatchLimit, Before)

BatchFilteredAfterLimit == {e \in BatchWithPublished : event[e] = "stored"}

\* The rows deliver_outbox selects.
Batch == FirstBy({e \in Ids : event[e] = "stored"}, BatchLimit, Before)

\* One transaction: the notifications of the batch and its published_at.  A
\* failure part way rolls all of it back.
DeliverOutbox ==
  /\ Batch # {}
  /\ event' = [e \in Ids |-> IF e \in Batch THEN "published" ELSE event[e]]
  /\ notified' = [e \in Ids |-> IF e \in Batch \cap Notifiable
                                  THEN notified[e] + 1 ELSE notified[e]]
  /\ UNCHANGED <<read, streamVars>>

\* mark_read: a second call finds read_at set and changes nothing.
MarkRead(e) ==
  /\ notified[e] > 0 /\ e \notin read
  /\ read' = read \cup {e}
  /\ UNCHANGED <<event, notified, streamVars>>

-----------------------------------------------------------------------------
(* The stream and its client.                                               *)

\* The request carries Last-Event-ID, which becomes the stream's cursor.
Connect ==
  /\ stream = "closed"
  /\ stream' = "open" /\ cursor' = last /\ page' = {} /\ wire' = <<>>
  /\ UNCHANGED <<event, notified, read, last, seen>>

Ascending(d, e) == d < e

\* The rows list_status_events selects.
After == FirstBy({e \in Ids : event[e] = "published" /\ e > cursor}, PageLimit, Ascending)

Poll ==
  /\ stream = "open" /\ page = {}
  /\ After # {}
  /\ page' = After
  /\ UNCHANGED <<event, notified, read, stream, cursor, wire, last, seen>>

Emit ==
  /\ stream = "open"
  /\ \E e \in page : /\ \A d \in page : e <= d
                     /\ page' = page \ {e}
                     /\ cursor' = e
                     /\ wire' = Append(wire, e)
  /\ UNCHANGED <<event, notified, read, stream, last, seen>>

ReceiveWithoutRecording ==
  /\ wire # <<>>
  /\ wire' = Tail(wire)
  /\ seen' = Append(seen, Head(wire))
  /\ UNCHANGED <<event, notified, read, stream, cursor, page, last>>

\* The client drops an event that is not newer than its last one.
Receive ==
  /\ wire # <<>>
  /\ wire' = Tail(wire)
  /\ IF Head(wire) > last
       THEN last' = Head(wire) /\ seen' = Append(seen, Head(wire))
       ELSE UNCHANGED <<last, seen>>
  /\ UNCHANGED <<event, notified, read, stream, cursor, page>>

\* The connection breaks, the API restarts or the session check ends the
\* stream: what was on the way is lost.
Disconnect ==
  /\ stream = "open"
  /\ stream' = "closed" /\ page' = {} /\ wire' = <<>>
  /\ UNCHANGED <<event, notified, read, cursor, last, seen>>

\* run returns for good: no bearer token, a 401, or the shell cancelled its task.
EndRun ==
  /\ stream # "ended"
  /\ stream' = "ended" /\ page' = {} /\ wire' = <<>>
  /\ UNCHANGED <<event, notified, read, cursor, last, seen>>

\* The next sign-in starts a new run, with a lastEventID and a history of its own.
StartStatusStream ==
  /\ stream = "ended"
  /\ stream' = "closed" /\ last' = 0 /\ seen' = <<>>
  /\ UNCHANGED <<event, notified, read, cursor, page, wire>>

Next ==
  \/ \E e \in Ids : \/ Insert(e)
                    \/ \E outcome \in {"stored", "gone"} : EndTransaction(e, outcome)
                    \/ MarkRead(e)
  \/ DeliverOutbox
  \/ Connect \/ Poll \/ Emit \/ Receive \/ Disconnect
  \/ EndRun \/ StartStatusStream

Spec == Init /\ [][Next]_outboxVars

(***************************************************************************)
(* The housekeeping loop delivers again and again, and a run of the client *)
(* that has not returned reconnects again and again.  Connections break,   *)
(* but not every single one before it has carried anything: the stream's   *)
(* steps are strongly fair.  Nothing keeps a run from returning, or starts *)
(* the next one.                                                           *)
(***************************************************************************)
FairSpec ==
  /\ Spec
  /\ WF_outboxVars(DeliverOutbox)
  /\ WF_outboxVars(Connect)
  /\ SF_outboxVars(Poll) /\ SF_outboxVars(Emit) /\ SF_outboxVars(Receive)

-----------------------------------------------------------------------------
(* deliver_outbox makes exactly one notification from a published event     *)
(* that the policy maps, none from any other, and never publishes an event  *)
(* whose transaction did not commit.                                        *)
NotifiedOnce ==
  \A e \in Ids : notified[e] = IF event[e] = "published" /\ e \in Notifiable THEN 1 ELSE 0

(* Through any number of reconnects a run of the client is handed each      *)
(* event at most once, in the order of the ids, and only what was published. *)
SeenInOrder ==
  /\ \A i, j \in DOMAIN seen : i < j => seen[i] < seen[j]
  /\ \A i \in DOMAIN seen : event[seen[i]] = "published" /\ seen[i] <= last

(* Every event whose transaction committed is published, however many wait  *)
(* in front of it, and every run of the client reaches every published      *)
(* event - is handed it, or passes it with its lastEventID - unless the run *)
(* returns first: on a token error, a 401 or a sign-out.                    *)
CommittedIsReached ==
  \A e \in Ids : /\ event[e] = "stored" ~> event[e] = "published"
                 /\ event[e] = "published" ~> (last >= e \/ stream = "ended")

-----------------------------------------------------------------------------
(* The foundation plan: "expose processing status changes through the same  *)
(* ordered event stream" - every published event up to the client's         *)
(* lastEventID has been handed to it.                                       *)
NothingSkipped ==
  \A e \in Ids : (event[e] = "published" /\ e <= last) => \E i \in DOMAIN seen : seen[i] = e
=============================================================================
