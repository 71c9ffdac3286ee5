----------------------- MODULE RecordingCaptureProofs -----------------------
(***************************************************************************)
(* What RecordingCapture promises for any number of recordings, buffers,   *)
(* seconds, capacities and faults, until start() is re-entered during its  *)
(* pause.  Three arguments.  The phase keeps calls of start() apart, but   *)
(* for that.  The coordinator's references are those of the one current    *)
(* recording, and each stage of a stop leaves one more of its tasks        *)
(* finished.  And each position that the pipeline has emitted is in exactly*)
(* one place: the event stream, a registered or taken gap, the records or  *)
(* the journal; events leave the pipeline in the order of the timeline, so *)
(* a gap that is merged only touches the one it continues.                 *)
(***************************************************************************)
EXTENDS RecordingCapture, SequenceTheorems, FunctionTheorems, FiniteSetTheorems,
        WellFoundedInduction, TLAPS

Reasons == {"audio", "callback_overflow", "source_discontinuity", "missing_audio"}
Notices == {"conversion", "required_tracks", "overflow", "stopped", "unavailable"}

Item   == [track : Tracks, start : Nat, len : Nat \ {0}, reason : Reasons]
Gap    == {g \in Item : g.reason # "audio"}
Notice == [track : {"none"}, start : {0}, len : {0}, reason : Notices]
Event  == Item \cup Notice

Pipe   == [open : BOOLEAN, failed : BOOLEAN, inputs : Seq(Item), origin : SUBSET Nat,
           ends : [Tracks -> Nat], pending : [Tracks -> SUBSET Item], lost : BOOLEAN]
Stream == [buf : Seq(Event), open : BOOLEAN]
Gaps   == [pending : SUBSET Gap, batch : Seq(Gap), running : BOOLEAN, failed : BOOLEAN]
Spool  == [there : BOOLEAN, recs : [Tracks -> Seq(Item)], torn : BOOLEAN,
           journal : Seq(Item), sealed : BOOLEAN, ends : [Tracks -> Nat], lost : BOOLEAN]

Ref     == Starts \cup {None}
Phases  == {"idle", "preflighting", "blocked", "recording", "stopping", "sealed", "attention"}
Calls   == {"idle", "pausing", "preflight", "create", "source", "begin", "undo", "done"}
Stages  == {"none", "capture", "closing", "finishing", "drain", "writer", "flush", "seal",
            "abandon", "discard", "closed"}
Closer  == [kind : {"none", "stop", "limit", "env", "fail", "undo"}, stage : Stages,
            by : Ref, wait : Ref, ok : BOOLEAN]

\* the coordinator and its tasks
ControlTypeOK ==
  /\ phase \in Phases /\ calls \in [Starts -> Calls]
  /\ held \in [rec : Ref, spool : Ref, cont : Ref, writer : Ref, gaps : Ref,
               failed : BOOLEAN, fatal : BOOLEAN, env : BOOLEAN]
  /\ closer \in [Starts -> Closer]
  /\ writer \in [Starts -> {"none", "running", "failing", "done"}]
  /\ faults \in Nat

\* the callback queue and the processing queue
CaptureTypeOK ==
  /\ source \in [receiver : Ref, alive : BOOLEAN, at : [Tracks -> Nat]]
  /\ handoff \in [retained : Seq(Item), late : SUBSET Item, dropped : [Tracks -> SUBSET Gap],
                  scheduled : BOOLEAN, closed : BOOLEAN]
  /\ \A t \in Tracks : handoff.dropped[t] = {} \/ \E g \in handoff.dropped[t] : g.track = t /\ handoff.dropped[t] = {g}
  /\ batch \in Seq(Item)

\* the stream, the gaps and the spool
StorageTypeOK ==
  /\ stream \in [Starts -> Stream] /\ gaps \in [Starts -> Gaps] /\ disk \in [Starts -> Spool]
  /\ \A i \in Starts, t \in Tracks : \A k \in 1 .. Len(disk[i].recs[t]) : disk[i].recs[t][k].track = t

\* One interval for each track and reason; a worker that has ended left nothing.
GapsOK(w) ==
  /\ w \in Gaps /\ IsFiniteSet(w.pending)
  /\ \A g, h \in w.pending : g.track = h.track /\ g.reason = h.reason => g = h
  /\ ~w.running => w.batch = <<>>
  /\ ~w.running /\ ~w.failed => w.pending = {}

\* What the accumulator holds of a track ends where its timeline ends.
Accumulated(p, t) ==
  p.pending[t] = {} \/ \E q \in p.pending[t] :
    /\ p.pending[t] = {q} /\ q.track = t /\ q.reason = "audio"
    /\ q.start + q.len = p.ends[t]

PipeOK(p) ==
  /\ p \in Pipe /\ \A t \in Tracks : Accumulated(p, t)
  /\ ~p.open => \A t \in Tracks : p.pending[t] = {}
  /\ p.failed => ~p.open

Quiet(w) == w.batch = <<>> /\ ~w.running

-----------------------------------------------------------------------------
InFlight(i) == calls[i] \notin {"idle", "done"}

\* start() has created the spool of i, and neither start() nor a stop has left it.
Current(i) ==
  \/ calls[i] \in {"source", "begin", "undo"}
  \/ phase \in {"recording", "stopping"} /\ held.rec = i

Working(i) == closer[i].stage \notin {"none", "closed"}

\* the stages before the source, the stream, the writer and the gap worker have ended
SourceUp == {"none", "capture", "closing", "finishing"}
StreamUp == SourceUp \cup {"drain"}
WriterUp == StreamUp \cup {"writer"}
GapsUp   == WriterUp \cup {"flush"}

Starting == {"preflight", "create", "source", "begin", "undo"}

CallsInv ==
  /\ phase \in {"recording", "stopping"} =>
       held.rec \in Starts /\ calls[held.rec] = "done" /\ \A i \in Starts : ~InFlight(i)
  /\ phase = "recording" => closer[held.rec].stage = "none"
  /\ phase = "preflighting" => \E i \in Starts : calls[i] \in Starting
  /\ \A i \in Starts :
       /\ calls[i] \in Starting => phase = "preflighting"
       /\ calls[i] \notin {"done", "undo"} => closer[i] = NoCloser
       /\ Working(i) <=> calls[i] = "undo" \/ (phase = "stopping" /\ held.rec = i)

\* The coordinator and the source refer to the current recording only.
RefsInv ==
  \A x \in {held.spool, held.cont, held.writer, held.gaps, source.receiver} :
    x # None => Current(x)

UpTo(stages, i) == IF closer[i].stage \in stages THEN i ELSE None

\* Which references the current recording has at each stage, and what has ended.
LiveInv(i) ==
  /\ held.spool = i
  /\ source.receiver = IF calls[i] \in {"source", "undo"} THEN None ELSE UpTo(SourceUp, i)
  /\ Working(i) => (closer[i].kind = "undo" <=> calls[i] = "undo")
  /\ calls[i] = "undo" => closer[i].stage \notin {"closing", "finishing", "seal", "abandon"}
  /\ calls[i] # "undo" => closer[i].stage # "discard"
  /\ IF writer[i] = "none"
     THEN calls[i] = "undo" /\ held.cont = None /\ held.writer = None /\ held.gaps = None
     ELSE /\ held.cont = UpTo(StreamUp, i) /\ (stream[i].open <=> closer[i].stage \in StreamUp)
          /\ held.writer = UpTo(WriterUp, i) /\ held.gaps = UpTo(GapsUp, i)
          /\ closer[i].stage = "writer" \/ closer[i].kind = "fail" => closer[i].wait = i
  /\ closer[i].stage \notin WriterUp => writer[i] \in {"none", "done"}
  /\ closer[i].stage \notin GapsUp => Quiet(gaps[i])
  /\ writer[i] = "failing" => closer[i].stage \in StreamUp \ {"none"}
  /\ closer[i].stage \in StreamUp \ {"none"} =>
       closer[i].by = IF writer[i] = "failing" THEN i ELSE None

\* Tasks that have not begun, or have ended.
TasksInv ==
  \A i \in Starts :
    /\ GapsOK(gaps[i])
    /\ writer[i] \in {"none", "done"} => stream[i].buf = <<>> /\ ~stream[i].open
    /\ writer[i] = "none" => gaps[i] = NoGaps
    /\ ~Current(i) => writer[i] \in {"none", "done"} /\ Quiet(gaps[i])
    /\ calls[i] \in {"idle", "pausing", "preflight", "create"} =>
         writer[i] = "none" /\ disk[i] = NoSpool

\* After output.finish() nothing is on its way to the pipeline.
HandoffInv ==
  /\ source.receiver = None => /\ batch = <<>> /\ handoff.late = {}
                               /\ ~handoff.scheduled /\ ~source.alive
  /\ \A i \in Starts : closer[i].stage = "finishing" => handoff.closed /\ handoff.late = {}

ControlInv ==
  /\ ControlTypeOK /\ CaptureTypeOK /\ StorageTypeOK /\ PipeOK(pipe)
  /\ CallsInv /\ RefsInv /\ TasksInv /\ HandoffInv
  /\ \A i \in Starts : Current(i) => LiveInv(i)

-----------------------------------------------------------------------------
\* Position n of track t, in how many places of recording i it is.
Hits(e, t, n) == e.track = t /\ e.start <= n /\ n < e.start + e.len

InSeq(s, t, n) == Cardinality({k \in 1 .. Len(s) : Hits(s[k], t, n)})
InSet(S, t, n) == Cardinality({e \in S : Hits(e, t, n)})

OnDisk(d, t, n)     == InSeq(d.recs[t], t, n) + InSeq(d.journal, t, n)
OnTheWay(s, w, t, n) == InSeq(s.buf, t, n) + InSeq(w.batch, t, n) + InSet(w.pending, t, n)

\* How far the pipeline has emitted the timeline of each track.
FrontOf(pending, end) ==
  IF pending = {} THEN end ELSE (CHOOSE q \in pending : TRUE).start

Emitted(p) == [t \in Tracks |-> FrontOf(p.pending[t], p.ends[t])]

Once(f, t, n) == IF n < f[t] THEN 1 ELSE 0

\* Unless something was lost and the recording will not be sealed, or says so.
Sound(i) ==
  ~pipe.lost /\ ~gaps[i].failed /\ ~held.failed =>
    /\ ~disk[i].torn
    /\ \A t \in Tracks, n \in Nat :
         OnDisk(disk[i], t, n) + OnTheWay(stream[i], gaps[i], t, n) = Once(Emitted(pipe), t, n)

DataInv(i) ==
  /\ disk[i].sealed => ~Current(i) \/ closer[i].stage = "abandon"
  /\ calls[i] = "source" => /\ disk[i] = [NoSpool EXCEPT !.there = TRUE]
                            /\ stream[i].buf = <<>> /\ gaps[i] = NoGaps
  /\ Current(i) /\ calls[i] \notin {"source", "undo"} =>
       /\ Sound(i)
       /\ closer[i].stage \notin SourceUp => \A t \in Tracks : pipe.pending[t] = {}
       /\ closer[i].stage = "seal" => ~gaps[i].failed /\ ~held.failed

SpoolsTile == \A i \in Starts : disk[i].sealed /\ ~disk[i].lost => Tiled(disk[i])

CaptureInv == ControlInv /\ (\A i \in Starts : DataInv(i)) /\ SpoolsTile

-----------------------------------------------------------------------------
(* Induction, and what a fold over a sequence computes.                     *)

LEMMA LeastExists ==
  ASSUME NEW S, S \subseteq Nat, S # {}
  PROVE  \E x \in S : \A y \in S : x <= y
<1> DEFINE Less == {ss \in Nat \X Nat : ss[1] < ss[2]}
<1>1. IsWellFoundedOn(Less, Nat)
  BY NatLessThanWellFounded DEF OpToRel
<1>2. PICK x \in S : \A y \in S : ~(<<y, x>> \in Less)
  <2> HIDE DEF Less
  <2> QED
    BY <1>1, WFMin
<1>3. ASSUME NEW y \in S PROVE x <= y
  <2>1. x \in Nat /\ y \in Nat
    OBVIOUS
  <2>2. ~(y < x)
    BY <1>2, <2>1
  <2> QED
    BY <2>1, <2>2
<1> QED
  BY <1>3

(* A set of numbers that holds 0 and, with each number, the next one. *)
LEMMA UpToN ==
  ASSUME NEW n \in Nat, NEW Good, 0 \in Good,
         \A k \in 1 .. n : k - 1 \in Good => k \in Good
  PROVE  \A k \in 0 .. n : k \in Good
<1> DEFINE Bad == {k \in 0 .. n : k \notin Good}
<1> SUFFICES ASSUME Bad # {} PROVE FALSE
  OBVIOUS
<1>1. PICK k \in Bad : \A j \in Bad : k <= j
  <2>1. Bad \subseteq Nat
    OBVIOUS
  <2> HIDE DEF Bad
  <2> QED
    BY <2>1, LeastExists
<1>2. k \in 1 .. n /\ k - 1 \in 0 .. n /\ ~(k <= k - 1)
  OBVIOUS
<1>3. k - 1 \notin Bad
  <2> HIDE DEF Bad
  <2> QED
    BY <1>1, <1>2
<1> QED
  BY <1>2, <1>3

LEMMA MaxOf ==
  ASSUME NEW m \in Nat, NEW s, s \subseteq 1 .. m, m \in s
  PROVE  Max(s) = m
<1>1. \A y \in s : m >= y
  OBVIOUS
<1>2. ASSUME NEW x \in s, \A y \in s : x >= y PROVE x = m
  BY <1>2
<1> QED
  BY <1>1, <1>2 DEF Max

Tabulates(g, F, base, A, n) ==
  /\ g \in [SUBSET (1 .. n) -> A]
  /\ \A s \in SUBSET (1 .. n) :
       g[s] = IF s = {} THEN base ELSE F[Max(s)][g[s \ {Max(s)}]]

LEMMA MaxIn ==
  ASSUME NEW n \in Nat, NEW s \in SUBSET (1 .. n), s # {}
  PROVE  Max(s) \in s /\ Max(s) \in 1 .. n /\ s \ {Max(s)} \in SUBSET (1 .. n)
<1> DEFINE D == {n - x : x \in s}
<1>1. PICK d \in D : \A e \in D : d <= e
  <2>1. D \subseteq Nat /\ D # {}
    OBVIOUS
  <2> HIDE DEF D
  <2> QED
    BY <2>1, LeastExists
<1>2. PICK x \in s : d = n - x
  OBVIOUS
<1>3. \A y \in s : x >= y
  <2> SUFFICES ASSUME NEW y \in s PROVE x >= y
    OBVIOUS
  <2>1. n - y \in D
    OBVIOUS
  <2>2. n - x <= n - y
    <3> HIDE DEF D
    <3> QED BY <1>1, <1>2, <2>1
  <2> QED
    BY <2>2
<1>4. Max(s) \in s
  BY <1>3 DEF Max
<1> QED
  BY <1>4

LEMMA TableExists ==
  ASSUME NEW n \in Nat, NEW A, NEW base \in A, NEW F \in [1 .. n -> [A -> A]]
  PROVE  \E g : Tabulates(g, F, base, A, n)
<1> DEFINE Good == {m \in 0 .. n : \E g : Tabulates(g, F, base, A, m)}
<1>1. 0 \in Good
  <2> DEFINE g == [s \in SUBSET (1 .. 0) |-> base]
  <2>1. \A s \in SUBSET (1 .. 0) : s = {}
    OBVIOUS
  <2>2. Tabulates(g, F, base, A, 0)
    BY <2>1 DEF Tabulates
  <2> QED
    BY <2>2
<1>2. ASSUME NEW m \in 1 .. n, m - 1 \in Good PROVE m \in Good
  <2>1. PICK g : Tabulates(g, F, base, A, m - 1)
    BY <1>2
  <2> DEFINE h == [s \in SUBSET (1 .. m) |->
                     IF m \in s THEN F[m][g[s \ {m}]] ELSE g[s]]
  <2>2. ASSUME NEW s \in SUBSET (1 .. m)
        PROVE  /\ s \ {m} \in SUBSET (1 .. m - 1)
               /\ m \notin s => s \in SUBSET (1 .. m - 1)
               /\ g[s \ {m}] \in A
               /\ h[s \ {m}] = g[s \ {m}] /\ h[s] \in A
    <3>1. s \ {m} \in SUBSET (1 .. m - 1) /\ s \ {m} \in SUBSET (1 .. m)
      OBVIOUS
    <3>2. m \notin s => s = s \ {m}
      OBVIOUS
    <3>3. g[s \ {m}] \in A
      BY <2>1, <3>1 DEF Tabulates
    <3>4. h[s \ {m}] = g[s \ {m}] /\ h[s] = IF m \in s THEN F[m][g[s \ {m}]] ELSE g[s]
      BY <3>1
    <3>5. F[m][g[s \ {m}]] \in A
      BY <3>3
    <3> HIDE DEF h
    <3> QED
      BY <3>1, <3>2, <3>3, <3>4, <3>5
  <2>3. h \in [SUBSET (1 .. m) -> A]
    <3>1. \A s \in SUBSET (1 .. m) : h[s] \in A
      BY <2>2
    <3>2. h = [s \in SUBSET (1 .. m) |-> h[s]]
      OBVIOUS
    <3> HIDE DEF h
    <3> QED
      BY <3>1, <3>2
  <2>4. ASSUME NEW s \in SUBSET (1 .. m)
        PROVE  h[s] = IF s = {} THEN base ELSE F[Max(s)][h[s \ {Max(s)}]]
    <3>1. CASE m \in s
      <4>1. Max(s) = m
        <5>1. m \in Nat /\ s \subseteq 1 .. m
          OBVIOUS
        <5> QED
          BY <3>1, <5>1, MaxOf
      <4>2. h[s] = F[m][g[s \ {m}]] /\ h[s \ {m}] = g[s \ {m}]
        BY <2>2, <3>1
      <4> QED
        BY <3>1, <4>1, <4>2
    <3>2. CASE m \notin s
      <4>1. s \in SUBSET (1 .. m - 1) /\ h[s] = g[s]
        BY <2>2, <3>2
      <4>2. s # {} => /\ s \ {Max(s)} \in SUBSET (1 .. m) /\ m \notin s \ {Max(s)}
        BY <3>2, MaxIn
      <4>3. s # {} => h[s \ {Max(s)}] = g[s \ {Max(s)}]
        BY <4>2
      <4>4. g[s] = IF s = {} THEN base ELSE F[Max(s)][g[s \ {Max(s)}]]
        BY <2>1, <4>1 DEF Tabulates
      <4> HIDE DEF h
      <4> QED
        BY <4>1, <4>3, <4>4
    <3> QED
      BY <3>1, <3>2
  <2>5. Tabulates(h, F, base, A, m)
    <3> HIDE DEF h
    <3> QED
      BY <2>3, <2>4 DEF Tabulates
  <2> QED
    BY <2>5
<1>3. n \in Good
  <2>1. n \in 0 .. n
    OBVIOUS
  <2> HIDE DEF Good
  <2> QED
    BY <1>1, <1>2, <2>1, UpToN
<1> QED
  BY <1>3

(* Where a table leads, when each entry of the sequence leads from one set of  *)
(* states to the next.                                                         *)
LEMMA TableLeads ==
  ASSUME NEW n \in Nat, NEW it, NEW G,
         it[{}] \in G[0],
         \A k \in 1 .. n : it[(1 .. k) \ {k}] \in G[k - 1] => it[1 .. k] \in G[k]
  PROVE  it[1 .. n] \in G[n]
<1> DEFINE Good == {k \in 0 .. n : it[1 .. k] \in G[k]}
<1>1. 0 \in Good
  <2>1. 1 .. 0 = {}
    OBVIOUS
  <2> QED
    BY <2>1
<1>2. ASSUME NEW k \in 1 .. n, k - 1 \in Good PROVE k \in Good
  <2>1. (1 .. k) \ {k} = 1 .. k - 1 /\ k \in 0 .. n
    OBVIOUS
  <2>2. it[1 .. k - 1] \in G[k - 1]
    BY <1>2
  <2>3. it[1 .. k] \in G[k]
    BY <2>1, <2>2
  <2> QED
    BY <2>1, <2>3
<1>3. n \in Good
  <2>1. n \in 0 .. n
    OBVIOUS
  <2> HIDE DEF Good
  <2> QED
    BY <1>1, <1>2, <2>1, UpToN
<1> QED
  BY <1>3

-----------------------------------------------------------------------------
(* Counting the places of a position.                                       *)

Hit(e, t, n) == IF Hits(e, t, n) THEN 1 ELSE 0

LEMMA InSeqNat ==
  ASSUME NEW s, Len(s) \in Nat, NEW t, NEW n
  PROVE  /\ IsFiniteSet({k \in 1 .. Len(s) : Hits(s[k], t, n)})
         /\ InSeq(s, t, n) \in Nat
<1>1. IsFiniteSet(1 .. Len(s))
  BY FS_Interval
<1>2. {k \in 1 .. Len(s) : Hits(s[k], t, n)} \in SUBSET (1 .. Len(s))
  OBVIOUS
<1>3. IsFiniteSet({k \in 1 .. Len(s) : Hits(s[k], t, n)})
  BY <1>1, <1>2, FS_Subset
<1> QED
  BY <1>3, FS_CardinalityType DEF InSeq

LEMMA InSeqEmpty == ASSUME NEW t, NEW n PROVE InSeq(<<>>, t, n) = 0
<1>1. {k \in 1 .. Len(<<>>) : Hits(<<>>[k], t, n)} = {}
  OBVIOUS
<1> QED
  BY <1>1, FS_EmptySet DEF InSeq

LEMMA InSeqAppend ==
  ASSUME NEW S, NEW s \in Seq(S), NEW e \in S, NEW t, NEW n
  PROVE  InSeq(Append(s, e), t, n) = InSeq(s, t, n) + Hit(e, t, n)
<1> DEFINE a == Append(s, e)
           K(r) == {k \in 1 .. Len(r) : Hits(r[k], t, n)}
<1>1. Len(s) \in Nat /\ Len(a) = Len(s) + 1 /\ a[Len(s) + 1] = e
      /\ \A k \in 1 .. Len(s) : a[k] = s[k]
  BY AppendProperties
<1>2. IsFiniteSet(K(s)) /\ Cardinality(K(s)) \in Nat
  BY <1>1, InSeqNat DEF InSeq
<1>3. CASE Hits(e, t, n)
  <2>1. K(a) = K(s) \cup {Len(s) + 1} /\ Len(s) + 1 \notin K(s)
    <3> HIDE DEF a
    <3> QED
      BY <1>1, <1>3
  <2>2. Cardinality(K(a)) = Cardinality(K(s)) + 1
    <3> HIDE DEF K
    <3> QED
      BY <1>2, <2>1, FS_AddElement
  <2> QED
    BY <1>3, <2>2 DEF InSeq, Hit
<1>4. CASE ~Hits(e, t, n)
  <2>1. K(a) = K(s)
    <3> HIDE DEF a
    <3> QED
      BY <1>1, <1>4
  <2>2. Cardinality(K(a)) = Cardinality(K(s)) + 0
    <3> HIDE DEF K
    <3> QED
      BY <1>2, <2>1
  <2> QED
    BY <1>4, <2>2 DEF InSeq, Hit
<1> QED
  BY <1>3, <1>4

LEMMA InSeqTail ==
  ASSUME NEW S, NEW s \in Seq(S), s # <<>>, NEW t, NEW n
  PROVE  InSeq(s, t, n) = InSeq(Tail(s), t, n) + Hit(Head(s), t, n)
<1> DEFINE r == Tail(s)
           K(q) == {k \in 1 .. Len(q) : Hits(q[k], t, n)}
           B == [k \in K(r) |-> k + 1]
<1>1. /\ Len(s) \in Nat \ {0} /\ Len(r) = Len(s) - 1 /\ s[1] = Head(s)
      /\ \A k \in 1 .. Len(r) : r[k] = s[k + 1]
  BY HeadTailProperties, EmptySeq, LenProperties
<1> HIDE DEF r
<1>2. IsFiniteSet(K(r)) /\ Cardinality(K(r)) \in Nat /\ IsFiniteSet(K(s))
      /\ Cardinality(K(s)) \in Nat
  <2>1. Len(r) \in Nat /\ Len(s) \in Nat
    BY <1>1
  <2>2. IsFiniteSet(K(r)) /\ Cardinality(K(r)) \in Nat
    BY <2>1, InSeqNat DEF InSeq
  <2>3. IsFiniteSet(K(s)) /\ Cardinality(K(s)) \in Nat
    BY <2>1, InSeqNat DEF InSeq
  <2> QED
    BY <2>2, <2>3
<1>3. ExistsBijection(K(r), K(s) \ {1})
  <2>1. B \in [K(r) -> K(s) \ {1}]
    <3>1. \A k \in K(r) : k + 1 \in K(s) \ {1}
      BY <1>1
    <3> QED
      BY <3>1
  <2>2. \A a, b \in K(r) : B[a] = B[b] => a = b
    OBVIOUS
  <2>3. \A j \in K(s) \ {1} : \E k \in K(r) : B[k] = j
    <3> SUFFICES ASSUME NEW j \in K(s) \ {1} PROVE \E k \in K(r) : B[k] = j
      OBVIOUS
    <3>1. j - 1 \in K(r) /\ (j - 1) + 1 = j
      BY <1>1
    <3> QED
      BY <3>1
  <2> HIDE DEF B, K
  <2> QED
    BY <2>1, <2>2, <2>3, Fun_IsBij DEF ExistsBijection
<1>4. Cardinality(K(s) \ {1}) = Cardinality(K(r))
  <2> HIDE DEF K
  <2> QED
    BY <1>2, <1>3, FS_Bijection
<1>5. 1 \in K(s) <=> Hits(Head(s), t, n)
  BY <1>1
<1>6. Cardinality(K(s)) = Cardinality(K(r)) + Hit(Head(s), t, n)
  <2> HIDE DEF K
  <2>1. Cardinality(K(s) \ {1}) = IF 1 \in K(s) THEN Cardinality(K(s)) - 1 ELSE Cardinality(K(s))
    BY <1>2, FS_RemoveElement
  <2> QED
    BY <1>2, <1>4, <1>5, <2>1 DEF Hit
<1> QED
  BY <1>6 DEF InSeq, r

LEMMA InSetNat ==
  ASSUME NEW S, IsFiniteSet(S), NEW t, NEW n
  PROVE  IsFiniteSet({e \in S : Hits(e, t, n)}) /\ InSet(S, t, n) \in Nat
<1>1. {e \in S : Hits(e, t, n)} \in SUBSET S
  OBVIOUS
<1>2. IsFiniteSet({e \in S : Hits(e, t, n)})
  BY <1>1, FS_Subset
<1> QED
  BY <1>2, FS_CardinalityType DEF InSet

LEMMA InSetEmpty == ASSUME NEW t, NEW n PROVE InSet({}, t, n) = 0
<1>1. {e \in {} : Hits(e, t, n)} = {}
  OBVIOUS
<1> QED
  BY <1>1, FS_EmptySet DEF InSet

LEMMA InSetAdd ==
  ASSUME NEW S, IsFiniteSet(S), NEW e, e \notin S, NEW t, NEW n
  PROVE  InSet(S \cup {e}, t, n) = InSet(S, t, n) + Hit(e, t, n)
<1> DEFINE K(T) == {g \in T : Hits(g, t, n)}
<1>1. IsFiniteSet(K(S)) /\ Cardinality(K(S)) \in Nat
  BY InSetNat DEF InSet
<1>2. CASE Hits(e, t, n)
  <2>1. K(S \cup {e}) = K(S) \cup {e} /\ e \notin K(S)
    BY <1>2
  <2>2. Cardinality(K(S \cup {e})) = Cardinality(K(S)) + 1
    <3> HIDE DEF K
    <3> QED
      BY <1>1, <2>1, FS_AddElement
  <2> QED
    BY <1>2, <2>2 DEF InSet, Hit
<1>3. CASE ~Hits(e, t, n)
  <2>1. K(S \cup {e}) = K(S)
    BY <1>3
  <2>2. Cardinality(K(S \cup {e})) = Cardinality(K(S)) + 0
    <3> HIDE DEF K
    <3> QED
      BY <1>1, <2>1
  <2> QED
    BY <1>3, <2>2 DEF InSet, Hit
<1> QED
  BY <1>2, <1>3

LEMMA InSetRemove ==
  ASSUME NEW S, IsFiniteSet(S), NEW e \in S, NEW t, NEW n
  PROVE  InSet(S, t, n) = InSet(S \ {e}, t, n) + Hit(e, t, n)
<1>1. IsFiniteSet(S \ {e}) /\ e \notin S \ {e} /\ (S \ {e}) \cup {e} = S
  BY FS_RemoveElement
<1> QED
  BY <1>1, InSetAdd

(* A sequence of the elements of a set counts as the set does. *)
LEMMA InSeqOfSet ==
  ASSUME NEW S, IsFiniteSet(S), NEW s \in SetToSeqs(S), NEW t, NEW n
  PROVE  /\ s \in Seq(S) /\ Len(s) = Cardinality(S)
         /\ InSeq(s, t, n) = InSet(S, t, n)
<1> DEFINE c == Cardinality(S)
           K == {k \in 1 .. c : Hits(s[k], t, n)}
           E == {e \in S : Hits(e, t, n)}
           B == [k \in K |-> s[k]]
<1>1. c \in Nat
  BY FS_CardinalityType
<1>2. s \in [1 .. c -> S] /\ \A i, j \in 1 .. c : i # j => s[i] # s[j]
  BY DEF SetToSeqs
<1>3. s \in Seq(S) /\ Len(s) = c
  BY <1>1, <1>2, SeqDef, LenProperties
<1>4. \A e \in S : \E k \in 1 .. c : s[k] = e
  <2>1. s \in Injection(1 .. c, S)
    BY <1>2, Fun_IsInj
  <2>2. Cardinality(1 .. c) = c
    BY <1>1, FS_Interval
  <2>3. s \in Surjection(1 .. c, S)
    BY <2>1, <2>2, FS_Injection
  <2> QED
    BY <2>3 DEF Surjection
<1>5. IsFiniteSet(K)
  <2>1. K \in SUBSET (1 .. c) /\ IsFiniteSet(1 .. c)
    BY <1>1, FS_Interval
  <2> HIDE DEF K
  <2> QED
    BY <2>1, FS_Subset
<1>6. ExistsBijection(K, E)
  <2>1. B \in [K -> E]
    BY <1>2
  <2>2. \A a, b \in K : B[a] = B[b] => a = b
    BY <1>2
  <2>3. \A e \in E : \E k \in K : B[k] = e
    BY <1>4
  <2> HIDE DEF B, K, E
  <2> QED
    BY <2>1, <2>2, <2>3, Fun_IsBij DEF ExistsBijection
<1>7. Cardinality(E) = Cardinality(K)
  <2> HIDE DEF K, E
  <2> QED
    BY <1>5, <1>6, FS_Bijection
<1> QED
  BY <1>3, <1>7 DEF InSeq, InSet

-----------------------------------------------------------------------------
(* A finite set can be put in order when each part of it has a first element. *)

LEMMA SubsetInduction ==
  ASSUME NEW S, IsFiniteSet(S), NEW Bad, Bad \subseteq SUBSET S, Bad # {}
  PROVE  \E s \in Bad : \A x \in s : s \ {x} \notin Bad
<1>1. IsWellFoundedOn(StrictSubsetOrdering(S), FiniteSubsetsOf(S))
  BY FS_StrictSubsetOrderingWellFounded
<1>2. Bad \subseteq FiniteSubsetsOf(S)
  BY FS_Subset DEF FiniteSubsetsOf
<1>3. PICK s \in Bad : \A u \in Bad : ~(<<u, s>> \in StrictSubsetOrdering(S))
  BY <1>1, <1>2, WFMin
<1>4. ASSUME NEW x \in s, s \ {x} \in Bad PROVE FALSE
  <2>1. s \ {x} \in SUBSET S /\ s \in SUBSET S /\ s \ {x} \subseteq s /\ s \ {x} # s
    BY <1>4
  <2>2. <<s \ {x}, s>> \in StrictSubsetOrdering(S)
    BY <2>1 DEF StrictSubsetOrdering
  <2> QED
    BY <1>3, <1>4, <2>2
<1> QED
  BY <1>4

OrderedBy(f, S, R) ==
  f \in SetToSeqs(S) /\ \A j, k \in 1 .. Cardinality(S) : j < k => <<f[k], f[j]>> \notin R

LEMMA OrderExists ==
  ASSUME NEW S, IsFiniteSet(S), NEW R,
         \A T \in SUBSET S : T # {} => \E m \in T : \A x \in T : <<x, m>> \notin R
  PROVE  \E f : OrderedBy(f, S, R)
<1> DEFINE Bad == {T \in SUBSET S : ~\E f : OrderedBy(f, T, R)}
<1> SUFFICES ASSUME Bad # {} PROVE FALSE
  OBVIOUS
<1>1. PICK T \in Bad : \A x \in T : T \ {x} \notin Bad
  <2>1. Bad \subseteq SUBSET S
    OBVIOUS
  <2> HIDE DEF Bad
  <2> QED
    BY <2>1, SubsetInduction
<1>2. T \in SUBSET S /\ IsFiniteSet(T)
  BY FS_Subset
<1>3. T # {}
  <2> SUFFICES ASSUME T = {} PROVE FALSE
    OBVIOUS
  <2>1. Cardinality({}) = 0 /\ 1 .. 0 = {}
    BY FS_EmptySet
  <2>2. <<>> \in [{} -> {}]
    OBVIOUS
  <2>3. OrderedBy(<<>>, {}, R)
    BY <2>1, <2>2 DEF OrderedBy, SetToSeqs
  <2> QED
    BY <2>3
<1>4. PICK m \in T : \A x \in T : <<x, m>> \notin R
  BY <1>2, <1>3
<1> DEFINE U == T \ {m}  c == Cardinality(U)
<1>5. U \in SUBSET S /\ U \notin Bad
  BY <1>1, <1>2
<1>6. PICK f : OrderedBy(f, U, R)
  BY <1>5
<1>7. c \in Nat /\ Cardinality(T) = c + 1
  <2>1. IsFiniteSet(U) /\ c = Cardinality(T) - 1 /\ Cardinality(T) \in Nat
    BY <1>2, FS_RemoveElement, FS_CardinalityType
  <2>2. c \in Nat
    BY <2>1, FS_CardinalityType
  <2> QED
    BY <2>1, <2>2
<1>8. /\ f \in [1 .. c -> U] /\ \A i, j \in 1 .. c : i # j => f[i] # f[j]
      /\ \A j, k \in 1 .. c : j < k => <<f[k], f[j]>> \notin R
  BY <1>6 DEF OrderedBy, SetToSeqs
<1> DEFINE h == [k \in 1 .. c + 1 |-> IF k = 1 THEN m ELSE f[k - 1]]
<1> HIDE DEF c
<1>9. \A k \in 1 .. c + 1 : k # 1 => k - 1 \in 1 .. c /\ h[k] = f[k - 1] /\ f[k - 1] \in U
  BY <1>7, <1>8
<1>10. h[1] = m /\ 1 \in 1 .. c + 1
  BY <1>7
<1>11. h \in [1 .. c + 1 -> T]
  BY <1>9, <1>10
<1>12. ASSUME NEW i \in 1 .. c + 1, NEW j \in 1 .. c + 1, i # j PROVE h[i] # h[j]
  <2> HIDE DEF h
  <2>1. CASE i = 1
    BY <1>9, <1>10, <1>12, <2>1
  <2>2. CASE j = 1
    BY <1>9, <1>10, <1>12, <2>2
  <2>3. CASE i # 1 /\ j # 1
    <3>1. i - 1 # j - 1
      BY <1>12, <1>7
    <3> QED
      BY <1>8, <1>9, <2>3, <3>1
  <2> QED
    BY <2>1, <2>2, <2>3
<1>13. ASSUME NEW j \in 1 .. c + 1, NEW k \in 1 .. c + 1, j < k
       PROVE <<h[k], h[j]>> \notin R
  <2> HIDE DEF h
  <2>1. k # 1
    BY <1>13, <1>7
  <2>2. CASE j = 1
    BY <1>4, <1>9, <1>10, <2>1, <2>2
  <2>3. CASE j # 1
    <3>1. j - 1 < k - 1
      BY <1>13, <1>7
    <3> QED
      BY <1>8, <1>9, <2>1, <2>3, <3>1
  <2> QED
    BY <2>2, <2>3
<1>14. OrderedBy(h, T, R)
  <2> HIDE DEF h
  <2> QED
    BY <1>7, <1>11, <1>12, <1>13 DEF OrderedBy, SetToSeqs
<1> QED
  BY <1>14

(* The element of a set where a number is least. *)
LEMMA LeastBy ==
  ASSUME NEW T, T # {}, NEW m, \A x \in T : m[x] \in Nat
  PROVE  \E x \in T : \A y \in T : m[x] <= m[y]
<1> DEFINE V == {m[x] : x \in T}
<1>1. PICK v \in V : \A w \in V : v <= w
  <2>1. V \subseteq Nat /\ V # {}
    OBVIOUS
  <2> HIDE DEF V
  <2> QED
    BY <2>1, LeastExists
<1>2. PICK x \in T : v = m[x]
  OBVIOUS
<1>3. \A y \in T : m[y] \in V
  OBVIOUS
<1> HIDE DEF V
<1> QED
  BY <1>1, <1>2, <1>3

(* writePending puts the registered gaps in order. *)
LEMMA GapsInOrder ==
  ASSUME NEW S, IsFiniteSet(S), S \subseteq Item
  PROVE  InOrder(S, LAMBDA g, h : \/ g.track = "microphone" /\ h.track # "microphone"
                                  \/ g.track = h.track /\ g.start < h.start) \in SetToSeqs(S)
<1> DEFINE Before(g, h) == \/ g.track = "microphone" /\ h.track # "microphone"
                           \/ g.track = h.track /\ g.start < h.start
           R == {gh \in S \X S : Before(gh[1], gh[2])}
           st == [g \in S |-> g.start]
<1>1. \A g \in S : g.start \in Nat /\ g.track \in Tracks
  BY DEF Item
<1>2. ASSUME NEW T \in SUBSET S, T # {} PROVE \E m \in T : \A x \in T : <<x, m>> \notin R
  <2> DEFINE M == {g \in T : g.track = "microphone"}
  <2>1. CASE M # {}
    <3>1. PICK m \in M : \A x \in M : st[m] <= st[x]
      <4>1. \A x \in M : st[x] \in Nat
        BY <1>1
      <4> HIDE DEF M, st
      <4> QED
        BY <2>1, <4>1, LeastBy
    <3>2. \A x \in M : ~(x.start < m.start)
      <4>1. \A x \in M : x \in S /\ st[x] = x.start
        OBVIOUS
      <4> HIDE DEF st, M
      <4> QED
        BY <1>1, <3>1, <4>1
    <3>3. \A x \in T : ~Before(x, m)
      BY <3>2
    <3> QED
      BY <3>3
  <2>2. CASE M = {}
    <3>1. PICK m \in T : \A x \in T : st[m] <= st[x]
      <4>1. \A x \in T : st[x] \in Nat
        BY <1>1
      <4> HIDE DEF M, st
      <4> QED
        BY <1>2, <4>1, LeastBy
    <3>2. \A x \in T : ~(x.start < m.start)
      <4>1. \A x \in T : x \in S /\ st[x] = x.start
        OBVIOUS
      <4> HIDE DEF st
      <4> QED
        BY <1>1, <3>1, <4>1
    <3>3. \A x \in T : ~Before(x, m)
      BY <2>2, <3>2
    <3> QED
      BY <3>3
  <2> QED
    BY <2>1, <2>2
<1>3. PICK f : OrderedBy(f, S, R)
  <2> HIDE DEF R
  <2> QED
    BY <1>2, OrderExists
<1>4. f \in SetToSeqs(S) /\ \A j, k \in 1 .. Cardinality(S) : j < k => ~Before(f[k], f[j])
  <2>1. f \in SetToSeqs(S) /\ f \in [1 .. Cardinality(S) -> S]
    BY <1>3 DEF OrderedBy, SetToSeqs
  <2> QED
    BY <1>3, <2>1 DEF OrderedBy
<1> QED
  BY <1>4 DEF InOrder

(* The startup inputs are replayed in order. *)
LEMMA InputsInOrder ==
  ASSUME NEW inputs \in Seq(Item)
  PROVE  LET S == {<<k, inputs[k]>> : k \in 1 .. Len(inputs)}
             f == InOrder(S, LAMBDA x, y : \/ x[2].start < y[2].start
                                           \/ (x[2].start = y[2].start /\ x[1] < y[1]))
         IN  f \in Seq(Nat \X Item)
<1> DEFINE n == Len(inputs)
           S == {<<k, inputs[k]>> : k \in 1 .. n}
           Before(x, y) == \/ x[2].start < y[2].start
                           \/ (x[2].start = y[2].start /\ x[1] < y[1])
           R == {xy \in S \X S : Before(xy[1], xy[2])}
           st == [x \in S |-> x[2].start]
           ix == [x \in S |-> x[1]]
<1>1. n \in Nat /\ \A k \in 1 .. n : inputs[k] \in Item
  BY LenProperties
<1>2. \A x \in S : x \in Nat \X Item /\ x[1] \in Nat /\ x[2] \in Item /\ x[2].start \in Nat
  BY <1>1 DEF Item
<1>3. IsFiniteSet(S)
  <2> DEFINE f == [k \in 1 .. n |-> <<k, inputs[k]>>]
  <2>1. f \in Surjection(1 .. n, S)
    BY DEF Surjection
  <2>2. IsFiniteSet(1 .. n)
    BY <1>1, FS_Interval
  <2> HIDE DEF f, S
  <2> QED
    BY <2>1, <2>2, FS_Surjection
<1>4. ASSUME NEW T \in SUBSET S, T # {} PROVE \E m \in T : \A x \in T : <<x, m>> \notin R
  <2>0. \A x \in T : st[x] = x[2].start /\ ix[x] = x[1] /\ st[x] \in Nat /\ ix[x] \in Nat /\ x \in S
    <3> SUFFICES ASSUME NEW x \in T 
                 PROVE st[x] = x[2].start /\ ix[x] = x[1] /\ st[x] \in Nat /\ ix[x] \in Nat /\ x \in S
      OBVIOUS
    <3>1. x \in S
      OBVIOUS
    <3>2. x[1] \in Nat /\ x[2].start \in Nat
      BY <1>2, <3>1
    <3>3. st[x] = x[2].start /\ ix[x] = x[1]
      BY <3>1
    <3> QED
      BY <3>1, <3>2, <3>3
  <2>1. PICK a \in T : \A x \in T : st[a] <= st[x]
    <3> HIDE DEF st, ix, S
    <3> QED
      BY <1>4, <2>0, LeastBy
  <2> DEFINE U == {x \in T : st[x] = st[a]}
  <2>2. PICK m \in U : \A x \in U : ix[m] <= ix[x]
    <3>1. U # {} /\ \A x \in U : ix[x] \in Nat
      BY <2>0
    <3> HIDE DEF st, ix, S, U
    <3> QED
      BY <3>1, LeastBy
  <2>3. ASSUME NEW x \in T, Before(x, m) PROVE FALSE
    <3>1. st[x] \in Nat /\ st[m] \in Nat /\ ix[x] \in Nat /\ ix[m] \in Nat /\ st[m] = st[a]
      BY <2>0
    <3>2. st[x] < st[m] \/ (st[x] = st[m] /\ ix[x] < ix[m])
      BY <2>0, <2>3
    <3>3. ~(st[x] < st[m])
      <4> HIDE DEF st, ix, S, U
      <4> QED
        BY <2>1, <3>1
    <3>4. x \in U
      BY <3>1, <3>2, <3>3
    <3> HIDE DEF st, ix, S, U
    <3> QED
      BY <2>2, <3>1, <3>2, <3>3, <3>4
  <2> HIDE DEF Before
  <2>4. \A x \in T : <<x, m>> \notin R
    BY <2>3
  <2> QED
    BY <2>4
<1>5. PICK f : OrderedBy(f, S, R)
  <2> HIDE DEF R, S
  <2> QED
    BY <1>3, <1>4, OrderExists
<1>6. f \in SetToSeqs(S) /\ \A j, k \in 1 .. Cardinality(S) : j < k => ~Before(f[k], f[j])
  <2>1. f \in SetToSeqs(S) /\ f \in [1 .. Cardinality(S) -> S]
    BY <1>5 DEF OrderedBy, SetToSeqs
  <2> HIDE DEF S, Before
  <2> QED
    BY <1>5, <2>1 DEF OrderedBy
<1> DEFINE g == InOrder(S, Before)
<1>7. g \in SetToSeqs(S)
  <2> HIDE DEF S, Before
  <2> QED
    BY <1>6 DEF InOrder
<1>8. g \in [1 .. Cardinality(S) -> S] /\ Cardinality(S) \in Nat
  <2> HIDE DEF g, S
  <2> QED
    BY <1>3, <1>7, FS_CardinalityType DEF SetToSeqs
<1>9. S \subseteq Nat \X Item
  BY <1>2
<1>10. g \in Seq(S)
  <2> HIDE DEF g, S
  <2> QED
    BY <1>8, SeqDef
<1>11. g \in Seq(Nat \X Item)
  <2> HIDE DEF g, S
  <2> QED
    BY <1>9, <1>10, SeqMonotonic
<1> QED
  BY <1>11

-----------------------------------------------------------------------------
(* The pipeline emits the timeline of a track from its front, without a hole. *)

Fronts == [Tracks -> Nat]

\* Event e takes the fronts f to h.
Extends(e, f, h) ==
  IF e.track = "none" THEN h = f
  ELSE e.start = f[e.track] /\ h = [f EXCEPT ![e.track] = @ + e.len]

Traces(g, es, a, b) ==
  /\ g \in [0 .. Len(es) -> Fronts] /\ g[0] = a /\ g[Len(es)] = b
  /\ \A k \in 1 .. Len(es) : Extends(es[k], g[k - 1], g[k])

Chain(es, a, b) == \E g : Traces(g, es, a, b)

LEMMA ChainEmpty == ASSUME NEW a \in Fronts PROVE Chain(<<>>, a, a)
<1> DEFINE g == [k \in 0 .. 0 |-> a]
<1>1. Len(<<>>) = 0 /\ 1 .. 0 = {}
  OBVIOUS
<1>2. Traces(g, <<>>, a, a)
  BY <1>1 DEF Traces
<1> QED
  BY <1>2 DEF Chain

LEMMA ChainOne ==
  ASSUME NEW a \in Fronts, NEW b \in Fronts, NEW e, Extends(e, a, b)
  PROVE  Chain(<<e>>, a, b)
<1> DEFINE g == [k \in 0 .. 1 |-> IF k = 0 THEN a ELSE b]
<1>1. Len(<<e>>) = 1 /\ 1 .. 1 = {1} /\ <<e>>[1] = e /\ g[0] = a /\ g[1] = b
  OBVIOUS
<1>2. g \in [0 .. 1 -> Fronts]
  OBVIOUS
<1>3. Traces(g, <<e>>, a, b)
  <2> HIDE DEF g
  <2> QED
    BY <1>1, <1>2 DEF Traces
<1> QED
  BY <1>3 DEF Chain

LEMMA ChainConcat ==
  ASSUME NEW es \in Seq(Event), NEW fs \in Seq(Event), NEW a, NEW b, NEW c,
         Chain(es, a, b), Chain(fs, b, c)
  PROVE  Chain(es \o fs, a, c)
<1>1. PICK g : Traces(g, es, a, b)
  BY DEF Chain
<1>2. PICK h : Traces(h, fs, b, c)
  BY DEF Chain
<1> DEFINE m == Len(es)  n == Len(fs)
           r == [k \in 0 .. m + n |-> IF k <= m THEN g[k] ELSE h[k - m]]
<1>3. /\ m \in Nat /\ n \in Nat /\ Len(es \o fs) = m + n
      /\ \A k \in 1 .. m + n : (es \o fs)[k] = IF k <= m THEN es[k] ELSE fs[k - m]
  BY ConcatProperties, LenProperties
<1>4. /\ g \in [0 .. m -> Fronts] /\ g[0] = a /\ g[m] = b
      /\ \A k \in 1 .. m : Extends(es[k], g[k - 1], g[k])
  BY <1>1 DEF Traces
<1>5. /\ h \in [0 .. n -> Fronts] /\ h[0] = b /\ h[n] = c
      /\ \A k \in 1 .. n : Extends(fs[k], h[k - 1], h[k])
  BY <1>2 DEF Traces
<1> HIDE DEF m, n
<1>6. r \in [0 .. m + n -> Fronts]
  <2> SUFFICES ASSUME NEW k \in 0 .. m + n
               PROVE (IF k <= m THEN g[k] ELSE h[k - m]) \in Fronts
    OBVIOUS
  <2>1. CASE k <= m
    BY <1>3, <1>4, <2>1
  <2>2. CASE ~(k <= m)
    <3>1. k - m \in 0 .. n
      BY <1>3, <2>2
    <3> QED
      BY <1>5, <2>2, <3>1
  <2> QED
    BY <2>1, <2>2
<1>7. r[0] = a
  BY <1>3, <1>4
<1>8. r[m + n] = c
  <2>1. CASE n = 0
    BY <1>3, <1>4, <1>5, <2>1
  <2>2. CASE n # 0
    <3>1. ~(m + n <= m) /\ (m + n) - m = n /\ m + n \in 0 .. m + n
      BY <1>3, <2>2
    <3> QED
      BY <1>5, <3>1
  <2> QED
    BY <2>1, <2>2
<1>9. ASSUME NEW k \in 1 .. m + n PROVE Extends((es \o fs)[k], r[k - 1], r[k])
  <2>1. CASE k <= m
    <3>1. k \in 1 .. m /\ k - 1 <= m /\ k - 1 \in 0 .. m + n /\ k \in 0 .. m + n
      BY <1>3, <2>1
    <3>2. r[k - 1] = g[k - 1] /\ r[k] = g[k] /\ (es \o fs)[k] = es[k]
      BY <1>3, <2>1, <3>1
    <3> QED
      BY <1>4, <3>1, <3>2
  <2>2. CASE ~(k <= m)
    <3>1. /\ k - m \in 1 .. n /\ k - 1 \in 0 .. m + n /\ k \in 0 .. m + n
          /\ (k - m) - 1 = (k - 1) - m
      BY <1>3, <2>2
    <3>2. r[k] = h[k - m] /\ (es \o fs)[k] = fs[k - m]
      BY <1>3, <2>2, <3>1
    <3>3. r[k - 1] = h[(k - m) - 1]
      <4>1. CASE k - 1 <= m
        <5>1. k - 1 = m /\ (k - m) - 1 = 0
          BY <1>3, <2>2, <4>1
        <5> QED
          BY <1>3, <1>4, <1>5, <3>1, <5>1
      <4>2. CASE ~(k - 1 <= m)
        BY <3>1, <4>2
      <4> QED
        BY <4>1, <4>2
    <3> QED
      BY <1>5, <3>1, <3>2, <3>3
  <2> QED
    BY <2>1, <2>2
<1>10. Traces(r, es \o fs, a, c)
  <2> HIDE DEF r
  <2> QED
    BY <1>3, <1>6, <1>7, <1>8, <1>9 DEF Traces
<1> QED
  BY <1>10 DEF Chain

LEMMA SeqOfOne == ASSUME NEW q PROVE SetToSeq({q}) = <<q>>
<1>1. Cardinality({q}) = 1 /\ 1 .. 1 = {1}
  BY FS_Singleton
<1>2. \A f \in [{1} -> {q}] : f = <<q>>
  OBVIOUS
<1>3. <<q>> \in [{1} -> {q}] /\ IsInjective(<<q>>)
  BY DEF IsInjective
<1> QED
  BY <1>1, <1>2, <1>3 DEF SetToSeq

LEMMA EmittedFront == ASSUME NEW p \in Pipe PROVE Emitted(p) \in Fronts
<1> SUFFICES ASSUME NEW t \in Tracks
             PROVE  FrontOf(p.pending[t], p.ends[t]) \in Nat
  BY DEF Emitted, Fronts
<1>1. p.pending[t] \subseteq Item /\ p.ends[t] \in Nat
  BY DEF Pipe
<1>2. p.pending[t] # {} => (CHOOSE q \in p.pending[t] : TRUE) \in Item
  BY <1>1
<1>3. \A q \in Item : q.start \in Nat
  BY DEF Item
<1> QED
  BY <1>1, <1>2, <1>3 DEF FrontOf

(* What flushing a track emits, and where that leaves its front. *)
LEMMA FlushedIs ==
  ASSUME NEW p \in Pipe, NEW t \in Tracks, Accumulated(p, t)
  PROVE  /\ Flushed(p, t) \in Seq(Event)
         /\ Flushed(p, t) = <<>> <=> p.pending[t] = {}
         /\ Chain(Flushed(p, t), Emitted(p), [Emitted(p) EXCEPT ![t] = p.ends[t]])
<1> DEFINE b == [Emitted(p) EXCEPT ![t] = p.ends[t]]
<1>0. Emitted(p) \in Fronts /\ p.ends[t] \in Nat /\ p.pending[t] \subseteq Item
  BY EmittedFront DEF Pipe
<1>1. b \in Fronts
  BY <1>0 DEF Fronts
<1>2. CASE p.pending[t] = {}
  <2>1. b = Emitted(p)
    BY <1>2 DEF Emitted, FrontOf
  <2>2. Flushed(p, t) = <<>>
    BY <1>2 DEF Flushed
  <2> QED
    BY <1>0, <1>2, <2>1, <2>2, ChainEmpty
<1>3. CASE p.pending[t] # {}
  <2>1. PICK q \in p.pending[t] : /\ p.pending[t] = {q} /\ q.track = t
                                  /\ q.start + q.len = p.ends[t]
    BY <1>3 DEF Accumulated
  <2>2. Flushed(p, t) = <<q>> /\ q \in Item /\ q \in Event
    BY <1>0, <1>3, <2>1, SeqOfOne DEF Flushed, Event
  <2>3. Emitted(p)[t] = q.start
    BY <1>3, <2>1 DEF Emitted, FrontOf
  <2>4. q.track # "none"
    BY <2>1 DEF Tracks
  <2>5. b = [Emitted(p) EXCEPT ![q.track] = @ + q.len]
    BY <1>0, <2>1, <2>3 DEF Fronts
  <2>6. Extends(q, Emitted(p), b)
    BY <2>1, <2>3, <2>4, <2>5 DEF Extends
  <2>7. <<q>> # <<>> /\ <<q>> \in Seq(Event)
    BY <2>2
  <2> QED
    BY <1>0, <1>1, <1>3, <2>2, <2>6, <2>7, ChainOne
<1> QED
  BY <1>2, <1>3

LEMMA Seconds ==
  ASSUME NEW total \in Nat
  PROVE  LET full == total \div Second
         IN  full \in Nat /\ full * Second \in Nat /\ full * Second <= total
<1>1. Second \in Nat /\ Second > 0
  BY CaptureAssumption
<1> QED
  BY <1>1

LEMMA SpanItem ==
  ASSUME NEW t \in Tracks, NEW start \in Nat, NEW len \in Nat \ {0}, NEW reason \in Reasons
  PROVE  /\ Span(t, start, len, reason) \in Item /\ Span(t, start, len, reason) \in Event
         /\ reason = "audio" => Chunk(t, start, len) = Span(t, start, len, reason)
  BY DEF Span, Chunk, Item, Event

LEMMA EmittedSeconds ==
  ASSUME NEW t \in Tracks, NEW from \in Nat, NEW full \in Nat
  PROVE  LET es == [k \in 1 .. full |-> Chunk(t, from + (k - 1) * Second, Second)]
         IN  es \in Seq(Event) /\ Len(es) = full
<1> DEFINE es == [k \in 1 .. full |-> Chunk(t, from + (k - 1) * Second, Second)]
<1>1. ASSUME NEW k \in 1 .. full PROVE Chunk(t, from + (k - 1) * Second, Second) \in Event
  <2>1. Second \in Nat \ {0} /\ k - 1 \in Nat /\ "audio" \in Reasons
    BY CaptureAssumption DEF Reasons
  <2>2. from + (k - 1) * Second \in Nat
    BY <2>1
  <2> QED
    BY <2>1, <2>2, SpanItem
<1>2. es \in [1 .. full -> Event]
  BY <1>1
<1>3. es \in Seq(Event) /\ DOMAIN es = 1 .. full
  BY <1>2, SeqDef
<1>4. Len(es) = full
  <2> HIDE DEF es
  <2> QED BY <1>3, LenProperties
<1> QED
  BY <1>3, <1>4

(* RecordingChunkAccumulator.accept emits from the start of what it holds, in  *)
(* full seconds, and holds the rest.                                           *)
LEMMA AccumulateSound ==
  ASSUME NEW p \in Pipe, p.open, ~p.failed, NEW c \in Item, IsChunk(c),
         \A u \in Tracks \ {c.track} : Accumulated(p, u),
         p.ends[c.track] = c.start + c.len, NEW from \in Nat,
         \/ p.pending[c.track] = {} /\ from = c.start
         \/ \E q \in p.pending[c.track] : /\ p.pending[c.track] = {q} /\ from = q.start
                                          /\ q.start + q.len = c.start
  PROVE  LET r == Accumulate(p, c)
         IN  /\ PipeOK(r.p) /\ r.p.open /\ r.p.lost = p.lost /\ r.threw = FALSE
             /\ r.events \in Seq(Event)
             /\ Chain(r.events, [Emitted(p) EXCEPT ![c.track] = from], Emitted(r.p))
<1> DEFINE t == c.track
           total == c.start + c.len - from
           full == total \div Second
           rest == total - full * Second
           emitted == [k \in 1 .. full |-> Chunk(t, from + (k - 1) * Second, Second)]
           left == IF rest = 0 THEN {} ELSE {Chunk(t, from + full * Second, rest)}
           np == [p EXCEPT !.pending[t] = left]
<1>0. c.start \in Nat /\ c.len \in Nat \ {0} /\ t \in Tracks /\ c.reason = "audio"
  BY DEF Item, IsChunk
<1>1. from <= c.start /\ total \in Nat
  <2>1. \A q \in p.pending[t] : q.start \in Nat /\ q.len \in Nat
    BY <1>0 DEF Pipe, Item
  <2>2. from <= c.start
    BY <1>0, <2>1
  <2> QED
    BY <1>0, <2>2
<1>2. full \in Nat /\ full * Second \in Nat /\ full * Second <= total /\ rest \in Nat
      /\ Second \in Nat \ {0}
  <2>1. Second \in Nat \ {0}
    BY CaptureAssumption
  <2>2. full \in Nat /\ full * Second \in Nat /\ full * Second <= total
    BY <1>1, Seconds
  <2> QED
    BY <1>1, <2>1, <2>2
<1>4. emitted \in Seq(Event) /\ Len(emitted) = full
  <2> HIDE DEF full, t
  <2> QED
    BY <1>0, <1>2, EmittedSeconds
<1>3. Accumulate(p, c) = Result(np, emitted, FALSE)
  <2>1. CASE p.pending[t] = {}
    <3>1. ~\E q \in p.pending[t] : q.start + q.len = c.start
      BY <2>1
    <3>2. from = c.start /\ Flushed(p, t) = <<>>
      BY <2>1 DEF Flushed
    <3>3. <<>> \o emitted = emitted
      <4> HIDE DEF emitted
      <4> QED
        BY <1>4, ConcatEmptySeq
    <3> QED
      BY <3>1, <3>2, <3>3 DEF Accumulate
  <2>2. CASE p.pending[t] # {}
    <3>1. PICK q \in p.pending[t] : p.pending[t] = {q} /\ from = q.start
                                    /\ q.start + q.len = c.start
      BY <2>2
    <3>2. \E x \in p.pending[t] : x.start + x.len = c.start
      BY <3>1
    <3>3. (CHOOSE x \in p.pending[t] : TRUE).start = from
      BY <3>1
    <3>4. <<>> \o emitted = emitted
      <4> HIDE DEF emitted
      <4> QED
        BY <1>4, ConcatEmptySeq
    <3> QED
      BY <3>2, <3>3, <3>4 DEF Accumulate
  <2> QED
    BY <2>1, <2>2
<1> HIDE DEF full
<1>5. left \subseteq Item
  BY <1>0, <1>2 DEF Item, Chunk, Span, Reasons
<1>6. /\ np \in Pipe /\ np.open = p.open /\ np.failed = p.failed /\ np.lost = p.lost
      /\ np.ends = p.ends /\ np.pending[t] = left
      /\ \A u \in Tracks \ {t} : np.pending[u] = p.pending[u]
  <2> HIDE DEF left, t
  <2> QED
    BY <1>0, <1>5 DEF Pipe
<1>7. from + full * Second + rest = c.start + c.len
  BY <1>0, <1>1, <1>2
<1>8. PipeOK(np)
  <2>1. Accumulated(np, t)
    <3>1. CASE rest = 0
      BY <1>6, <3>1 DEF Accumulated
    <3>2. CASE rest # 0
      <4> DEFINE q == Chunk(t, from + full * Second, rest)
      <4>1. np.pending[t] = {q}
        BY <1>6, <3>2
      <4>2. q.track = t /\ q.reason = "audio" /\ q.start + q.len = np.ends[t]
        BY <1>6, <1>7 DEF Chunk, Span
      <4> HIDE DEF q, np
      <4> QED
        BY <4>1, <4>2 DEF Accumulated
    <3> QED
      BY <3>1, <3>2
  <2>2. \A u \in Tracks \ {t} : Accumulated(np, u)
    <3> HIDE DEF np
    <3> QED
      BY <1>6 DEF Accumulated
  <2>3. \A u \in Tracks : Accumulated(np, u)
    <3> HIDE DEF np
    <3> QED BY <2>1, <2>2
  <2> HIDE DEF np
  <2> QED
    BY <1>6, <2>3 DEF PipeOK
<1> DEFINE a == [Emitted(p) EXCEPT ![t] = from]
           g == [k \in 0 .. full |-> [a EXCEPT ![t] = from + k * Second]]
<1>9. Chain(emitted, a, Emitted(np))
  <2>1. Emitted(p) \in Fronts /\ a \in Fronts /\ a[t] = from
    BY <1>0, EmittedFront DEF Fronts
  <2>2. \A k \in 0 .. full : k * Second \in Nat
    BY <1>2
  <2>3. g \in [0 .. full -> Fronts]
    <3> HIDE DEF a
    <3> QED
      BY <1>0, <2>1, <2>2 DEF Fronts
  <2>4. g[0] = a
    <3>1. from + 0 * Second = from /\ 0 \in 0 .. full
      BY <1>2
    <3>2. [a EXCEPT ![t] = from] = a
      <4> HIDE DEF a, t
      <4> QED BY <2>1 DEF Fronts
    <3> HIDE DEF a, t
    <3> QED
      BY <3>1, <3>2
  <2>5. g[full] = Emitted(np)
    <3>1. \A u \in Tracks : Emitted(np)[u] = IF u = t THEN from + full * Second ELSE Emitted(p)[u]
      <4> SUFFICES ASSUME NEW u \in Tracks
                   PROVE Emitted(np)[u] = IF u = t THEN from + full * Second ELSE Emitted(p)[u]
        OBVIOUS
      <4>1. CASE u # t
        <5> HIDE DEF np
        <5> QED
          BY <1>6, <4>1 DEF Emitted
      <4>2. CASE u = t /\ rest = 0
        <5>1. np.pending[t] = {} /\ np.ends[t] = from + full * Second
          BY <1>0, <1>1, <1>2, <1>6, <1>7, <4>2
        <5> HIDE DEF np
        <5> QED
          BY <4>2, <5>1 DEF Emitted, FrontOf
      <4>3. CASE u = t /\ rest # 0
        <5> DEFINE q == Chunk(t, from + full * Second, rest)
        <5>1. np.pending[t] = {q} /\ q.start = from + full * Second
          BY <1>6, <4>3 DEF Chunk, Span
        <5> HIDE DEF q, np
        <5> QED
          BY <4>3, <5>1 DEF Emitted, FrontOf
      <4> QED
        BY <4>1, <4>2, <4>3
    <3>2. Emitted(np) \in Fronts
      <4> HIDE DEF np
      <4> QED BY <1>6, EmittedFront
    <3>3. g[full] = [a EXCEPT ![t] = from + full * Second]
      BY <1>2
    <3>4. \A u \in Tracks : g[full][u] = Emitted(np)[u]
      <4> HIDE DEF np, g
      <4> QED
        BY <2>1, <3>1, <3>3 DEF Fronts
    <3>5. g[full] \in Fronts
      <4> HIDE DEF g
      <4> QED BY <1>2, <2>3
    <3> HIDE DEF g, np
    <3> QED
      BY <3>2, <3>4, <3>5 DEF Fronts
  <2>6. ASSUME NEW k \in 1 .. full PROVE Extends(emitted[k], g[k - 1], g[k])
    <3>1. /\ k \in 0 .. full /\ k - 1 \in 0 .. full
          /\ from + (k - 1) * Second + Second = from + k * Second
          /\ (k - 1) * Second \in Nat
      BY <1>2
    <3>2. emitted[k] = Chunk(t, from + (k - 1) * Second, Second)
      OBVIOUS
    <3>3. g[k - 1] = [a EXCEPT ![t] = from + (k - 1) * Second]
          /\ g[k] = [a EXCEPT ![t] = from + k * Second]
      BY <3>1
    <3>4. t # "none"
      BY <1>0 DEF Tracks
    <3> HIDE DEF emitted, g, a, t
    <3>5. g[k - 1][t] = from + (k - 1) * Second
      BY <1>0, <2>1, <3>3 DEF Fronts
    <3>6. g[k] = [g[k - 1] EXCEPT ![t] = @ + Second]
      BY <1>0, <2>1, <3>1, <3>3, <3>5 DEF Fronts
    <3> QED
      BY <3>2, <3>4, <3>5, <3>6 DEF Extends, Chunk, Span
  <2>7. Traces(g, emitted, a, Emitted(np))
    <3> HIDE DEF g, emitted, a, np
    <3> QED
      BY <1>4, <2>3, <2>4, <2>5, <2>6 DEF Traces
  <2> QED
    BY <2>7 DEF Chain
<1> DEFINE r == Accumulate(p, c)
<1>10. r.p = np /\ r.events = emitted /\ r.threw = FALSE
  BY <1>3 DEF Result
<1> HIDE DEF np, emitted, r
<1>11. /\ PipeOK(r.p) /\ r.p.open /\ r.p.lost = p.lost /\ r.threw = FALSE
       /\ r.events \in Seq(Event) /\ Chain(r.events, a, Emitted(r.p))
  BY <1>4, <1>6, <1>8, <1>9, <1>10
<1> QED
  BY <1>11 DEF r

(* One interval after the front of its track. *)
LEMMA SpanChain ==
  ASSUME NEW a \in Fronts, NEW t \in Tracks, NEW n \in Nat, a[t] < n,
         NEW reason \in Reasons
  PROVE  LET e == Span(t, a[t], n - a[t], reason)
         IN  /\ e \in Event /\ <<e>> \in Seq(Event) /\ [a EXCEPT ![t] = n] \in Fronts
             /\ Chain(<<e>>, a, [a EXCEPT ![t] = n])
<1> DEFINE e == Span(t, a[t], n - a[t], reason)
           b == [a EXCEPT ![t] = n]
<1>1. a[t] \in Nat /\ n - a[t] \in Nat \ {0} /\ b \in Fronts
  BY DEF Fronts
<1>2. e \in Event /\ <<e>> \in Seq(Event)
  BY <1>1, SpanItem
<1>3. e.track = t /\ e.start = a[t] /\ e.len = n - a[t] /\ t # "none"
  BY DEF Span, Tracks
<1> HIDE DEF e
<1>4. b = [a EXCEPT ![t] = @ + e.len]
  <2>1. a[t] + e.len = n
    BY <1>1, <1>3
  <2> QED
    BY <2>1
<1>5. Extends(e, a, b)
  BY <1>3, <1>4 DEF Extends
<1>6. Chain(<<e>>, a, b)
  BY <1>1, <1>5, ChainOne
<1> QED
  BY <1>1, <1>2, <1>6 DEF e

(* The state after a step of the pipeline, and the events of the step. *)
Delivers(p, r) ==
  /\ r \in [p : Pipe, events : Seq(Event), threw : BOOLEAN] /\ PipeOK(r.p)
  /\ r.threw => r.events = <<>>
  /\ ~r.p.lost => ~p.lost /\ Chain(r.events, Emitted(p), Emitted(r.p))

LEMMA ResultDelivers ==
  ASSUME NEW p, NEW q, NEW events \in Seq(Event), PipeOK(q),
         ~q.lost => ~p.lost /\ Chain(events, Emitted(p), Emitted(q))
  PROVE  Delivers(p, Result(q, events, FALSE))
<1> DEFINE r == Result(q, events, FALSE)
<1>1. r.p = q /\ r.events = events /\ r.threw = FALSE
      /\ r \in [p : Pipe, events : Seq(Event), threw : BOOLEAN]
  BY DEF Result, PipeOK
<1> HIDE DEF r
<1>2. Delivers(p, r)
  BY <1>1 DEF Delivers
<1> QED
  BY <1>2 DEF r

LEMMA SamePipe ==
  ASSUME NEW p, PipeOK(p), NEW q \in Pipe, q.pending = p.pending, q.ends = p.ends,
         q.open \in {p.open, TRUE}, q.failed => ~q.open
  PROVE  PipeOK(q) /\ Emitted(q) = Emitted(p)
<1>1. Emitted(q) = Emitted(p)
  BY DEF Emitted
<1>2. \A t \in Tracks : Accumulated(q, t)
  BY DEF PipeOK, Accumulated
<1>3. ~q.open => \A t \in Tracks : q.pending[t] = {}
  BY DEF PipeOK
<1> QED
  BY <1>1, <1>2, <1>3 DEF PipeOK

LEMMA ThrewDelivers ==
  ASSUME NEW p, NEW q, NEW events \in Seq(Event), PipeOK(q),
         ~q.lost /\ events = <<>> => ~p.lost /\ Chain(<<>>, Emitted(p), Emitted(q))
  PROVE  /\ Delivers(p, Threw(q, events)) /\ Threw(q, events).threw = TRUE
         /\ Threw(q, events).p.open = q.open
<1> DEFINE n == [q EXCEPT !.lost = @ \/ events # <<>>]
           r == Threw(q, events)
<1>1. n \in Pipe /\ n.pending = q.pending /\ n.ends = q.ends /\ n.open = q.open
      /\ n.failed = q.failed /\ (n.lost <=> q.lost \/ events # <<>>)
  BY DEF PipeOK, Pipe
<1>2. r.p = n /\ r.events = <<>> /\ r.threw = TRUE
      /\ r \in [p : Pipe, events : Seq(Event), threw : BOOLEAN]
  <2>1. <<>> \in Seq(Event)
    OBVIOUS
  <2> QED
    BY <1>1, <2>1 DEF Threw, Result
<1> HIDE DEF n
<1>3. PipeOK(n) /\ Emitted(n) = Emitted(q)
  <2>1. q.failed => ~q.open
    BY DEF PipeOK
  <2> QED
    BY <1>1, <2>1, SamePipe
<1> HIDE DEF r
<1>4. Delivers(p, r) /\ r.threw = TRUE /\ r.p.open = q.open
  BY <1>1, <1>2, <1>3 DEF Delivers
<1> QED
  BY <1>4 DEF r

LEMMA WithOriginOK ==
  ASSUME NEW p, PipeOK(p), NEW at \in Nat
  PROVE  LET q == WithOrigin(p, at)
         IN  /\ PipeOK(q) /\ q.pending = p.pending /\ q.ends = p.ends /\ q.open = p.open
             /\ q.lost = p.lost /\ q.failed = p.failed /\ Emitted(q) = Emitted(p)
             /\ OriginOf(q) \in Nat
<1> DEFINE q == WithOrigin(p, at)
<1>1. /\ q \in Pipe /\ q.pending = p.pending /\ q.ends = p.ends /\ q.open = p.open
      /\ q.lost = p.lost /\ q.failed = p.failed /\ q.origin # {}
  BY DEF WithOrigin, PipeOK, Pipe
<1>2. q.origin \subseteq Nat
  BY <1>1 DEF Pipe
<1> HIDE DEF q
<1>3. OriginOf(q) \in Nat
  BY <1>1, <1>2 DEF OriginOf
<1>4. PipeOK(q) /\ Emitted(q) = Emitted(p)
  <2>1. p.failed => ~p.open
    BY DEF PipeOK
  <2> QED
    BY <1>1, <2>1, SamePipe
<1> QED
  BY <1>1, <1>3, <1>4 DEF q

(* RecordingChunkAccumulator.flush of one track. *)
LEMMA WithoutPendingOK ==
  ASSUME NEW p, PipeOK(p), NEW t \in Tracks
  PROVE  LET q == WithoutPending(p, t)
         IN  /\ PipeOK(q) /\ q.pending[t] = {} /\ q.ends = p.ends /\ q.open = p.open
             /\ q.lost = p.lost /\ q.failed = p.failed
             /\ Emitted(q) = [Emitted(p) EXCEPT ![t] = p.ends[t]]
             /\ \A u \in Tracks \ {t} : q.pending[u] = p.pending[u]
<1> DEFINE q == WithoutPending(p, t)
<1>1. /\ q \in Pipe /\ q.pending[t] = {} /\ q.ends = p.ends /\ q.open = p.open
      /\ q.lost = p.lost /\ q.failed = p.failed
      /\ \A u \in Tracks \ {t} : q.pending[u] = p.pending[u]
  BY DEF WithoutPending, PipeOK, Pipe
<1> HIDE DEF q
<1>2. PipeOK(q)
  BY <1>1 DEF PipeOK, Accumulated
<1>3. \A u \in Tracks : Emitted(q)[u] = IF u = t THEN p.ends[t] ELSE Emitted(p)[u]
  <2>1. Emitted(q)[t] = p.ends[t]
    BY <1>1 DEF Emitted, FrontOf
  <2>2. \A u \in Tracks \ {t} : Emitted(q)[u] = Emitted(p)[u]
    BY <1>1 DEF Emitted
  <2> QED
    BY <2>1, <2>2
<1>4. Emitted(q) \in Fronts /\ Emitted(p) \in Fronts
  BY <1>1, EmittedFront DEF PipeOK
<1>5. Emitted(q) = [Emitted(p) EXCEPT ![t] = p.ends[t]]
  BY <1>3, <1>4 DEF Fronts
<1> QED
  BY <1>1, <1>2, <1>5 DEF q

(* RecordingTimelineAssembler.accept(chunk), with the accumulator. *)
LEMMA ProcessChunkSound ==
  ASSUME NEW p0, PipeOK(p0), p0.open, NEW c \in Item, IsChunk(c)
  PROVE  Delivers(p0, ProcessChunk(p0, c)) /\ ProcessChunk(p0, c).p.open
<1> DEFINE p == WithOrigin(p0, c.start)
           t == c.track
           expected == p.ends[t]
           at == c.start - OriginOf(p)
           placed == Chunk(t, at, c.len)
           moved == [p EXCEPT !.ends[t] = at + c.len]
<1>1. c.start \in Nat /\ c.len \in Nat \ {0} /\ t \in Tracks /\ c.reason = "audio"
  BY DEF Item, IsChunk
<1>2. /\ PipeOK(p) /\ p.pending = p0.pending /\ p.ends = p0.ends /\ p.open /\ ~p.failed
      /\ p.lost = p0.lost /\ Emitted(p) = Emitted(p0) /\ OriginOf(p) \in Nat
  <2>1. p0.failed => ~p0.open
    BY DEF PipeOK
  <2>2. /\ PipeOK(p) /\ p.pending = p0.pending /\ p.ends = p0.ends /\ p.open = p0.open
        /\ p.lost = p0.lost /\ p.failed = p0.failed /\ Emitted(p) = Emitted(p0)
        /\ OriginOf(p) \in Nat
    BY <1>1, WithOriginOK
  <2> HIDE DEF p
  <2> QED
    BY <2>1, <2>2
<1> HIDE DEF p
<1>3. p \in Pipe /\ Emitted(p) \in Fronts /\ expected \in Nat /\ p.lost \in BOOLEAN
      /\ Accumulated(p, t) /\ p.pending[t] \subseteq Item
  BY <1>1, <1>2, EmittedFront DEF PipeOK, Pipe
<1>4. CASE c.start < OriginOf(p) \/ at < expected
  <2>1. ProcessChunk(p0, c) = Threw(p, <<>>)
    BY <1>4 DEF ProcessChunk, p
  <2>2. Chain(<<>>, Emitted(p0), Emitted(p))
    BY <1>2, <1>3, ChainEmpty
  <2>3. <<>> \in Seq(Event)
    OBVIOUS
  <2>4. ~p.lost /\ <<>> = <<>> => ~p0.lost /\ Chain(<<>>, Emitted(p0), Emitted(p))
    BY <1>2, <2>2
  <2>5. Delivers(p0, Threw(p, <<>>)) /\ Threw(p, <<>>).p.open = p.open
    BY <1>2, <2>3, <2>4, ThrewDelivers, ZenonT(30)
  <2> QED
    BY <1>2, <2>1, <2>5
<1>5. CASE ~(c.start < OriginOf(p) \/ at < expected)
  <2>1. at \in Nat /\ at >= expected
    BY <1>1, <1>2, <1>3, <1>5
  <2> HIDE DEF at
  <2>2. placed \in Item /\ IsChunk(placed) /\ placed.track = t /\ placed.start = at
        /\ placed.len = c.len
    <3>1. placed \in Item
      BY <1>1, <2>1, SpanItem DEF Reasons
    <3> QED
      BY <3>1 DEF Chunk, Span, IsChunk
  <2> HIDE DEF placed
  <2>3. /\ moved \in Pipe /\ moved.pending = p.pending /\ moved.open /\ ~moved.failed
        /\ moved.lost = p.lost /\ moved.ends[t] = at + c.len
        /\ \A u \in Tracks \ {t} : moved.ends[u] = p.ends[u]
    <3>1. at + c.len \in Nat
      BY <1>1, <2>1
    <3> HIDE DEF t
    <3>2. /\ moved \in Pipe /\ moved.pending = p.pending /\ moved.open = p.open
          /\ moved.failed = p.failed /\ moved.lost = p.lost /\ moved.ends[t] = at + c.len
          /\ \A u \in Tracks \ {t} : moved.ends[u] = p.ends[u]
      BY <1>1, <1>3, <3>1 DEF Pipe
    <3> HIDE DEF moved
    <3> QED
      BY <1>2, <3>2
  <2>4. \A u \in Tracks \ {t} : Accumulated(moved, u)
    <3> HIDE DEF moved
    <3> QED
      BY <1>2, <2>3 DEF Accumulated, PipeOK
  <2>5. CASE at = expected
    <3> DEFINE from == Emitted(p)[t]
               r == Accumulate(moved, placed)
    <3>1. from \in Nat
      BY <1>1, <1>3 DEF Fronts
    <3>2. ProcessChunk(p0, c) = r
      BY <1>5, <2>5 DEF ProcessChunk, p, at, placed
    <3>3. \/ p.pending[t] = {} /\ from = at
          \/ \E q \in p.pending[t] : p.pending[t] = {q} /\ from = q.start /\ q.start + q.len = at
      BY <1>1, <1>3, <2>5 DEF Emitted, FrontOf, Accumulated
    <3> HIDE DEF moved, from
    <3>4. /\ PipeOK(r.p) /\ r.p.open /\ r.p.lost = moved.lost /\ r.threw = FALSE
          /\ r.events \in Seq(Event)
          /\ Chain(r.events, [Emitted(moved) EXCEPT ![t] = from], Emitted(r.p))
      <4>1. /\ \A u \in Tracks \ {placed.track} : Accumulated(moved, u)
            /\ moved.ends[placed.track] = placed.start + placed.len
            /\ \/ moved.pending[placed.track] = {} /\ from = placed.start
               \/ \E q \in moved.pending[placed.track] :
                    /\ moved.pending[placed.track] = {q} /\ from = q.start
                    /\ q.start + q.len = placed.start
        BY <2>2, <2>3, <2>4, <3>3
      <4>2. /\ PipeOK(r.p) /\ r.p.open /\ r.p.lost = moved.lost /\ r.threw = FALSE
            /\ r.events \in Seq(Event)
            /\ Chain(r.events, [Emitted(moved) EXCEPT ![placed.track] = from], Emitted(r.p))
        BY <2>2, <2>3, <3>1, <4>1, AccumulateSound
      <4> QED
        BY <2>2, <4>2
    <3>5. [Emitted(moved) EXCEPT ![t] = from] = Emitted(p)
      <4>1. Emitted(moved) \in Fronts
        BY <2>3, EmittedFront
      <4>2. \A u \in Tracks \ {t} : Emitted(moved)[u] = Emitted(p)[u]
        BY <2>3 DEF Emitted
      <4> QED
        BY <1>3, <4>1, <4>2 DEF Fronts, from
    <3>6. r = Result(r.p, r.events, FALSE)
      BY <3>4 DEF Accumulate, Result
    <3> HIDE DEF r
    <3>7. Delivers(p0, Result(r.p, r.events, FALSE))
      BY <1>2, <2>3, <3>4, <3>5, ResultDelivers
    <3> QED
      BY <3>2, <3>4, <3>6, <3>7
  <2>6. CASE at # expected
    <3> DEFINE fl == Flushed(moved, t)
               gap == Span(t, expected, at - expected, "source_discontinuity")
               wp == WithoutPending(moved, t)
               r == Accumulate(wp, placed)
               b == [Emitted(p) EXCEPT ![t] = expected]
               d == [b EXCEPT ![t] = at]
    <3>1. ProcessChunk(p0, c) = After(Append(fl, gap), r)
      BY <1>5, <2>6 DEF ProcessChunk, p, at, placed
    <3>2. fl = Flushed(p, t)
      BY <2>3 DEF Flushed
    <3>3. fl \in Seq(Event) /\ Chain(fl, Emitted(p), b)
      BY <1>1, <1>3, <3>2, FlushedIs
    <3>4. b \in Fronts /\ b[t] = expected
      BY <1>1, <1>3 DEF Fronts
    <3>5. gap \in Event /\ <<gap>> \in Seq(Event) /\ d \in Fronts /\ Chain(<<gap>>, b, d)
      <4>1. expected < at /\ "source_discontinuity" \in Reasons
        BY <1>3, <2>1, <2>6 DEF Reasons
      <4> HIDE DEF b, expected
      <4> QED
        BY <1>1, <2>1, <3>4, <4>1, SpanChain
    <3> HIDE DEF moved, gap, fl
    <3>6. Append(fl, gap) = fl \o <<gap>> /\ Append(fl, gap) \in Seq(Event)
      BY <3>3, <3>5
    <3>7. Chain(Append(fl, gap), Emitted(p), d)
      BY <3>3, <3>5, <3>6, ChainConcat, ZenonT(30)
    <3>8. /\ wp \in Pipe /\ wp.pending[t] = {} /\ wp.ends = moved.ends /\ wp.open /\ ~wp.failed
          /\ wp.lost = moved.lost
          /\ \A u \in Tracks \ {t} : wp.pending[u] = moved.pending[u]
      BY <1>1, <2>3 DEF WithoutPending, Pipe
    <3> HIDE DEF wp
    <3>9. \A u \in Tracks \ {t} : Accumulated(wp, u)
      BY <2>4, <3>8 DEF Accumulated
    <3>10. /\ PipeOK(r.p) /\ r.p.open /\ r.p.lost = wp.lost /\ r.threw = FALSE
           /\ r.events \in Seq(Event)
           /\ Chain(r.events, [Emitted(wp) EXCEPT ![t] = at], Emitted(r.p))
      <4>1. /\ \A u \in Tracks \ {placed.track} : Accumulated(wp, u)
            /\ wp.ends[placed.track] = placed.start + placed.len
            /\ wp.pending[placed.track] = {} /\ at = placed.start
        BY <2>2, <2>3, <3>8, <3>9
      <4>2. /\ PipeOK(r.p) /\ r.p.open /\ r.p.lost = wp.lost /\ r.threw = FALSE
            /\ r.events \in Seq(Event)
            /\ Chain(r.events, [Emitted(wp) EXCEPT ![placed.track] = at], Emitted(r.p))
        BY <2>1, <2>2, <3>8, <4>1, AccumulateSound
      <4> QED
        BY <2>2, <4>2
    <3>11. [Emitted(wp) EXCEPT ![t] = at] = d
      <4>1. Emitted(wp) \in Fronts
        BY <3>8, EmittedFront
      <4>2. \A u \in Tracks \ {t} : Emitted(wp)[u] = Emitted(p)[u]
        BY <2>3, <3>8 DEF Emitted
      <4> QED
        BY <1>3, <4>1, <4>2 DEF Fronts
    <3> DEFINE es == Append(fl, gap) \o r.events
    <3>12. After(Append(fl, gap), r) = Result(r.p, es, FALSE)
      BY <3>10 DEF After
    <3> HIDE DEF r, d
    <3>13. es \in Seq(Event) /\ Chain(es, Emitted(p), Emitted(r.p))
      BY <3>6, <3>7, <3>10, <3>11, ChainConcat, ConcatProperties
    <3> HIDE DEF es
    <3>14. Delivers(p0, Result(r.p, es, FALSE))
      BY <1>2, <2>3, <3>8, <3>10, <3>13, ResultDelivers
    <3>15. Result(r.p, es, FALSE).p = r.p
      BY DEF Result
    <3> QED
      BY <3>1, <3>10, <3>12, <3>14, <3>15
  <2> QED
    BY <2>5, <2>6
<1> QED
  BY <1>4, <1>5

(* RecordingTimelineAssembler.accept(droppedSourceInterval:) after the flush. *)
LEMMA ProcessIntervalSound ==
  ASSUME NEW p0, PipeOK(p0), p0.open, NEW c \in Item, NEW reason \in Reasons
  PROVE  /\ Delivers(p0, ProcessInterval(p0, c, reason))
         /\ ProcessInterval(p0, c, reason).p.open
<1> DEFINE t == c.track
           fl == Flushed(p0, t)
           wp == WithoutPending(p0, t)
           p == WithOrigin(wp, c.start)
           expected == p.ends[t]
           from == c.start - OriginOf(p)
           to == from + c.len
           begin == IF expected > from THEN expected ELSE from
           res == ProcessInterval(p0, c, reason)
<1>1. c.start \in Nat /\ c.len \in Nat \ {0} /\ t \in Tracks
  BY DEF Item
<1>2. p0 \in Pipe /\ Accumulated(p0, t) /\ Emitted(p0) \in Fronts
  BY <1>1, EmittedFront DEF PipeOK
<1> HIDE DEF t
<1>3. /\ PipeOK(wp) /\ wp.pending[t] = {} /\ wp.ends = p0.ends /\ wp.open = p0.open
      /\ wp.lost = p0.lost /\ wp.failed = p0.failed
      /\ Emitted(wp) = [Emitted(p0) EXCEPT ![t] = p0.ends[t]]
  BY <1>1, WithoutPendingOK
<1>4. /\ PipeOK(p) /\ p.pending = wp.pending /\ p.ends = wp.ends /\ p.open = wp.open
      /\ p.lost = wp.lost /\ p.failed = wp.failed /\ Emitted(p) = Emitted(wp)
      /\ OriginOf(p) \in Nat
  <2> HIDE DEF wp
  <2> QED
    BY <1>1, <1>3, WithOriginOK
<1>5. /\ fl \in Seq(Event) /\ (fl = <<>> <=> p0.pending[t] = {})
      /\ Chain(fl, Emitted(p0), Emitted(p))
  <2> HIDE DEF p, wp
  <2>1. /\ fl \in Seq(Event) /\ (fl = <<>> <=> p0.pending[t] = {})
        /\ Chain(fl, Emitted(p0), [Emitted(p0) EXCEPT ![t] = p0.ends[t]])
    BY <1>1, <1>2, FlushedIs
  <2>2. Emitted(p) = [Emitted(p0) EXCEPT ![t] = p0.ends[t]]
    BY <1>3, <1>4
  <2> QED
    BY <2>1, <2>2
<1>6. p \in Pipe /\ expected \in Nat /\ p.lost \in BOOLEAN /\ Emitted(p) \in Fronts
      /\ Emitted(p)[t] = expected /\ p.open /\ ~p.failed /\ p.lost = p0.lost
  <2>1. p \in Pipe
    BY <1>4 DEF PipeOK
  <2>2. ~p0.failed
    BY DEF PipeOK
  <2> HIDE DEF p, wp
  <2>3. expected \in Nat /\ p.lost \in BOOLEAN /\ Emitted(p) \in Fronts
    BY <1>1, <2>1, EmittedFront DEF Pipe
  <2>4. Emitted(p)[t] = expected
    BY <1>1, <1>2, <1>3, <1>4 DEF Fronts
  <2> QED
    BY <1>3, <1>4, <2>1, <2>2, <2>3, <2>4
<1>7. res = IF c.start < OriginOf(p) THEN Threw(p, fl)
            ELSE IF to <= expected THEN Result(p, fl, FALSE)
            ELSE Result([p EXCEPT !.ends[t] = to],
                        fl \o (IF expected < from
                               THEN <<Span(t, expected, from - expected,
                                            "source_discontinuity")>>
                               ELSE <<>>)
                           \o <<Span(t, begin, to - begin, reason)>>, FALSE)
  BY DEF ProcessInterval, t
<1> HIDE DEF p, wp, fl, res, expected
<1>8. CASE c.start < OriginOf(p)
  <2>1. ~p.lost /\ fl = <<>> => ~p0.lost /\ Chain(<<>>, Emitted(p0), Emitted(p))
    BY <1>5, <1>6
  <2>2. Delivers(p0, Threw(p, fl)) /\ Threw(p, fl).p.open = p.open
    BY <1>4, <1>5, <2>1, ThrewDelivers, ZenonT(30)
  <2>3. Delivers(p0, res) /\ res.p.open
    BY <1>6, <1>7, <1>8, <2>2
  <2> QED
    BY <2>3 DEF res
<1>9. CASE ~(c.start < OriginOf(p)) /\ to <= expected
  <2>1. Delivers(p0, Result(p, fl, FALSE))
    BY <1>4, <1>5, <1>6, ResultDelivers
  <2>2. Result(p, fl, FALSE).p.open
    BY <1>6 DEF Result
  <2>3. Delivers(p0, res) /\ res.p.open
    BY <1>7, <1>9, <2>1, <2>2
  <2> QED
    BY <2>3 DEF res
<1>10. CASE ~(c.start < OriginOf(p)) /\ ~(to <= expected)
  <2> DEFINE disc == IF expected < from
                     THEN <<Span(t, expected, from - expected, "source_discontinuity")>>
                     ELSE <<>>
             last == <<Span(t, begin, to - begin, reason)>>
             np == [p EXCEPT !.ends[t] = to]
             b == [Emitted(p) EXCEPT ![t] = begin]
             d == [b EXCEPT ![t] = to]
  <2>1. from \in Nat /\ to \in Nat /\ begin \in Nat /\ begin < to /\ expected <= begin
    BY <1>1, <1>4, <1>6, <1>10
  <2>2. b \in Fronts /\ b[t] = begin
    <3> HIDE DEF begin
    <3> QED
      BY <1>1, <1>6, <2>1 DEF Fronts
  <2>3. disc \in Seq(Event) /\ Chain(disc, Emitted(p), b)
    <3>1. CASE expected < from
      <4>1. begin = from /\ disc = <<Span(t, expected, from - expected, "source_discontinuity")>>
        BY <1>6, <2>1, <3>1
      <4>2. "source_discontinuity" \in Reasons
        BY DEF Reasons
      <4> HIDE DEF from, disc
      <4>3. disc \in Seq(Event) /\ Chain(disc, Emitted(p), [Emitted(p) EXCEPT ![t] = from])
        BY <1>1, <1>6, <2>1, <3>1, <4>1, <4>2, SpanChain
      <4> QED
        BY <4>1, <4>3
    <3>2. CASE ~(expected < from)
      <4>1. begin = expected /\ disc = <<>>
        BY <1>6, <2>1, <3>2
      <4>2. b = Emitted(p)
        <5> HIDE DEF begin
        <5> QED BY <1>6, <4>1 DEF Fronts
      <4>3. <<>> \in Seq(Event)
        OBVIOUS
      <4> HIDE DEF b, disc
      <4> QED
        BY <1>6, <4>1, <4>2, <4>3, ChainEmpty
    <3> QED
      BY <3>1, <3>2
  <2>4. last \in Seq(Event) /\ Chain(last, b, d)
    <3> HIDE DEF b, begin, to
    <3> QED
      BY <1>1, <2>1, <2>2, SpanChain
  <2> HIDE DEF disc, last, b, begin, to
  <2>5. fl \o disc \in Seq(Event) /\ Chain(fl \o disc, Emitted(p0), b)
    BY <1>5, <2>3, ChainConcat, ConcatProperties
  <2> DEFINE es == (fl \o disc) \o last
  <2>6. es \in Seq(Event) /\ Chain(es, Emitted(p0), d)
    BY <2>4, <2>5, ChainConcat, ConcatProperties
  <2>7. /\ np \in Pipe /\ np.pending = p.pending /\ np.open = p.open /\ np.failed = p.failed
        /\ np.lost = p.lost /\ np.ends[t] = to
        /\ \A u \in Tracks \ {t} : np.ends[u] = p.ends[u]
    BY <1>1, <1>6, <2>1 DEF Pipe
  <2> HIDE DEF np
  <2>8. PipeOK(np)
    <3>1. np.pending[t] = {}
      BY <1>3, <1>4, <2>7
    <3>2. \A u \in Tracks : Accumulated(np, u)
      <4>1. Accumulated(np, t)
        BY <3>1 DEF Accumulated
      <4>2. \A u \in Tracks \ {t} : Accumulated(np, u)
        BY <1>4, <2>7 DEF PipeOK, Accumulated
      <4> QED
        BY <4>1, <4>2
    <3> QED
      BY <1>6, <2>7, <3>2 DEF PipeOK
  <2>9. Emitted(np) = d
    <3>1. Emitted(np) \in Fronts
      BY <2>7, EmittedFront
    <3>2. Emitted(np)[t] = to
      BY <1>1, <1>3, <1>4, <2>7 DEF Emitted, FrontOf
    <3>3. \A u \in Tracks \ {t} : Emitted(np)[u] = Emitted(p)[u]
      BY <2>7 DEF Emitted
    <3>4. d \in Fronts /\ d[t] = to /\ \A u \in Tracks \ {t} : d[u] = Emitted(p)[u]
      BY <1>1, <1>6, <2>1, <2>2 DEF Fronts, b
    <3> HIDE DEF d
    <3> QED
      BY <3>1, <3>2, <3>3, <3>4 DEF Fronts
  <2> HIDE DEF es, d
  <2>10. Delivers(p0, Result(np, es, FALSE))
    BY <1>6, <2>6, <2>7, <2>8, <2>9, ResultDelivers
  <2>11. Result(np, es, FALSE).p.open
    BY <1>6, <2>7 DEF Result
  <2>12. res = Result(np, es, FALSE)
    BY <1>7, <1>10 DEF np, es, disc, last, begin, to
  <2>13. Delivers(p0, res) /\ res.p.open
    BY <2>10, <2>11, <2>12
  <2> QED
    BY <2>13 DEF res
<1> QED
  BY <1>8, <1>9, <1>10

LEMMA NoticeChain ==
  ASSUME NEW what \in Notices, NEW a \in Fronts
  PROVE  /\ Failure(what) \in Event /\ <<Failure(what)>> \in Seq(Event)
         /\ Chain(<<Failure(what)>>, a, a)
<1>1. Failure(what) \in Event
  BY DEF Failure, Span, Event, Notice
<1>2. Extends(Failure(what), a, a)
  BY DEF Failure, Span, Extends
<1>3. Chain(<<Failure(what)>>, a, a)
  BY <1>2, ChainOne
<1> QED
  BY <1>1, <1>3

(* RecordingCapturePipeline.process *)
LEMMA ProcessInputSound ==
  ASSUME NEW p, PipeOK(p), p.open, NEW item \in Item
  PROVE  Delivers(p, ProcessInput(p, item)) /\ ProcessInput(p, item).p.open
<1>1. CASE IsChunk(item)
  <2>1. ProcessInput(p, item) = ProcessChunk(p, item)
    BY <1>1 DEF ProcessInput
  <2> QED
    BY <1>1, <2>1, ProcessChunkSound
<1>2. CASE ~IsChunk(item)
  <2> DEFINE r == ProcessInterval(p, item, item.reason)
             n == [r EXCEPT !.events = Append(@, Failure("conversion"))]
  <2>1. Delivers(p, r) /\ r.p.open
    BY ProcessIntervalSound DEF Item
  <2>2. ProcessInput(p, item) = IF item.reason = "missing_audio" /\ ~r.threw THEN n ELSE r
    BY <1>2 DEF ProcessInput
  <2> HIDE DEF r
  <2>3. CASE item.reason = "missing_audio" /\ ~r.threw
    <3>1. r.events \in Seq(Event) /\ r.p \in Pipe /\ PipeOK(r.p) /\ r.threw = FALSE
          /\ Emitted(r.p) \in Fronts
      BY <2>1, <2>3, EmittedFront DEF Delivers
    <3> DEFINE f == Failure("conversion")
    <3>2. f \in Event /\ <<f>> \in Seq(Event) /\ Chain(<<f>>, Emitted(r.p), Emitted(r.p))
      BY <3>1, NoticeChain DEF Notices
    <3> HIDE DEF f
    <3>3. Append(r.events, f) = r.events \o <<f>> /\ Append(r.events, f) \in Seq(Event)
      BY <3>1, <3>2
    <3>4. ~r.p.lost => ~p.lost /\ Chain(Append(r.events, f), Emitted(p), Emitted(r.p))
      BY <2>1, <3>1, <3>2, <3>3, ChainConcat DEF Delivers
    <3>5. Delivers(p, Result(r.p, Append(r.events, f), FALSE))
      BY <3>1, <3>3, <3>4, ResultDelivers
    <3>6. n = Result(r.p, Append(r.events, f), FALSE)
      <4>1. r \in [p : Pipe, events : Seq(Event), threw : BOOLEAN]
        BY <2>1 DEF Delivers
      <4>2. n = [p |-> r.p, events |-> Append(r.events, f), threw |-> r.threw]
        BY <4>1, SMTT(30) DEF f
      <4> HIDE DEF n
      <4> QED
        BY <3>1, <4>2 DEF Result
    <3>7. n.p = r.p
      BY <3>6 DEF Result
    <3> HIDE DEF n
    <3> QED
      BY <2>1, <2>2, <2>3, <3>5, <3>6, <3>7
  <2>4. CASE ~(item.reason = "missing_audio" /\ ~r.threw)
    <3>1. ProcessInput(p, item) = r
      BY <2>2, <2>4
    <3> QED
      BY <2>1, <3>1
  <2> QED
    BY <2>3, <2>4
<1> QED
  BY <1>1, <1>2

(* The replay of the startup inputs, and the events it collects. *)
Collects(p) ==
  {r \in [p : Pipe, events : Seq(Event), threw : BOOLEAN] :
     /\ PipeOK(r.p) /\ r.p.open
     /\ ~r.p.lost => ~p.lost /\ Chain(r.events, Emitted(p), Emitted(r.p))}

ReplayStep(acc, x) ==
  IF acc.threw THEN acc ELSE After(acc.events, ProcessInput(acc.p, x[2]))

LEMMA ReplayStepCollects ==
  ASSUME NEW p, NEW acc \in Collects(p), NEW x \in Nat \X Item
  PROVE  ReplayStep(acc, x) \in Collects(p)
<1>1. CASE acc.threw
  BY <1>1 DEF ReplayStep
<1>2. CASE ~acc.threw
  <2> DEFINE r == ProcessInput(acc.p, x[2])
             es == acc.events \o r.events
  <2>1. /\ acc.events \in Seq(Event) /\ PipeOK(acc.p) /\ acc.p.open
        /\ ~acc.p.lost => ~p.lost /\ Chain(acc.events, Emitted(p), Emitted(acc.p))
    BY DEF Collects
  <2>2. x[2] \in Item
    OBVIOUS
  <2>3. Delivers(acc.p, r) /\ r.p.open
    BY <2>1, <2>2, ProcessInputSound
  <2> HIDE DEF r
  <2>4. /\ r.p \in Pipe /\ r.events \in Seq(Event) /\ r.threw \in BOOLEAN /\ PipeOK(r.p)
        /\ ~r.p.lost => ~acc.p.lost /\ Chain(r.events, Emitted(acc.p), Emitted(r.p))
    BY <2>3 DEF Delivers
  <2>5. es \in Seq(Event)
    BY <2>1, <2>4, ConcatProperties
  <2>6. ASSUME ~r.p.lost PROVE ~p.lost /\ Chain(es, Emitted(p), Emitted(r.p))
    BY <2>1, <2>4, <2>6, ChainConcat
  <2> DEFINE n == [p |-> r.p, events |-> es, threw |-> r.threw]
  <2>7. ReplayStep(acc, x) = n
    BY <1>2 DEF ReplayStep, After, Result, r
  <2> HIDE DEF es
  <2>8. /\ n \in [p : Pipe, events : Seq(Event), threw : BOOLEAN]
        /\ n.p = r.p /\ n.events = es
    BY <2>4, <2>5
  <2> HIDE DEF n
  <2>9. n \in Collects(p)
    BY <2>3, <2>4, <2>6, <2>8 DEF Collects
  <2> QED
    BY <2>7, <2>9
<1> QED
  BY <1>1, <1>2

LEMMA ReplaySound ==
  ASSUME NEW p, PipeOK(p), ~p.open, ~p.failed
  PROVE  Delivers(p, Replay(p))
<1> DEFINE before(x, y) == \/ x[2].start < y[2].start
                           \/ (x[2].start = y[2].start /\ x[1] < y[1])
           numbered == {<<k, p.inputs[k]>> : k \in 1 .. Len(p.inputs)}
           ordered == InOrder(numbered, before)
           p1 == [p EXCEPT !.open = TRUE, !.inputs = <<>>]
           base == Result(p1, <<>>, FALSE)
           B(g) == [s \in SUBSET DOMAIN ordered |->
                      IF s = {} THEN base
                      ELSE ReplayStep(g[s \ {Max(s)}], ordered[Max(s)])]
           it == CHOOSE g : g = B(g)
           r == it[DOMAIN ordered]
           n == Len(ordered)
           F == [k \in 1 .. n |-> [a \in Collects(p) |-> ReplayStep(a, ordered[k])]]
<1>1. Replay(p) = IF r.threw THEN Threw(r.p, r.events) ELSE r
  BY DEF Replay, FoldLeft, MapThenFoldSet, ReplayStep
<1>2. p \in Pipe /\ p.inputs \in Seq(Item)
  BY DEF PipeOK, Pipe
<1>3. ordered \in Seq(Nat \X Item)
  BY <1>2, InputsInOrder
<1>4. base \in Collects(p)
  <2>1. p1 \in Pipe /\ p1.pending = p.pending /\ p1.ends = p.ends /\ p1.open = TRUE
        /\ p1.failed = p.failed /\ p1.lost = p.lost
    <3>1. <<>> \in Seq(Item)
      OBVIOUS
    <3> QED
      BY <1>2, <3>1 DEF Pipe
  <2> HIDE DEF p1
  <2>2. PipeOK(p1) /\ Emitted(p1) = Emitted(p)
    BY <2>1, SamePipe
  <2>3. Chain(<<>>, Emitted(p), Emitted(p1))
    BY <1>2, <2>2, EmittedFront, ChainEmpty
  <2>4. base \in [p : Pipe, events : Seq(Event), threw : BOOLEAN] /\ base.p = p1
        /\ base.events = <<>>
    BY <2>1 DEF Result
  <2> HIDE DEF base
  <2> QED
    BY <2>1, <2>2, <2>3, <2>4 DEF Collects
<1> HIDE DEF ordered, base
<1>5. n \in Nat /\ DOMAIN ordered = 1 .. n /\ \A k \in 1 .. n : ordered[k] \in Nat \X Item
  BY <1>3, LenProperties
<1>6. F \in [1 .. n -> [Collects(p) -> Collects(p)]]
  BY <1>5, ReplayStepCollects
<1> HIDE DEF n
<1>7. PICK g : Tabulates(g, F, base, Collects(p), n)
  <2> HIDE DEF F
  <2> QED
    BY <1>4, <1>5, <1>6, TableExists
<1>8. g = B(g)
  <2>1. ASSUME NEW s \in SUBSET (1 .. n)
        PROVE g[s] = IF s = {} THEN base ELSE ReplayStep(g[s \ {Max(s)}], ordered[Max(s)])
    <3>1. g[s] = IF s = {} THEN base ELSE F[Max(s)][g[s \ {Max(s)}]]
      BY <1>7 DEF Tabulates
    <3>2. ASSUME s # {}
          PROVE F[Max(s)][g[s \ {Max(s)}]] = ReplayStep(g[s \ {Max(s)}], ordered[Max(s)])
      <4>1. Max(s) \in 1 .. n /\ s \ {Max(s)} \in SUBSET (1 .. n)
        BY <1>5, <3>2, MaxIn
      <4>2. g[s \ {Max(s)}] \in Collects(p)
        BY <1>7, <4>1 DEF Tabulates
      <4> QED
        BY <4>1, <4>2
    <3> QED
      BY <3>1, <3>2
  <2>2. g \in [SUBSET (1 .. n) -> Collects(p)]
    BY <1>7 DEF Tabulates
  <2>3. g = [s \in SUBSET (1 .. n) |-> g[s]]
    BY <2>2
  <2> QED
    BY <1>5, <2>1, <2>3
<1>9. it = B(it)
  <2> HIDE DEF B
  <2> QED BY <1>8
<1> HIDE DEF it
<1>10. \A s \in SUBSET (1 .. n) :
         it[s] = IF s = {} THEN base ELSE ReplayStep(it[s \ {Max(s)}], ordered[Max(s)])
  BY <1>5, <1>9
<1>11. r \in Collects(p)
  <2> DEFINE G == [k \in 0 .. n |-> Collects(p)]
  <2>1. it[{}] \in G[0]
    <3>1. it[{}] = base
      BY <1>10
    <3> QED
      BY <1>4, <1>5, <3>1
  <2>2. ASSUME NEW k \in 1 .. n, it[(1 .. k) \ {k}] \in G[k - 1] PROVE it[1 .. k] \in G[k]
    <3>1. 1 .. k \in SUBSET (1 .. n) /\ k \in 1 .. k /\ k \in Nat
      BY <1>5
    <3>2. Max(1 .. k) = k
      BY <3>1, MaxOf
    <3>3. it[1 .. k] = ReplayStep(it[(1 .. k) \ {k}], ordered[k])
      BY <1>10, <3>1, <3>2
    <3>4. it[(1 .. k) \ {k}] \in Collects(p)
      BY <2>2, <1>5
    <3>5. it[1 .. k] \in Collects(p)
      BY <1>5, <3>3, <3>4, ReplayStepCollects
    <3> QED
      BY <1>5, <3>5
  <2>3. it[1 .. n] \in G[n]
    <3> HIDE DEF G
    <3> QED
      BY <1>5, <2>1, <2>2, TableLeads
  <2> QED
    BY <1>5, <2>3
<1> HIDE DEF r
<1>12. /\ r.events \in Seq(Event) /\ PipeOK(r.p) /\ r.threw \in BOOLEAN
       /\ r \in [p : Pipe, events : Seq(Event), threw : BOOLEAN]
       /\ ~r.p.lost => ~p.lost /\ Chain(r.events, Emitted(p), Emitted(r.p))
  BY <1>11 DEF Collects
<1>13. CASE r.threw
  <2>1. ~r.p.lost /\ r.events = <<>> => ~p.lost /\ Chain(<<>>, Emitted(p), Emitted(r.p))
    BY <1>12
  <2>2. Delivers(p, Threw(r.p, r.events))
    BY <1>12, <2>1, ThrewDelivers
  <2> QED
    BY <1>1, <1>13, <2>2
<1>14. CASE ~r.threw
  <2>1. Delivers(p, r)
    BY <1>12, <1>14 DEF Delivers
  <2> QED
    BY <1>1, <1>14, <2>1
<1> QED
  BY <1>13, <1>14

(* RecordingCapturePipeline.gated *)
LEMMA FailStartupDelivers ==
  ASSUME NEW p, PipeOK(p), ~p.open
  PROVE  Delivers(p, Result(FailStartup(p), <<Failure("required_tracks")>>, FALSE))
<1> DEFINE q == FailStartup(p)
<1>1. p \in Pipe /\ <<>> \in Seq(Item)
  BY DEF PipeOK
<1>2. q \in Pipe /\ q.pending = p.pending /\ q.ends = p.ends /\ q.open = p.open
      /\ q.lost = p.lost
  BY <1>1 DEF FailStartup, Pipe
<1> HIDE DEF q
<1>3. PipeOK(q) /\ Emitted(q) = Emitted(p)
  BY <1>2, SamePipe
<1>4. <<Failure("required_tracks")>> \in Seq(Event)
      /\ Chain(<<Failure("required_tracks")>>, Emitted(p), Emitted(q))
  BY <1>1, <1>3, EmittedFront, NoticeChain DEF Notices
<1>5. Delivers(p, Result(q, <<Failure("required_tracks")>>, FALSE))
  BY <1>2, <1>3, <1>4, ResultDelivers
<1> QED
  BY <1>5 DEF q

LEMMA GatedSound ==
  ASSUME NEW p, PipeOK(p), NEW item \in Item
  PROVE  Delivers(p, Gated(p, item))
<1> DEFINE inputs == Append(p.inputs, item)
           seen == {inputs[k].track : k \in 1 .. Len(inputs)}
           q == [p EXCEPT !.inputs = inputs]
<1>1. p \in Pipe /\ p.inputs \in Seq(Item) /\ inputs \in Seq(Item) /\ <<>> \in Seq(Event)
      /\ p.open \in BOOLEAN /\ p.failed \in BOOLEAN
  BY DEF PipeOK, Pipe
<1>2. Chain(<<>>, Emitted(p), Emitted(p))
  BY <1>1, EmittedFront, ChainEmpty
<1>3. Gated(p, item) =
        IF p.failed THEN Result(p, <<>>, FALSE)
        ELSE IF p.open THEN ProcessInput(p, item)
        ELSE IF ~StartupBounded(inputs, item.track)
             THEN Result(FailStartup(p), <<Failure("required_tracks")>>, FALSE)
        ELSE IF seen = Tracks THEN Replay(q)
        ELSE Result(q, <<>>, FALSE)
  BY DEF Gated
<1>4. q \in Pipe /\ q.pending = p.pending /\ q.ends = p.ends /\ q.open = p.open
      /\ q.lost = p.lost /\ q.failed = p.failed
  <2> HIDE DEF inputs
  <2> QED
    BY <1>1 DEF Pipe
<1> HIDE DEF q, seen, inputs
<1>5. PipeOK(q) /\ Emitted(q) = Emitted(p)
  <2>1. p.failed => ~p.open
    BY DEF PipeOK
  <2> QED
    BY <1>4, <2>1, SamePipe
<1>6. Delivers(p, Result(p, <<>>, FALSE)) /\ Delivers(p, Result(q, <<>>, FALSE))
  <2>1. Delivers(p, Result(p, <<>>, FALSE))
    BY <1>1, <1>2, ResultDelivers
  <2>2. Delivers(p, Result(q, <<>>, FALSE))
    BY <1>1, <1>2, <1>4, <1>5, ResultDelivers
  <2> QED
    BY <2>1, <2>2
<1>7. ASSUME p.open PROVE Delivers(p, ProcessInput(p, item))
  BY <1>7, ProcessInputSound
<1>8. ASSUME ~p.open, ~p.failed PROVE Delivers(p, Replay(q))
  <2>1. Delivers(q, Replay(q))
    BY <1>4, <1>5, <1>8, ReplaySound
  <2> QED
    BY <1>4, <1>5, <2>1 DEF Delivers
<1>9. ASSUME ~p.open
      PROVE Delivers(p, Result(FailStartup(p), <<Failure("required_tracks")>>, FALSE))
  BY <1>9, FailStartupDelivers
<1>10. CASE p.failed
  BY <1>3, <1>6, <1>10
<1>11. CASE ~p.failed /\ p.open
  BY <1>3, <1>7, <1>11
<1>12. CASE ~p.failed /\ ~p.open
  BY <1>3, <1>6, <1>8, <1>9, <1>12
<1> QED
  BY <1>1, <1>10, <1>11, <1>12

LEMMA OrFailureDelivers ==
  ASSUME NEW p, NEW r, Delivers(p, r)
  PROVE  Delivers(p, OrFailure(r)) /\ ~OrFailure(r).threw
<1>1. CASE r.threw
  <2>1. PipeOK(r.p) /\ r.p \in Pipe /\ r.events = <<>>
    BY <1>1 DEF Delivers
  <2> DEFINE f == <<Failure("conversion")>>
  <2>2. f \in Seq(Event) /\ Chain(f, Emitted(r.p), Emitted(r.p))
    BY <2>1, EmittedFront, NoticeChain DEF Notices
  <2> HIDE DEF f
  <2>3. f = <<>> \o f
    BY <2>2, ConcatEmptySeq
  <2>4. ASSUME ~r.p.lost PROVE ~p.lost /\ Chain(f, Emitted(p), Emitted(r.p))
    <3>1. ~p.lost /\ Chain(<<>>, Emitted(p), Emitted(r.p))
      BY <2>1, <2>4 DEF Delivers
    <3>2. <<>> \in Seq(Event)
      OBVIOUS
    <3>3. Chain(<<>> \o f, Emitted(p), Emitted(r.p))
      BY <2>2, <3>1, <3>2, ChainConcat
    <3> QED
      BY <2>3, <3>1, <3>3
  <2>5. Delivers(p, Result(r.p, f, FALSE))
    BY <2>1, <2>2, <2>4, ResultDelivers
  <2>6. OrFailure(r) = Result(r.p, f, FALSE)
    BY <1>1 DEF OrFailure, f
  <2>7. ~Result(r.p, f, FALSE).threw
    BY DEF Result
  <2> QED
    BY <2>5, <2>6, <2>7
<1>2. CASE ~r.threw
  <2>1. OrFailure(r) = r
    BY <1>2 DEF OrFailure
  <2> QED
    BY <1>2, <2>1
<1> QED
  BY <1>1, <1>2

LEMMA AsFailedItem == ASSUME NEW item \in Item PROVE AsFailed(item) \in Item
  BY DEF AsFailed, Item, Reasons

(* drainHandoff's body *)
LEMMA HandledSound ==
  ASSUME NEW p, PipeOK(p), NEW item \in Item
  PROVE  /\ Delivers(p, Handled(p, item))
         /\ Delivers(p, OrFailure(Gated(p, AsFailed(item))))
<1> DEFINE r == Gated(p, item)
           q == Gated(r.p, AsFailed(item))
<1>1. AsFailed(item) \in Item
  BY AsFailedItem
<1>2. Delivers(p, r) /\ Delivers(p, Gated(p, AsFailed(item)))
  BY <1>1, GatedSound
<1>3. Handled(p, item) = OrFailure(IF r.threw /\ IsChunk(item) THEN q ELSE r)
  BY DEF Handled
<1>4. ASSUME r.threw PROVE Delivers(p, q)
  <2> HIDE DEF r
  <2>1. PipeOK(r.p) /\ r.events = <<>>
    BY <1>2, <1>4 DEF Delivers
  <2>2. Delivers(r.p, q)
    BY <1>1, <2>1, GatedSound
  <2> HIDE DEF q
  <2>3. ASSUME ~q.p.lost PROVE ~p.lost /\ Chain(q.events, Emitted(p), Emitted(q.p))
    <3>1. ~r.p.lost /\ Chain(q.events, Emitted(r.p), Emitted(q.p)) /\ q.events \in Seq(Event)
      BY <2>2, <2>3 DEF Delivers
    <3>2. ~p.lost /\ Chain(<<>>, Emitted(p), Emitted(r.p)) /\ <<>> \in Seq(Event)
      BY <1>2, <2>1, <3>1 DEF Delivers
    <3>3. Chain(<<>> \o q.events, Emitted(p), Emitted(q.p))
      BY <3>1, <3>2, ChainConcat
    <3>4. <<>> \o q.events = q.events
      BY <3>1, ConcatEmptySeq
    <3> QED
      BY <3>2, <3>3, <3>4
  <2> QED
    BY <2>2, <2>3 DEF Delivers
<1>5. Delivers(p, IF r.threw /\ IsChunk(item) THEN q ELSE r)
  <2> HIDE DEF q, r
  <2> QED
    BY <1>2, <1>4
<1> HIDE DEF q, r
<1> QED
  BY <1>2, <1>3, <1>5, OrFailureDelivers

-----------------------------------------------------------------------------
(* RecordingCapturePipeline.finish: what the accumulator holds of the tracks, *)
(* in either order.                                                           *)
LEMMA FlushBoth ==
  ASSUME NEW p, PipeOK(p), NEW t \in Tracks, NEW u \in Tracks, t # u
  PROVE  /\ Flushed(p, t) \o Flushed(p, u) \in Seq(Event)
         /\ Chain(Flushed(p, t) \o Flushed(p, u), Emitted(p), p.ends)
<1> DEFINE q == WithoutPending(p, t)
           b == [Emitted(p) EXCEPT ![t] = p.ends[t]]
           d == [b EXCEPT ![u] = p.ends[u]]
<1>1. p \in Pipe /\ Accumulated(p, t) /\ Accumulated(p, u) /\ Emitted(p) \in Fronts
      /\ p.ends \in Fronts
  BY EmittedFront DEF PipeOK, Pipe, Fronts
<1>2. Flushed(p, t) \in Seq(Event) /\ Chain(Flushed(p, t), Emitted(p), b)
  BY <1>1, FlushedIs
<1>3. PipeOK(q) /\ q.pending[u] = p.pending[u] /\ q.ends = p.ends /\ Emitted(q) = b
  BY WithoutPendingOK
<1> HIDE DEF q
<1>4. q \in Pipe /\ Accumulated(q, u)
  BY <1>3 DEF PipeOK
<1>5. Flushed(q, u) = Flushed(p, u)
  BY <1>3 DEF Flushed
<1>6. Flushed(p, u) \in Seq(Event) /\ Chain(Flushed(p, u), b, d)
  <2>1. Flushed(q, u) \in Seq(Event)
        /\ Chain(Flushed(q, u), Emitted(q), [Emitted(q) EXCEPT ![u] = q.ends[u]])
    BY <1>4, FlushedIs
  <2> QED
    BY <1>3, <1>5, <2>1
<1>7. d = p.ends
  <2>1. \A x \in Tracks : x = t \/ x = u
    BY DEF Tracks
  <2> QED
    BY <1>1, <2>1 DEF Fronts
<1>8. Chain(Flushed(p, t) \o Flushed(p, u), Emitted(p), d)
  <2> HIDE DEF b, d
  <2> QED
    BY <1>2, <1>6, ChainConcat
<1> QED
  BY <1>2, <1>6, <1>7, <1>8, ConcatProperties

LEMMA TwoInSeq == ASSUME NEW x, NEW y PROVE <<x>> \o <<y>> = <<x, y>>
<1> DEFINE S == {x, y}  s == <<x>> \o <<y>>  r == <<x, y>>
<1>1. <<x>> \in Seq(S) /\ <<y>> \in Seq(S) /\ Len(<<x>>) = 1 /\ Len(<<y>>) = 1
  OBVIOUS
<1>2. r \in Seq(S) /\ Len(r) = 2 /\ r[1] = x /\ r[2] = y
  OBVIOUS
<1>3. s \in Seq(S) /\ Len(s) = 1 + 1
      /\ \A i \in 1 .. 1 + 1 : s[i] = IF i <= 1 THEN <<x>>[i] ELSE <<y>>[i - 1]
  BY <1>1, ConcatProperties
<1>4. Len(s) = 2 /\ s[1] = x /\ s[2] = y
  BY <1>3
<1>5. 1 .. 2 = {1, 2}
  OBVIOUS
<1>6. \A i \in 1 .. Len(s) : s[i] = r[i]
  <2> HIDE DEF s, r
  <2> QED
    BY <1>2, <1>4, <1>5
<1> HIDE DEF s, r
<1>7. s = r
  BY <1>2, <1>3, <1>4, <1>6, SeqEqual
<1> QED
  BY <1>7 DEF s, r

LEMMA OrderOfTwo ==
  ASSUME NEW p, PipeOK(p), NEW s \in SetToSeqs(UNION {p.pending[t] : t \in Tracks})
  PROVE  \/ s = Flushed(p, "microphone") \o Flushed(p, "system_audio")
         \/ s = Flushed(p, "system_audio") \o Flushed(p, "microphone")
<1> DEFINE M == p.pending["microphone"]  A == p.pending["system_audio"]
           rest == UNION {p.pending[t] : t \in Tracks}
           c == Cardinality(rest)
<1>1. /\ M = {} \/ \E q : M = {q} /\ q.track = "microphone"
      /\ A = {} \/ \E q : A = {q} /\ q.track = "system_audio"
  BY DEF PipeOK, Accumulated, Tracks
<1>2. rest = M \cup A
  BY DEF Tracks
<1>3. s \in [1 .. c -> rest] /\ \A i, j \in 1 .. c : i # j => s[i] # s[j]
  BY DEF SetToSeqs
<1>4. Flushed(p, "microphone") = IF M = {} THEN <<>> ELSE SetToSeq(M)
  BY DEF Flushed
<1>5. Flushed(p, "system_audio") = IF A = {} THEN <<>> ELSE SetToSeq(A)
  BY DEF Flushed
<1> HIDE DEF M, A, rest
<1>6. CASE M = {} /\ A = {}
  <2>1. rest = {} /\ c = 0 /\ 1 .. 0 = {}
    BY <1>2, <1>6, FS_EmptySet
  <2>2. s \in [{} -> {}] 
    BY <1>3, <2>1
  <2>3. s = <<>> /\ <<>> \o <<>> = <<>>
    BY <2>2
  <2> QED
    BY <1>4, <1>5, <1>6, <2>3
<1>7. CASE M # {} /\ A = {}
  <2>1. PICK q : M = {q}
    BY <1>1, <1>7
  <2>2. rest = {q} /\ c = 1 /\ 1 .. 1 = {1}
    <3>1. rest = {q} /\ 1 .. 1 = {1}
      BY <1>2, <1>7, <2>1
    <3> QED
      BY <3>1, FS_Singleton
  <2>3. s \in [{1} -> {q}]
    BY <1>3, <2>2
  <2>4. s = <<q>> /\ <<q>> \o <<>> = <<q>>
    BY <2>3
  <2>5. Flushed(p, "microphone") = <<q>> /\ Flushed(p, "system_audio") = <<>>
    BY <1>4, <1>5, <1>7, <2>1, SeqOfOne
  <2> QED
    BY <2>4, <2>5
<1>8. CASE M = {} /\ A # {}
  <2>1. PICK q : A = {q}
    BY <1>1, <1>8
  <2>2. rest = {q} /\ c = 1 /\ 1 .. 1 = {1}
    <3>1. rest = {q} /\ 1 .. 1 = {1}
      BY <1>2, <1>8, <2>1
    <3> QED
      BY <3>1, FS_Singleton
  <2>3. s \in [{1} -> {q}]
    BY <1>3, <2>2
  <2>4. s = <<q>> /\ <<>> \o <<q>> = <<q>>
    BY <2>3
  <2>5. Flushed(p, "microphone") = <<>> /\ Flushed(p, "system_audio") = <<q>>
    BY <1>4, <1>5, <1>8, <2>1, SeqOfOne
  <2> QED
    BY <2>4, <2>5
<1>9. CASE M # {} /\ A # {}
  <2>1. PICK q : M = {q} /\ q.track = "microphone"
    BY <1>1, <1>9
  <2>2. PICK r : A = {r} /\ r.track = "system_audio"
    BY <1>1, <1>9
  <2>3. q # r
    BY <2>1, <2>2
  <2>4. rest = {q} \cup {r}
    BY <1>2, <2>1, <2>2
  <2>5. c = 2
    <3>1. IsFiniteSet({q}) /\ Cardinality({q}) = 1 /\ r \notin {q}
      BY <2>3, FS_Singleton
    <3>2. Cardinality({q} \cup {r}) = 1 + 1
      BY <3>1, FS_AddElement
    <3> QED
      BY <2>4, <3>2
  <2>6. s \in [1 .. 2 -> {q, r}] /\ s[1] # s[2]
    <3>1. {q} \cup {r} = {q, r} /\ 1 \in 1 .. 2 /\ 2 \in 1 .. 2 /\ 1 # 2
      OBVIOUS
    <3>2. s \in [1 .. 2 -> {q, r}]
      BY <1>3, <2>4, <2>5, <3>1
    <3>3. \A j, k \in 1 .. 2 : s[j] = s[k] => j = k
      BY <1>3, <2>5
    <3>4. s[1] # s[2]
      BY <3>1, <3>3
    <3> QED
      BY <3>2, <3>4
  <2>7. s = <<q, r>> \/ s = <<r, q>>
    <3>1. s = <<s[1], s[2]>>
      BY <2>6
    <3>2. s[1] \in {q, r} /\ s[2] \in {q, r}
      BY <2>6
    <3> QED
      BY <2>6, <3>1, <3>2
  <2>8. <<q>> \o <<r>> = <<q, r>> /\ <<r>> \o <<q>> = <<r, q>>
    BY TwoInSeq
  <2>9. Flushed(p, "microphone") = <<q>> /\ Flushed(p, "system_audio") = <<r>>
    BY <1>4, <1>5, <1>9, <2>1, <2>2, SeqOfOne
  <2> QED
    BY <2>7, <2>8, <2>9
<1> QED
  BY <1>6, <1>7, <1>8, <1>9

LEMMA RestInOrder ==
  ASSUME NEW S, IsFiniteSet(S), S \subseteq Item
  PROVE  InOrder(S, LAMBDA x, y : x.start < y.start
                      \/ (x.start = y.start /\ x.track = "microphone"
                          /\ y.track # "microphone")) \in SetToSeqs(S)
<1> DEFINE Before(x, y) == x.start < y.start
                           \/ (x.start = y.start /\ x.track = "microphone"
                               /\ y.track # "microphone")
           R == {gh \in S \X S : Before(gh[1], gh[2])}
           st == [g \in S |-> g.start]
<1>1. \A g \in S : g.start \in Nat /\ st[g] = g.start
  BY DEF Item
<1>2. ASSUME NEW T \in SUBSET S, T # {} PROVE \E m \in T : \A x \in T : <<x, m>> \notin R
  <2>1. PICK a \in T : \A x \in T : st[a] <= st[x]
    <3>1. \A x \in T : st[x] \in Nat
      BY <1>1
    <3> HIDE DEF st
    <3> QED
      BY <1>2, <3>1, LeastBy
  <2>2. \A x \in T : x \in S /\ x.start \in Nat /\ a.start \in Nat /\ ~(x.start < a.start)
    <3> HIDE DEF st
    <3> QED
      BY <1>1, <2>1
  <2>3. CASE \E m \in T : m.start = a.start /\ m.track = "microphone"
    <3>1. PICK m \in T : m.start = a.start /\ m.track = "microphone"
      BY <2>3
    <3>2. \A x \in T : ~Before(x, m)
      BY <2>2, <3>1
    <3> QED
      BY <3>2
  <2>4. CASE ~\E m \in T : m.start = a.start /\ m.track = "microphone"
    <3>1. \A x \in T : ~Before(x, a)
      BY <2>2, <2>4
    <3> QED
      BY <3>1
  <2> QED
    BY <2>3, <2>4
<1>3. PICK f : OrderedBy(f, S, R)
  <2> HIDE DEF R
  <2> QED
    BY <1>2, OrderExists
<1>4. f \in SetToSeqs(S) /\ \A j, k \in 1 .. Cardinality(S) : j < k => ~Before(f[k], f[j])
  <2>1. f \in SetToSeqs(S) /\ f \in [1 .. Cardinality(S) -> S]
    BY <1>3 DEF OrderedBy, SetToSeqs
  <2> QED
    BY <1>3, <2>1 DEF OrderedBy
<1> QED
  BY <1>4 DEF InOrder

LEMMA FinishedSound ==
  ASSUME NEW p, PipeOK(p)
  PROVE  /\ Delivers(p, Finished(p)) /\ ~Finished(p).threw
         /\ \A t \in Tracks : Finished(p).p.pending[t] = {}
<1> DEFINE rest == UNION {p.pending[t] : t \in Tracks}
           s == InOrder(rest, LAMBDA x, y : x.start < y.start
                      \/ (x.start = y.start /\ x.track = "microphone"
                          /\ y.track # "microphone"))
           q == [p EXCEPT !.pending = [t \in Tracks |-> {}]]
<1>1. p \in Pipe /\ p.open \in BOOLEAN /\ p.failed \in BOOLEAN /\ Emitted(p) \in Fronts
      /\ (p.failed => ~p.open) /\ (~p.open => \A t \in Tracks : p.pending[t] = {})
  BY EmittedFront DEF PipeOK, Pipe
<1>2. CASE p.failed
  <2>1. Finished(p) = Result(p, <<>>, FALSE)
    BY <1>2 DEF Finished
  <2>2. <<>> \in Seq(Event) /\ Chain(<<>>, Emitted(p), Emitted(p))
    BY <1>1, ChainEmpty
  <2>3. Delivers(p, Result(p, <<>>, FALSE))
    BY <2>2, ResultDelivers
  <2> QED
    BY <1>1, <1>2, <2>1, <2>3 DEF Result
<1>3. CASE ~p.failed /\ ~p.open
  <2>1. Finished(p) = Result(FailStartup(p), <<Failure("required_tracks")>>, FALSE)
    BY <1>3 DEF Finished
  <2>2. Delivers(p, Finished(p))
    BY <1>3, <2>1, FailStartupDelivers
  <2>3. Finished(p).p.pending = p.pending /\ ~Finished(p).threw
    <3>1. FailStartup(p).pending = p.pending
      BY <1>1 DEF FailStartup, Pipe
    <3> QED
      BY <2>1, <3>1 DEF Result
  <2> QED
    BY <1>1, <1>3, <2>2, <2>3
<1>4. CASE ~p.failed /\ p.open
  <2>1. Finished(p) = Result(q, s, FALSE)
    BY <1>4 DEF Finished
  <2>2. rest \subseteq Item /\ IsFiniteSet(rest)
    <3>1. p.pending["microphone"] \subseteq Item /\ p.pending["system_audio"] \subseteq Item
      BY <1>1 DEF Pipe, Tracks
    <3>2. \A t \in Tracks : IsFiniteSet(p.pending[t])
      <4> SUFFICES ASSUME NEW t \in Tracks PROVE IsFiniteSet(p.pending[t])
        OBVIOUS
      <4>1. p.pending[t] = {} \/ \E x : p.pending[t] = {x}
        BY DEF PipeOK, Accumulated
      <4> QED
        BY <4>1, FS_EmptySet, FS_Singleton
    <3>3. rest = p.pending["microphone"] \cup p.pending["system_audio"]
      BY DEF Tracks
    <3>4. IsFiniteSet(p.pending["microphone"]) /\ IsFiniteSet(p.pending["system_audio"])
      BY <3>2 DEF Tracks
    <3> HIDE DEF rest
    <3> QED
      BY <3>1, <3>3, <3>4, FS_Union
  <2>3. s \in SetToSeqs(rest)
    <3> HIDE DEF rest
    <3> QED
      BY <2>2, RestInOrder
  <2> HIDE DEF s
  <2>4. s \in Seq(Event) /\ Chain(s, Emitted(p), p.ends)
    <3>1. \/ s = Flushed(p, "microphone") \o Flushed(p, "system_audio")
          \/ s = Flushed(p, "system_audio") \o Flushed(p, "microphone")
      BY <2>3, OrderOfTwo
    <3>2. "microphone" \in Tracks /\ "system_audio" \in Tracks /\ "microphone" # "system_audio"
      BY DEF Tracks
    <3>3. CASE s = Flushed(p, "microphone") \o Flushed(p, "system_audio")
      BY <3>2, <3>3, FlushBoth
    <3>4. CASE s = Flushed(p, "system_audio") \o Flushed(p, "microphone")
      BY <3>2, <3>4, FlushBoth
    <3> QED
      BY <3>1, <3>3, <3>4
  <2>5. /\ q \in Pipe /\ (\A t \in Tracks : q.pending[t] = {}) /\ q.ends = p.ends
        /\ q.open = p.open /\ q.failed = p.failed /\ q.lost = p.lost
    BY <1>1 DEF Pipe
  <2> HIDE DEF q
  <2>6. PipeOK(q)
    BY <1>1, <2>5 DEF PipeOK, Accumulated
  <2>7. Emitted(q) = p.ends
    <3>1. p.ends \in [Tracks -> Nat]
      BY <1>1 DEF Pipe
    <3> QED
      BY <2>5, <3>1 DEF Emitted, FrontOf
  <2>8. Delivers(p, Result(q, s, FALSE))
    BY <2>4, <2>5, <2>6, <2>7, ResultDelivers
  <2>9. Result(q, s, FALSE).p = q /\ ~Result(q, s, FALSE).threw
    BY DEF Result
  <2> QED
    BY <2>1, <2>5, <2>8, <2>9
<1> QED
  BY <1>1, <1>2, <1>3, <1>4

-----------------------------------------------------------------------------
(* From the pipeline to the stream and the registered gaps.                 *)

MergeInto(g, S) == FoldSet(LAMBDA h, acc : MergeGaps(h, acc), g, S)

LEMMA MergeIntoIs ==
  ASSUME NEW g, NEW h
  PROVE  MergeInto(g, {}) = g /\ MergeInto(g, {h}) = MergeGaps(h, g)
<1>1. MergeInto(g, {}) = g
  <2> DEFINE B(f) == [s \in SUBSET {} |-> IF s = {} THEN g
                        ELSE MergeGaps(CHOOSE x \in s : TRUE, f[s \ {CHOOSE x \in s : TRUE}])]
             it == CHOOSE f : f = B(f)
             w == [s \in SUBSET {} |-> g]
  <2>1. MergeInto(g, {}) = it[{}]
    BY DEF MergeInto, FoldSet, MapThenFoldSet
  <2>2. w = B(w)
    OBVIOUS
  <2>3. it = B(it)
    <3> HIDE DEF B, w
    <3> QED
      BY <2>2
  <2> HIDE DEF it
  <2>4. it[{}] = g
    BY <2>3
  <2> QED
    BY <2>1, <2>4
<1>2. MergeInto(g, {h}) = MergeGaps(h, g)
  <2> DEFINE B(f) == [s \in SUBSET {h} |-> IF s = {} THEN g
                        ELSE MergeGaps(CHOOSE x \in s : TRUE, f[s \ {CHOOSE x \in s : TRUE}])]
             it == CHOOSE f : f = B(f)
             w == [s \in SUBSET {h} |-> IF s = {} THEN g ELSE MergeGaps(h, g)]
  <2>1. MergeInto(g, {h}) = it[{h}]
    BY DEF MergeInto, FoldSet, MapThenFoldSet
  <2>2. w = B(w)
    <3>1. \A s \in SUBSET {h} : s # {} => s = {h}
      OBVIOUS
    <3>2. (CHOOSE x \in {h} : TRUE) = h /\ {h} \ {h} = {}
      OBVIOUS
    <3>3. w[{}] = g
      OBVIOUS
    <3>4. \A s \in SUBSET {h} : w[s] = IF s = {} THEN g
            ELSE MergeGaps(CHOOSE x \in s : TRUE, w[s \ {CHOOSE x \in s : TRUE}])
      <4> SUFFICES ASSUME NEW s \in SUBSET {h}
                   PROVE w[s] = IF s = {} THEN g
                     ELSE MergeGaps(CHOOSE x \in s : TRUE, w[s \ {CHOOSE x \in s : TRUE}])
        OBVIOUS
      <4>1. CASE s = {}
        BY <4>1
      <4>2. CASE s # {}
        <5>1. s = {h}
          BY <3>1, <4>2
        <5>2. w[s] = MergeGaps(h, g)
          BY <4>2
        <5>3. (CHOOSE x \in s : TRUE) = h /\ s \ {CHOOSE x \in s : TRUE} = {}
          BY <3>2, <5>1
        <5> HIDE DEF w
        <5> QED
          BY <3>3, <4>2, <5>2, <5>3
      <4> QED
        BY <4>1, <4>2
    <3>5. w = [s \in SUBSET {h} |-> w[s]]
      OBVIOUS
    <3> HIDE DEF w
    <3> QED
      BY <3>4, <3>5
  <2>3. it = B(it)
    <3> HIDE DEF B, w
    <3> QED
      BY <2>2
  <2> HIDE DEF it
  <2>4. it[{}] = g
    BY <2>3
  <2>5. it[{h}] = MergeGaps(CHOOSE x \in {h} : TRUE, it[{h} \ {CHOOSE x \in {h} : TRUE}])
    BY <2>3
  <2>6. (CHOOSE x \in {h} : TRUE) = h /\ {h} \ {h} = {}
    OBVIOUS
  <2> QED
    BY <2>1, <2>4, <2>5, <2>6
<1> QED
  BY <1>1, <1>2

(* Two intervals of one track merge into one that holds both. *)
LEMMA MergedGap ==
  ASSUME NEW g \in Gap, NEW h \in Gap, h.track = g.track
  PROVE  /\ MergeGaps(h, g) \in Gap /\ MergeGaps(h, g).track = h.track
         /\ MergeGaps(h, g).reason = h.reason
<1> DEFINE from == IF h.start < g.start THEN h.start ELSE g.start
           to == IF h.start + h.len > g.start + g.len THEN h.start + h.len
                 ELSE g.start + g.len
<1>1. /\ g.start \in Nat /\ g.len \in Nat \ {0} /\ h.start \in Nat /\ h.len \in Nat \ {0}
      /\ h.track \in Tracks /\ h.reason \in Reasons /\ h.reason # "audio"
  BY DEF Gap, Item
<1>2. from \in Nat /\ to - from \in Nat \ {0}
  BY <1>1
<1>3. MergeGaps(h, g) = Span(h.track, from, to - from, h.reason)
  BY DEF MergeGaps
<1> HIDE DEF from, to
<1>4. MergeGaps(h, g) \in Item
  BY <1>1, <1>2, <1>3, SpanItem
<1> QED
  BY <1>1, <1>3, <1>4 DEF Gap, Span

Same(w, g) == {h \in w.pending : h.track = g.track /\ h.reason = g.reason}

LEMMA RegisterIs ==
  ASSUME NEW w, GapsOK(w), NEW g \in Gap
  PROVE  \/ w.failed /\ Register(w, g) = w
         \/ ~w.failed /\ Register(w, g) = [w EXCEPT !.failed = TRUE]
         \/ /\ ~w.failed /\ Same(w, g) = {}
            /\ Register(w, g) = [w EXCEPT !.pending = @ \cup {g}, !.running = TRUE]
         \/ \E h \in w.pending :
              /\ ~w.failed /\ h.track = g.track /\ h.reason = g.reason /\ Touch(h, g)
              /\ Register(w, g) = [w EXCEPT !.pending = (@ \ {h}) \cup {MergeGaps(h, g)},
                                            !.running = TRUE]
<1>0. w \in Gaps /\ w.failed \in BOOLEAN
  BY DEF GapsOK, Gaps
<1>1. Same(w, g) = {} \/ \E h \in w.pending : Same(w, g) = {h}
  BY DEF GapsOK, Same
<1>2. Register(w, g) =
        IF w.failed THEN w
        ELSE IF \E h \in Same(w, g) : ~Touch(h, g) THEN [w EXCEPT !.failed = TRUE]
        ELSE [w EXCEPT !.pending = (@ \ Same(w, g)) \cup {MergeInto(g, Same(w, g))},
                       !.running = TRUE]
  BY DEF Register, Same, MergeInto
<1>3. CASE w.failed
  BY <1>2, <1>3
<1>4. CASE ~w.failed /\ \E h \in Same(w, g) : ~Touch(h, g)
  BY <1>2, <1>4
<1>5. CASE ~w.failed /\ ~\E h \in Same(w, g) : ~Touch(h, g)
  <2>1. CASE Same(w, g) = {}
    <3>1. MergeInto(g, {}) = g /\ w.pending \ {} = w.pending
      BY MergeIntoIs
    <3> QED
      BY <1>2, <1>5, <2>1, <3>1
  <2>2. CASE Same(w, g) # {}
    <3>1. PICK h \in w.pending : Same(w, g) = {h}
      BY <1>1, <2>2
    <3>2. MergeInto(g, {h}) = MergeGaps(h, g)
      BY MergeIntoIs
    <3>3. h.track = g.track /\ h.reason = g.reason /\ Touch(h, g)
      <4>1. h \in Same(w, g)
        BY <3>1
      <4> QED
        BY <1>5, <4>1 DEF Same
    <3>4. Register(w, g) = [w EXCEPT !.pending = (@ \ {h}) \cup {MergeGaps(h, g)},
                                     !.running = TRUE]
      BY <1>2, <1>5, <3>1, <3>2
    <3> QED
      BY <1>5, <3>3, <3>4
  <2> QED
    BY <2>1, <2>2
<1> QED
  BY <1>0, <1>3, <1>4, <1>5

LEMMA RegisterOK ==
  ASSUME NEW w, GapsOK(w), NEW g \in Gap
  PROVE  LET r == Register(w, g)
         IN  GapsOK(r) /\ r.batch = w.batch /\ (w.failed => r.failed)
<1> DEFINE r == Register(w, g)
<1>0. w \in Gaps /\ IsFiniteSet(w.pending) /\ w.pending \subseteq Gap
  BY DEF GapsOK, Gaps
<1>1. CASE w.failed /\ r = w
  BY <1>1
<1>2. CASE ~w.failed /\ r = [w EXCEPT !.failed = TRUE]
  <2>1. /\ r \in Gaps /\ r.pending = w.pending /\ r.batch = w.batch /\ r.failed = TRUE
        /\ r.running = w.running
    BY <1>0, <1>2 DEF Gaps
  <2> HIDE DEF r
  <2>2. GapsOK(r)
    BY <2>1 DEF GapsOK
  <2>3. GapsOK(r) /\ r.batch = w.batch /\ (w.failed => r.failed)
    BY <2>1, <2>2
  <2> QED
    BY <2>3 DEF r
<1>3. ASSUME NEW S, NEW m \in Gap, ~w.failed, S \subseteq w.pending,
             r = [w EXCEPT !.pending = S \cup {m}, !.running = TRUE],
             \A h \in S : ~(h.track = m.track /\ h.reason = m.reason)
      PROVE  GapsOK(r) /\ r.batch = w.batch /\ (w.failed => r.failed)
  <2>1. /\ r \in Gaps /\ r.pending = S \cup {m} /\ r.batch = w.batch /\ r.failed = w.failed
        /\ r.running = TRUE
    BY <1>0, <1>3, ZenonT(30) DEF Gaps
  <2> HIDE DEF r
  <2>2. IsFiniteSet(S \cup {m})
    BY <1>0, <1>3, FS_Subset, FS_AddElement
  <2>3. \A h, k \in S \cup {m} : h.track = k.track /\ h.reason = k.reason => h = k
    BY <1>3 DEF GapsOK
  <2> QED
    BY <1>3, <2>1, <2>2, <2>3 DEF GapsOK
<1>4. CASE /\ ~w.failed /\ Same(w, g) = {}
           /\ r = [w EXCEPT !.pending = @ \cup {g}, !.running = TRUE]
  <2>1. \A h \in w.pending : ~(h.track = g.track /\ h.reason = g.reason)
    BY <1>4 DEF Same
  <2> QED
    BY <1>3, <1>4, <2>1
<1>5. CASE \E h \in w.pending :
              /\ ~w.failed /\ h.track = g.track /\ h.reason = g.reason /\ Touch(h, g)
              /\ r = [w EXCEPT !.pending = (@ \ {h}) \cup {MergeGaps(h, g)}, !.running = TRUE]
  <2>1. PICK h \in w.pending :
              /\ ~w.failed /\ h.track = g.track /\ h.reason = g.reason
              /\ r = [w EXCEPT !.pending = (@ \ {h}) \cup {MergeGaps(h, g)}, !.running = TRUE]
    BY <1>5
  <2>2. MergeGaps(h, g) \in Gap /\ MergeGaps(h, g).track = h.track
        /\ MergeGaps(h, g).reason = h.reason
    BY <1>0, <2>1, MergedGap
  <2>3. \A k \in w.pending \ {h} : ~(k.track = MergeGaps(h, g).track
                                      /\ k.reason = MergeGaps(h, g).reason)
    BY <2>2 DEF GapsOK
  <2> HIDE DEF r
  <2>4. GapsOK(r) /\ r.batch = w.batch /\ (w.failed => r.failed)
    <3>1. w.pending \ {h} \subseteq w.pending
      OBVIOUS
    <3> QED
      BY <1>3, <2>1, <2>2, <2>3, <3>1
  <2> QED
    BY <2>4 DEF r
<1> HIDE DEF r
<1>6. GapsOK(r) /\ r.batch = w.batch /\ (w.failed => r.failed)
  BY <1>1, <1>2, <1>4, <1>5, RegisterIs DEF r
<1> QED
  BY <1>6 DEF r

(* The account of a recording: each position up to the front f is in one place. *)
Account(d, s, w, f) ==
  \A t \in Tracks, n \in Nat : OnDisk(d, t, n) + OnTheWay(s, w, t, n) = Once(f, t, n)

LEMMA CountsNat ==
  ASSUME NEW d \in Spool, NEW s \in Stream, NEW w, GapsOK(w), NEW t \in Tracks, NEW n
  PROVE  /\ OnDisk(d, t, n) \in Nat /\ InSeq(s.buf, t, n) \in Nat
         /\ InSeq(w.batch, t, n) \in Nat /\ InSet(w.pending, t, n) \in Nat
         /\ InSeq(d.recs[t], t, n) \in Nat /\ InSeq(d.journal, t, n) \in Nat
<1>1. Len(d.recs[t]) \in Nat /\ Len(d.journal) \in Nat /\ Len(s.buf) \in Nat
      /\ Len(w.batch) \in Nat /\ IsFiniteSet(w.pending)
  BY LenProperties DEF Spool, Stream, GapsOK, Gaps
<1>2. InSeq(d.recs[t], t, n) \in Nat /\ InSeq(d.journal, t, n) \in Nat
  BY <1>1, InSeqNat
<1>3. InSeq(s.buf, t, n) \in Nat /\ InSeq(w.batch, t, n) \in Nat
  BY <1>1, InSeqNat
<1>4. InSet(w.pending, t, n) \in Nat
  BY <1>1, InSetNat
<1> QED
  BY <1>2, <1>3, <1>4 DEF OnDisk

LEMMA HitNat == ASSUME NEW e, NEW t, NEW n PROVE Hit(e, t, n) \in {0, 1}
  BY DEF Hit

(* The event at the front of its track. *)
LEMMA OnceExtends ==
  ASSUME NEW e \in Event, NEW f \in Fronts, NEW h, Extends(e, f, h), NEW t \in Tracks, NEW n \in Nat
  PROVE  Once(h, t, n) = Once(f, t, n) + Hit(e, t, n)
<1>1. CASE e.track = "none"
  <2>1. h = f /\ e.track # t
    BY <1>1 DEF Extends, Tracks
  <2> QED
    BY <2>1 DEF Once, Hit, Hits
<1>2. CASE e.track # "none"
  <2>1. e \in Item
    BY <1>2 DEF Event, Notice
  <2>2. e.track \in Tracks /\ e.start \in Nat /\ e.len \in Nat \ {0}
    BY <2>1 DEF Item
  <2>3. e.start = f[e.track] /\ h = [f EXCEPT ![e.track] = @ + e.len]
    BY <1>2 DEF Extends
  <2>4. f[t] \in Nat
    BY DEF Fronts
  <2>5. CASE e.track = t
    <3>1. h[t] = f[t] + e.len /\ e.start = f[t]
      BY <2>2, <2>3, <2>5 DEF Fronts
    <3> QED
      BY <2>2, <2>4, <2>5, <3>1 DEF Once, Hit, Hits
  <2>6. CASE e.track # t
    <3>1. h[t] = f[t]
      BY <2>2, <2>3, <2>6 DEF Fronts
    <3> QED
      BY <2>6, <3>1 DEF Once, Hit, Hits
  <2> QED
    BY <2>5, <2>6
<1> QED
  BY <1>1, <1>2

(* A registered gap at the front only touches the one it continues. *)
LEMMA RegisterAccount ==
  ASSUME NEW d \in Spool, NEW s \in Stream, NEW w, GapsOK(w), NEW e \in Item, NEW g \in Gap,
         g.track = e.track, g.start = e.start, g.len = e.len,
         NEW f \in Fronts, NEW k, Extends(e, f, k), Account(d, s, w, f),
         ~Register(w, g).failed
  PROVE  Account(d, s, Register(w, g), k)
<1> DEFINE r == Register(w, g)
           T == e.track
<1>0. /\ w \in Gaps /\ IsFiniteSet(w.pending) /\ w.pending \subseteq Gap
      /\ T \in Tracks /\ e.start \in Nat /\ e.len \in Nat \ {0} /\ e \in Event
  BY DEF GapsOK, Gaps, Item, Event
<1>1. f[T] \in Nat /\ e.start = f[T]
  BY <1>0 DEF Extends, Fronts, Tracks
<1>2. \A t, n : Hit(g, t, n) = Hit(e, t, n)
  BY DEF Hit, Hits
<1>3. ASSUME r.batch = w.batch,
             \A t \in Tracks, n \in Nat : InSet(r.pending, t, n) = InSet(w.pending, t, n) + Hit(e, t, n)
      PROVE  Account(d, s, r, k)
  <2> HIDE DEF r
  <2> SUFFICES ASSUME NEW t \in Tracks, NEW n \in Nat
               PROVE  OnDisk(d, t, n) + OnTheWay(s, r, t, n) = Once(k, t, n)
    BY DEF Account
  <2>1. Once(k, t, n) = Once(f, t, n) + Hit(e, t, n)
    BY <1>0, OnceExtends
  <2>2. /\ OnDisk(d, t, n) \in Nat /\ InSeq(s.buf, t, n) \in Nat
        /\ InSeq(w.batch, t, n) \in Nat /\ InSet(w.pending, t, n) \in Nat
    BY CountsNat
  <2>3. Hit(e, t, n) \in {0, 1}
    BY HitNat
  <2>4. OnDisk(d, t, n) + (InSeq(s.buf, t, n) + InSeq(w.batch, t, n) + InSet(w.pending, t, n))
          = Once(f, t, n)
    BY DEF Account, OnTheWay
  <2>5. OnTheWay(s, r, t, n) = InSeq(s.buf, t, n) + InSeq(w.batch, t, n)
                                 + (InSet(w.pending, t, n) + Hit(e, t, n))
    BY <1>3 DEF OnTheWay
  <2> QED
    BY <2>1, <2>2, <2>3, <2>4, <2>5
<1>4. CASE w.failed /\ r = w
  BY <1>4
<1>5. CASE ~w.failed /\ r = [w EXCEPT !.failed = TRUE]
  <2>1. r.failed = TRUE
    BY <1>0, <1>5 DEF Gaps
  <2> QED
    BY <2>1
<1>6. CASE /\ ~w.failed /\ Same(w, g) = {}
           /\ r = [w EXCEPT !.pending = @ \cup {g}, !.running = TRUE]
  <2>1. r.batch = w.batch /\ r.pending = w.pending \cup {g}
    BY <1>0, <1>6 DEF Gaps
  <2>2. g \notin w.pending
    BY <1>6 DEF Same
  <2> HIDE DEF r
  <2>3. \A t, n : InSet(r.pending, t, n) = InSet(w.pending, t, n) + Hit(g, t, n)
    BY <1>0, <2>1, <2>2, InSetAdd
  <2>4. \A t, n : InSet(r.pending, t, n) = InSet(w.pending, t, n) + Hit(e, t, n)
    BY <1>2, <2>3
  <2>5. Account(d, s, r, k)
    BY <1>3, <2>1, <2>4
  <2> QED
    BY <2>5 DEF r
<1>7. CASE \E h \in w.pending :
              /\ ~w.failed /\ h.track = g.track /\ h.reason = g.reason /\ Touch(h, g)
              /\ r = [w EXCEPT !.pending = (@ \ {h}) \cup {MergeGaps(h, g)}, !.running = TRUE]
  <2>1. PICK h \in w.pending :
              /\ ~w.failed /\ h.track = g.track /\ h.reason = g.reason /\ Touch(h, g)
              /\ r = [w EXCEPT !.pending = (@ \ {h}) \cup {MergeGaps(h, g)}, !.running = TRUE]
    BY <1>7
  <2> DEFINE m == MergeGaps(h, g)
             S == w.pending \ {h}
             last == h.start + h.len - 1
  <2>2. h \in Gap /\ h.track = T /\ h.start \in Nat /\ h.len \in Nat \ {0} /\ last \in Nat
        /\ Hits(h, T, last)
    BY <1>0, <2>1 DEF Gap, Item, Hits
  <2>3. last < f[T]
    <3>1. InSet(w.pending, T, last) = InSet(S, T, last) + Hit(h, T, last)
      BY <1>0, InSetRemove
    <3>2. IsFiniteSet(S)
      BY <1>0, FS_RemoveElement
    <3>3. InSet(S, T, last) \in Nat
      <4> HIDE DEF S
      <4> QED BY <3>2, InSetNat
    <3>4. Hit(h, T, last) = 1
      BY <2>2 DEF Hit
    <3>5. /\ OnDisk(d, T, last) \in Nat /\ InSeq(s.buf, T, last) \in Nat
          /\ InSeq(w.batch, T, last) \in Nat /\ InSet(w.pending, T, last) \in Nat
      BY <1>0, CountsNat
    <3>6. OnDisk(d, T, last) + (InSeq(s.buf, T, last) + InSeq(w.batch, T, last)
            + InSet(w.pending, T, last)) = Once(f, T, last)
      BY <1>0, <2>2 DEF Account, OnTheWay
    <3> HIDE DEF S, last, T
    <3>7. Once(f, T, last) # 0
      BY <3>1, <3>3, <3>4, <3>5, <3>6
    <3> QED
      BY <3>7 DEF Once
  <2>4. h.start + h.len = g.start
    <3>1. g.start <= h.start + h.len
      BY <2>1 DEF Touch
    <3> QED
      BY <1>1, <2>2, <2>3, <3>1
  <2>5. m = Span(h.track, h.start, h.len + g.len, h.reason)
    <3>1. h.start < g.start /\ ~(h.start + h.len > g.start + g.len)
          /\ (g.start + g.len) - h.start = h.len + g.len
      BY <1>0, <2>2, <2>4
    <3>2. m = Span(h.track, IF h.start < g.start THEN h.start ELSE g.start,
                   (IF h.start + h.len > g.start + g.len THEN h.start + h.len
                    ELSE g.start + g.len)
                   - (IF h.start < g.start THEN h.start ELSE g.start), h.reason)
      BY DEF MergeGaps
    <3>3. m = Span(h.track, h.start, (g.start + g.len) - h.start, h.reason)
      <4> HIDE DEF m
      <4> QED BY <3>1, <3>2
    <3> HIDE DEF m
    <3> QED
      BY <3>1, <3>3
  <2>6. \A t \in Tracks, n \in Nat : Hit(m, t, n) = Hit(h, t, n) + Hit(g, t, n)
    BY <1>0, <2>1, <2>2, <2>4, <2>5 DEF Hit, Hits, Span
  <2>7. m \notin S
    BY <2>5 DEF GapsOK, Span
  <2>8. r.batch = w.batch /\ r.pending = S \cup {m}
    BY <1>0, <2>1 DEF Gaps
  <2>9. IsFiniteSet(S)
    BY <1>0, FS_RemoveElement
  <2>10. ASSUME NEW t \in Tracks, NEW n \in Nat
         PROVE InSet(r.pending, t, n) = InSet(w.pending, t, n) + Hit(e, t, n)
    <3>1. InSet(w.pending, t, n) = InSet(S, t, n) + Hit(h, t, n)
      BY <1>0, InSetRemove
    <3> HIDE DEF r, S, m
    <3>2. InSet(S \cup {m}, t, n) = InSet(S, t, n) + Hit(m, t, n)
      BY <2>7, <2>9, InSetAdd
    <3>3. InSet(S, t, n) \in Nat /\ Hit(h, t, n) \in {0, 1} /\ Hit(g, t, n) \in {0, 1}
      BY <2>9, InSetNat, HitNat
    <3>4. Hit(m, t, n) = Hit(h, t, n) + Hit(g, t, n) /\ Hit(g, t, n) = Hit(e, t, n)
      BY <1>2, <2>6
    <3> QED
      BY <2>8, <3>1, <3>2, <3>3, <3>4
  <2> HIDE DEF r
  <2>11. Account(d, s, r, k)
    BY <1>3, <2>8, <2>10
  <2> QED
    BY <2>11 DEF r
<1> QED
  BY <1>4, <1>5, <1>6, <1>7, RegisterIs

Yielder == {s \in [stream : Stream, gaps : Gaps] : GapsOK(s.gaps)}

\* What the receive closure registers for an event that the stream dropped.
DroppedGap(e) == IF IsChunk(e) THEN [e EXCEPT !.reason = "callback_overflow"] ELSE e

LEMMA DroppedGapOf ==
  ASSUME NEW e \in Item
  PROVE  /\ DroppedGap(e) \in Gap /\ DroppedGap(e).track = e.track
         /\ DroppedGap(e).start = e.start /\ DroppedGap(e).len = e.len
  BY DEF DroppedGap, Gap, Item, IsChunk, Reasons

LEMMA YieldOneIs ==
  ASSUME NEW s \in Yielder, NEW e \in Event
  PROVE  \/ ~s.stream.open /\ YieldOne(s, e) = s
         \/ /\ s.stream.open
            /\ YieldOne(s, e) = [s EXCEPT !.stream.buf = Append(@, e)]
         \/ e \in Notice /\ s.stream.open /\ YieldOne(s, e) = s
         \/ /\ e \in Item /\ s.stream.open
            /\ YieldOne(s, e) = [s EXCEPT !.gaps = Register(@, DroppedGap(e))]
<1>1. e \in Item => e.track # "none" /\ e.track \in Tracks /\ (~IsChunk(e) => IsGap(e))
  BY DEF Item, Tracks, IsGap, IsChunk
<1>2. e \in Notice => ~IsChunk(e) /\ ~IsGap(e)
  BY DEF Notice, Notices, IsGap, IsChunk
<1>3. s.stream.open \in BOOLEAN
  BY DEF Yielder, Stream
<1>4. CASE ~s.stream.open
  BY <1>4 DEF YieldOne
<1>5. CASE s.stream.open /\ Len(s.stream.buf) < StreamCapacity
  BY <1>5 DEF YieldOne
<1>6. CASE s.stream.open /\ ~(Len(s.stream.buf) < StreamCapacity) /\ e \in Notice
  BY <1>2, <1>6 DEF YieldOne
<1>7. CASE s.stream.open /\ ~(Len(s.stream.buf) < StreamCapacity) /\ e \in Item
  <2>1. CASE IsChunk(e)
    BY <1>7, <2>1 DEF YieldOne, DroppedGap
  <2>2. CASE ~IsChunk(e)
    BY <1>1, <1>7, <2>2 DEF YieldOne, DroppedGap
  <2> QED
    BY <2>1, <2>2
<1> QED
  BY <1>3, <1>4, <1>5, <1>6, <1>7 DEF Event

LEMMA YieldOneOK ==
  ASSUME NEW s \in Yielder, NEW e \in Event
  PROVE  LET r == YieldOne(s, e)
         IN  /\ r \in Yielder /\ r.stream.open = s.stream.open /\ r.gaps.batch = s.gaps.batch
             /\ s.gaps.failed => r.gaps.failed
             /\ ~s.stream.open => r = s
<1> DEFINE r == YieldOne(s, e)
<1>0. s \in [stream : Stream, gaps : Gaps] /\ s.stream \in Stream /\ GapsOK(s.gaps)
      /\ s.stream.buf \in Seq(Event)
  BY DEF Yielder, Stream
<1>1. CASE r = s
  BY <1>1
<1>2. CASE s.stream.open /\ r = [s EXCEPT !.stream.buf = Append(@, e)]
  <2>1. Append(s.stream.buf, e) \in Seq(Event)
    BY <1>0, AppendProperties
  <2>2. /\ r \in [stream : Stream, gaps : Gaps] /\ r.gaps = s.gaps
        /\ r.stream.open = s.stream.open
    BY <1>0, <1>2, <2>1 DEF Stream
  <2> HIDE DEF r
  <2>3. r \in Yielder /\ r.stream.open = s.stream.open /\ r.gaps = s.gaps
    BY <1>0, <2>2 DEF Yielder
  <2> QED
    BY <1>2, <2>3 DEF r
<1>3. CASE /\ e \in Item /\ s.stream.open
           /\ r = [s EXCEPT !.gaps = Register(@, DroppedGap(e))]
  <2> DEFINE w == Register(s.gaps, DroppedGap(e))
  <2>1. GapsOK(w) /\ w.batch = s.gaps.batch /\ (s.gaps.failed => w.failed)
    BY <1>0, <1>3, DroppedGapOf, RegisterOK
  <2>2. r.gaps = w /\ r.stream = s.stream /\ r = [s EXCEPT !.gaps = w]
    BY <1>0, <1>3
  <2>3. w \in Gaps
    BY <2>1 DEF GapsOK
  <2> HIDE DEF w, r
  <2>4. r \in [stream : Stream, gaps : Gaps]
    BY <1>0, <2>2, <2>3
  <2>5. r \in Yielder
    BY <2>1, <2>2, <2>4 DEF Yielder
  <2>6. /\ r \in Yielder /\ r.stream.open = s.stream.open /\ r.gaps.batch = s.gaps.batch
        /\ s.gaps.failed => r.gaps.failed
    BY <2>1, <2>2, <2>5
  <2> QED
    BY <1>3, <2>6 DEF r
<1> QED
  BY <1>1, <1>2, <1>3, YieldOneIs

LEMMA YieldOneAccount ==
  ASSUME NEW d \in Spool, NEW s \in Yielder, s.stream.open, NEW e \in Event,
         NEW f \in Fronts, NEW k, Extends(e, f, k),
         ~s.gaps.failed => Account(d, s.stream, s.gaps, f),
         ~YieldOne(s, e).gaps.failed
  PROVE  Account(d, YieldOne(s, e).stream, YieldOne(s, e).gaps, k)
<1> DEFINE r == YieldOne(s, e)
<1>0. s \in [stream : Stream, gaps : Gaps] /\ s.stream \in Stream /\ GapsOK(s.gaps)
      /\ s.stream.buf \in Seq(Event)
  BY DEF Yielder, Stream
<1>1. ~s.gaps.failed /\ Account(d, s.stream, s.gaps, f)
  BY YieldOneOK
<1>2. CASE ~s.stream.open /\ r = s
  BY <1>2
<1>3. CASE s.stream.open /\ r = [s EXCEPT !.stream.buf = Append(@, e)]
  <2>1. r.stream.buf = Append(s.stream.buf, e) /\ r.gaps = s.gaps
    BY <1>0, <1>3 DEF Stream
  <2> HIDE DEF r
  <2>2. ASSUME NEW t \in Tracks, NEW n \in Nat
        PROVE  OnDisk(d, t, n) + OnTheWay(r.stream, r.gaps, t, n) = Once(k, t, n)
    <3>1. Once(k, t, n) = Once(f, t, n) + Hit(e, t, n)
      BY OnceExtends
    <3>2. InSeq(r.stream.buf, t, n) = InSeq(s.stream.buf, t, n) + Hit(e, t, n)
      BY <1>0, <2>1, InSeqAppend
    <3>3. /\ OnDisk(d, t, n) \in Nat /\ InSeq(s.stream.buf, t, n) \in Nat
          /\ InSeq(s.gaps.batch, t, n) \in Nat /\ InSet(s.gaps.pending, t, n) \in Nat
      BY <1>0, CountsNat
    <3>4. Hit(e, t, n) \in {0, 1}
      BY HitNat
    <3>5. OnDisk(d, t, n) + (InSeq(s.stream.buf, t, n) + InSeq(s.gaps.batch, t, n)
            + InSet(s.gaps.pending, t, n)) = Once(f, t, n)
      BY <1>1 DEF Account, OnTheWay
    <3>6. OnTheWay(r.stream, r.gaps, t, n) = (InSeq(s.stream.buf, t, n) + Hit(e, t, n))
            + InSeq(s.gaps.batch, t, n) + InSet(s.gaps.pending, t, n)
      BY <2>1, <3>2 DEF OnTheWay
    <3> QED
      BY <3>1, <3>3, <3>4, <3>5, <3>6
  <2>3. Account(d, r.stream, r.gaps, k)
    BY <2>2 DEF Account
  <2> QED
    BY <2>3 DEF r
<1>4. CASE e \in Notice /\ r = s
  <2>1. k = f
    BY <1>4 DEF Notice, Extends
  <2> QED
    BY <1>1, <1>4, <2>1
<1>5. CASE /\ e \in Item /\ s.stream.open
           /\ r = [s EXCEPT !.gaps = Register(@, DroppedGap(e))]
  <2>1. r.gaps = Register(s.gaps, DroppedGap(e)) /\ r.stream = s.stream
    BY <1>0, <1>5
  <2>2. Account(d, s.stream, Register(s.gaps, DroppedGap(e)), k)
    BY <1>0, <1>1, <1>5, <2>1, DroppedGapOf, RegisterAccount
  <2> QED
    BY <2>1, <2>2
<1> QED
  BY <1>2, <1>3, <1>4, <1>5, YieldOneIs

LEMMA FoldYieldTable ==
  ASSUME NEW s \in Yielder, NEW es \in Seq(Event)
  PROVE  \E it : /\ FoldLeft(YieldOne, s, es) = it[1 .. Len(es)] /\ it[{}] = s
                 /\ \A k \in 1 .. Len(es) : it[1 .. k] = YieldOne(it[(1 .. k) \ {k}], es[k])
<1> DEFINE B(g) == [x \in SUBSET DOMAIN es |->
                      IF x = {} THEN s ELSE YieldOne(g[x \ {Max(x)}], es[Max(x)])]
           it == CHOOSE g : g = B(g)
           n == Len(es)
           F == [k \in 1 .. n |-> [a \in Yielder |-> YieldOne(a, es[k])]]
<1>1. FoldLeft(YieldOne, s, es) = it[DOMAIN es]
  BY DEF FoldLeft, MapThenFoldSet
<1>2. n \in Nat /\ DOMAIN es = 1 .. n /\ \A k \in 1 .. n : es[k] \in Event
  BY LenProperties
<1>3. F \in [1 .. n -> [Yielder -> Yielder]]
  BY <1>2, YieldOneOK
<1>4. PICK g : Tabulates(g, F, s, Yielder, n)
  <2> HIDE DEF F, n
  <2> QED
    BY <1>2, <1>3, TableExists
<1> HIDE DEF n
<1>5. g = B(g)
  <2>1. ASSUME NEW x \in SUBSET (1 .. n)
        PROVE g[x] = IF x = {} THEN s ELSE YieldOne(g[x \ {Max(x)}], es[Max(x)])
    <3>1. g[x] = IF x = {} THEN s ELSE F[Max(x)][g[x \ {Max(x)}]]
      BY <1>4 DEF Tabulates
    <3>2. ASSUME x # {}
          PROVE F[Max(x)][g[x \ {Max(x)}]] = YieldOne(g[x \ {Max(x)}], es[Max(x)])
      <4>1. Max(x) \in 1 .. n /\ x \ {Max(x)} \in SUBSET (1 .. n)
        BY <1>2, <3>2, MaxIn
      <4>2. g[x \ {Max(x)}] \in Yielder
        BY <1>4, <4>1 DEF Tabulates
      <4> QED
        BY <4>1, <4>2
    <3> QED
      BY <3>1, <3>2
  <2>2. g \in [SUBSET (1 .. n) -> Yielder]
    BY <1>4 DEF Tabulates
  <2>3. g = [x \in SUBSET (1 .. n) |-> g[x]]
    BY <2>2
  <2> QED
    BY <1>2, <2>1, <2>3
<1>6. it = B(it)
  <2> HIDE DEF B
  <2> QED BY <1>5
<1> HIDE DEF it
<1>7. \A x \in SUBSET (1 .. n) :
         it[x] = IF x = {} THEN s ELSE YieldOne(it[x \ {Max(x)}], es[Max(x)])
  BY <1>2, <1>6
<1>8. it[{}] = s
  BY <1>7
<1>9. ASSUME NEW k \in 1 .. n PROVE it[1 .. k] = YieldOne(it[(1 .. k) \ {k}], es[k])
  <2>1. 1 .. k \in SUBSET (1 .. n) /\ k \in 1 .. k /\ k \in Nat
    BY <1>2
  <2>2. Max(1 .. k) = k
    BY <2>1, MaxOf
  <2> QED
    BY <1>7, <2>1, <2>2
<1> QED
  BY <1>1, <1>2, <1>8, <1>9 DEF n

(* The events of one step through the receive closure. *)
LEMMA FoldYieldOK ==
  ASSUME NEW s \in Yielder, NEW es \in Seq(Event)
  PROVE  LET r == FoldLeft(YieldOne, s, es)
         IN  /\ r \in Yielder /\ r.stream.open = s.stream.open /\ r.gaps.batch = s.gaps.batch
             /\ s.gaps.failed => r.gaps.failed
             /\ ~s.stream.open => r = s
<1> DEFINE n == Len(es)
           Good == {r \in Yielder : /\ r.stream.open = s.stream.open
                                    /\ r.gaps.batch = s.gaps.batch
                                    /\ s.gaps.failed => r.gaps.failed
                                    /\ ~s.stream.open => r = s}
           G == [k \in 0 .. n |-> Good]
<1>1. n \in Nat /\ \A k \in 1 .. n : es[k] \in Event
  BY LenProperties
<1>2. PICK it : /\ FoldLeft(YieldOne, s, es) = it[1 .. n] /\ it[{}] = s
                /\ \A k \in 1 .. n : it[1 .. k] = YieldOne(it[(1 .. k) \ {k}], es[k])
  BY FoldYieldTable
<1> HIDE DEF n
<1>3. it[{}] \in G[0]
  BY <1>1, <1>2
<1>4. ASSUME NEW k \in 1 .. n, it[(1 .. k) \ {k}] \in G[k - 1] PROVE it[1 .. k] \in G[k]
  <2> DEFINE a == it[(1 .. k) \ {k}]
             b == it[1 .. k]
  <2>1. a \in Good
    BY <1>1, <1>4
  <2>2. b = YieldOne(a, es[k]) /\ es[k] \in Event
    BY <1>1, <1>2
  <2> HIDE DEF a, b
  <2>3. b \in Good
    BY <2>1, <2>2, YieldOneOK
  <2> QED
    BY <1>1, <2>3 DEF b
<1>5. it[1 .. n] \in G[n]
  <2> HIDE DEF G
  <2> QED
    BY <1>1, <1>3, <1>4, TableLeads
<1>6. it[1 .. n] \in Good
  BY <1>1, <1>5
<1> QED
  BY <1>2, <1>6

LEMMA FoldYieldAccount ==
  ASSUME NEW d \in Spool, NEW s \in Yielder, s.stream.open, NEW es \in Seq(Event),
         NEW f, NEW h, Chain(es, f, h),
         ~s.gaps.failed => Account(d, s.stream, s.gaps, f)
  PROVE  LET r == FoldLeft(YieldOne, s, es)
         IN  ~r.gaps.failed => Account(d, r.stream, r.gaps, h)
<1> DEFINE n == Len(es)
<1>0. PICK g : Traces(g, es, f, h)
  BY DEF Chain
<1> DEFINE Good(x) == {r \in Yielder : /\ r.stream.open
                                       /\ ~r.gaps.failed => Account(d, r.stream, r.gaps, x)}
           G == [k \in 0 .. n |-> Good(g[k])]
<1>1. n \in Nat /\ \A k \in 1 .. n : es[k] \in Event
  BY LenProperties
<1>2. PICK it : /\ FoldLeft(YieldOne, s, es) = it[1 .. n] /\ it[{}] = s
                /\ \A k \in 1 .. n : it[1 .. k] = YieldOne(it[(1 .. k) \ {k}], es[k])
  BY FoldYieldTable
<1>3. /\ g \in [0 .. n -> Fronts] /\ g[0] = f /\ g[n] = h
      /\ \A k \in 1 .. n : Extends(es[k], g[k - 1], g[k])
  BY <1>0 DEF Traces
<1> HIDE DEF n
<1>4. it[{}] \in G[0]
  BY <1>1, <1>2, <1>3
<1>5. ASSUME NEW k \in 1 .. n, it[(1 .. k) \ {k}] \in G[k - 1] PROVE it[1 .. k] \in G[k]
  <2> DEFINE a == it[(1 .. k) \ {k}]
             b == it[1 .. k]
  <2>0. k - 1 \in 0 .. n /\ k \in 0 .. n
    BY <1>1
  <2>1. a \in Good(g[k - 1])
    BY <1>5, <2>0
  <2>2. b = YieldOne(a, es[k]) /\ es[k] \in Event /\ Extends(es[k], g[k - 1], g[k])
        /\ g[k - 1] \in Fronts
    BY <1>1, <1>2, <1>3, <2>0
  <2> HIDE DEF a, b
  <2>3. b \in Yielder /\ b.stream.open
    BY <2>1, <2>2, YieldOneOK
  <2>4. ASSUME ~b.gaps.failed PROVE Account(d, b.stream, b.gaps, g[k])
    BY <2>1, <2>2, <2>4, YieldOneAccount
  <2>5. b \in Good(g[k])
    BY <2>3, <2>4
  <2> QED
    BY <2>0, <2>5 DEF b
<1>6. it[1 .. n] \in G[n]
  <2> HIDE DEF G
  <2> QED
    BY <1>1, <1>4, <1>5, TableLeads
<1>7. it[1 .. n] \in Good(h)
  BY <1>1, <1>3, <1>6
<1> QED
  BY <1>2, <1>7

(* Nothing is yielded after the source has gone. *)
LEMMA YieldNowhere ==
  ASSUME StorageTypeOK, source.receiver = None, NEW es, Yield(es)
  PROVE  UNCHANGED <<stream, gaps>>
<1>1. source.receiver \notin Starts
  BY CaptureAssumption DEF Starts, None
<1>2. stream \in [Starts -> Stream] /\ gaps \in [Starts -> Gaps]
  BY DEF StorageTypeOK
<1>3. /\ stream' = [stream EXCEPT ![source.receiver] =
                      FoldLeft(YieldOne, [stream |-> stream[source.receiver],
                                          gaps |-> gaps[source.receiver]], es).stream]
      /\ gaps' = [gaps EXCEPT ![source.receiver] =
                      FoldLeft(YieldOne, [stream |-> stream[source.receiver],
                                          gaps |-> gaps[source.receiver]], es).gaps]
  BY DEF Yield
<1> QED
  BY <1>1, <1>2, <1>3

LEMMA YieldSomewhere ==
  ASSUME StorageTypeOK, NEW i \in Starts, source.receiver = i, GapsOK(gaps[i]),
         NEW es \in Seq(Event), Yield(es)
  PROVE  /\ stream' \in [Starts -> Stream] /\ gaps' \in [Starts -> Gaps]
         /\ \A j \in Starts \ {i} : stream'[j] = stream[j] /\ gaps'[j] = gaps[j]
         /\ GapsOK(gaps'[i]) /\ stream'[i].open = stream[i].open
         /\ gaps'[i].batch = gaps[i].batch /\ (gaps[i].failed => gaps'[i].failed)
         /\ ~stream[i].open => stream'[i] = stream[i] /\ gaps'[i] = gaps[i]
<1> DEFINE s == [stream |-> stream[i], gaps |-> gaps[i]]
           r == FoldLeft(YieldOne, s, es)
<1>1. stream \in [Starts -> Stream] /\ gaps \in [Starts -> Gaps]
  BY DEF StorageTypeOK
<1>2. stream' = [stream EXCEPT ![i] = r.stream] /\ gaps' = [gaps EXCEPT ![i] = r.gaps]
  BY DEF Yield
<1>3. s \in Yielder /\ s.stream = stream[i] /\ s.gaps = gaps[i]
  BY <1>1 DEF Yielder
<1> HIDE DEF s
<1>4. /\ r \in Yielder /\ r.stream.open = s.stream.open /\ r.gaps.batch = s.gaps.batch
      /\ s.gaps.failed => r.gaps.failed
      /\ ~s.stream.open => r = s
  BY <1>3, FoldYieldOK
<1> HIDE DEF r
<1>5. r.stream \in Stream /\ r.gaps \in Gaps /\ GapsOK(r.gaps)
  BY <1>4 DEF Yielder
<1>6. stream'[i] = r.stream /\ gaps'[i] = r.gaps
  BY <1>1, <1>2
<1>7. stream' \in [Starts -> Stream] /\ gaps' \in [Starts -> Gaps]
      /\ \A j \in Starts \ {i} : stream'[j] = stream[j] /\ gaps'[j] = gaps[j]
  BY <1>1, <1>2, <1>5
<1> QED
  BY <1>3, <1>4, <1>5, <1>6, <1>7

LEMMA YieldAccount ==
  ASSUME StorageTypeOK, NEW i \in Starts, source.receiver = i, GapsOK(gaps[i]),
         stream[i].open, NEW es \in Seq(Event), Yield(es), NEW d \in Spool, NEW f, NEW h,
         Chain(es, f, h), ~gaps[i].failed => Account(d, stream[i], gaps[i], f)
  PROVE  ~gaps'[i].failed => Account(d, stream'[i], gaps'[i], h)
<1> DEFINE s == [stream |-> stream[i], gaps |-> gaps[i]]
           r == FoldLeft(YieldOne, s, es)
<1>1. stream \in [Starts -> Stream] /\ gaps \in [Starts -> Gaps]
  BY DEF StorageTypeOK
<1>2. stream' = [stream EXCEPT ![i] = r.stream] /\ gaps' = [gaps EXCEPT ![i] = r.gaps]
  BY DEF Yield
<1>3. s \in Yielder /\ s.stream = stream[i] /\ s.gaps = gaps[i]
  BY <1>1 DEF Yielder
<1> HIDE DEF s
<1>4. ~r.gaps.failed => Account(d, r.stream, r.gaps, h)
  BY <1>3, FoldYieldAccount
<1> HIDE DEF r
<1>5. stream'[i] = r.stream /\ gaps'[i] = r.gaps
  BY <1>1, <1>2
<1> QED
  BY <1>4, <1>5

-----------------------------------------------------------------------------
(* The coordinator: one lemma for each action.                              *)

LEMMA StartIsNumber == ASSUME NEW i \in Starts PROVE i # None /\ i \in Ref
  BY CaptureAssumption DEF Starts, None, Ref

LEMMA CurrentUnique ==
  ASSUME CallsInv, StartsDoNotOverlap, NEW i \in Starts, NEW j \in Starts,
         Current(i), Current(j)
  PROVE  i = j
<1>1. CASE calls[i] \in {"source", "begin", "undo"} \/ calls[j] \in {"source", "begin", "undo"}
  <2>1. phase = "preflighting"
    BY <1>1 DEF CallsInv, Starting
  <2> QED
    BY <2>1 DEF Current, StartsDoNotOverlap
<1>2. CASE ~(calls[i] \in {"source", "begin", "undo"} \/ calls[j] \in {"source", "begin", "undo"})
  BY <1>2 DEF Current
<1> QED
  BY <1>1, <1>2

HeldType == [rec : Ref, spool : Ref, cont : Ref, writer : Ref, gaps : Ref,
             failed : BOOLEAN, fatal : BOOLEAN, env : BOOLEAN]

(* What everything is at first and after a crash. *)
LEMMA FreshOK ==
  /\ NoCloser \in Closer /\ NoHeld \in HeldType
  /\ PipeOK(NewPipe) /\ [buf |-> <<>>, open |-> FALSE] \in Stream
  /\ GapsOK(NoGaps) /\ Quiet(NoGaps) /\ NoGaps \in Gaps
  /\ NoSpool \in Spool /\ \A t \in Tracks : NoSpool.recs[t] = <<>>
<1>1. <<>> \in Seq(Item) /\ <<>> \in Seq(Event) /\ <<>> \in Seq(Gap)
  OBVIOUS
<1>2. NoCloser \in Closer
  BY DEF NoCloser, Closer, Stages, Ref
<1>3. NoHeld \in HeldType
  BY DEF NoHeld, Ref, HeldType
<1>4. NoGaps \in Gaps
  BY <1>1 DEF NoGaps, Gaps
<1>5. GapsOK(NoGaps) /\ Quiet(NoGaps)
  BY <1>4, FS_EmptySet DEF GapsOK, NoGaps, Quiet
<1>6. NoSpool \in Spool
  BY <1>1 DEF NoSpool, Spool
<1>7. \A t \in Tracks : NoSpool.recs[t] = <<>>
  BY DEF NoSpool
<1>8. [buf |-> <<>>, open |-> FALSE] \in Stream
  BY <1>1 DEF Stream
<1>9. NewPipe \in Pipe
  BY <1>1 DEF NewPipe, Pipe
<1>10. PipeOK(NewPipe)
  BY <1>9 DEF PipeOK, NewPipe, Accumulated
<1> QED
  BY <1>2, <1>3, <1>4, <1>5, <1>6, <1>7, <1>8, <1>10

SourceType  == [receiver : Ref, alive : BOOLEAN, at : [Tracks -> Nat]]
HandoffType == [retained : Seq(Item), late : SUBSET Item, dropped : [Tracks -> SUBSET Gap],
                scheduled : BOOLEAN, closed : BOOLEAN]

LEMMA FreshSource ==
  /\ NoSource \in SourceType
  /\ \A i \in Starts : [NoSource EXCEPT !.receiver = i, !.alive = TRUE] \in SourceType
  /\ NewHandoff \in HandoffType /\ \A t \in Tracks : NewHandoff.dropped[t] = {}
<1>1. <<>> \in Seq(Item)
  OBVIOUS
<1>2. None \in Ref /\ \A i \in Starts : i \in Ref
  BY DEF Ref
<1>3. NoSource \in SourceType
  BY <1>2 DEF NoSource, SourceType
<1>4. \A i \in Starts : [NoSource EXCEPT !.receiver = i, !.alive = TRUE] \in SourceType
  BY <1>2, <1>3 DEF SourceType
<1>5. NewHandoff \in HandoffType /\ \A t \in Tracks : NewHandoff.dropped[t] = {}
  BY <1>1 DEF NewHandoff, HandoffType
<1> QED
  BY <1>3, <1>4, <1>5

LEMMA InitControl == ASSUME Init PROVE ControlInv
<1> USE DEF Init
<1>1. ControlTypeOK
  BY FreshOK DEF ControlTypeOK, Phases, Calls, HeldType
<1>2. CaptureTypeOK
  <2>1. <<>> \in Seq(Item) /\ None \in Ref
    BY DEF Ref
  <2> QED
    BY <2>1 DEF CaptureTypeOK, NoSource, NewHandoff
<1>3. StorageTypeOK
  BY FreshOK DEF StorageTypeOK
<1>4. PipeOK(pipe)
  BY FreshOK
<1>5. CallsInv
  BY DEF CallsInv, NoCloser, Working, InFlight, Starting
<1>6. RefsInv
  BY DEF RefsInv, NoHeld, NoSource
<1>7. TasksInv
  BY FreshOK DEF TasksInv
<1>8. HandoffInv
  BY DEF HandoffInv, NewHandoff, NoSource, NoCloser
<1>9. \A i \in Starts : ~Current(i)
  BY DEF Current
<1> QED
  BY <1>1, <1>2, <1>3, <1>4, <1>5, <1>6, <1>7, <1>8, <1>9 DEF ControlInv

LEMMA Types ==
  ASSUME ControlInv
  PROVE  /\ phase \in Phases /\ calls \in [Starts -> Calls] /\ held \in HeldType
         /\ closer \in [Starts -> Closer] /\ faults \in Nat
         /\ writer \in [Starts -> {"none", "running", "failing", "done"}]
         /\ source \in SourceType /\ handoff \in HandoffType /\ batch \in Seq(Item)
         /\ stream \in [Starts -> Stream] /\ gaps \in [Starts -> Gaps]
         /\ disk \in [Starts -> Spool] /\ PipeOK(pipe)
  BY DEF ControlInv, ControlTypeOK, CaptureTypeOK, StorageTypeOK, HeldType, SourceType,
         HandoffType

(* A reference to nothing current is no reference. *)
LEMMA References ==
  ASSUME ControlInv, NEW x \in {held.spool, held.cont, held.writer, held.gaps, source.receiver}
  PROVE  x = None \/ (x \in Starts /\ Current(x))
<1>1. held \in HeldType /\ source \in SourceType
  BY Types
<1>2. x \in Ref
  BY <1>1 DEF HeldType, SourceType
<1> QED
  BY <1>2 DEF ControlInv, RefsInv, Ref

(* Between recordings nothing is referred to. *)
LEMMA NothingCurrent ==
  ASSUME ControlInv, \A i \in Starts : ~Current(i)
  PROVE  held.spool = None /\ held.cont = None /\ held.writer = None /\ held.gaps = None
         /\ source.receiver = None
  BY References

(* The coordinator's part of the invariant is about the coordinator only. *)
LEMMA SameCoordinator ==
  ASSUME ControlInv, UNCHANGED coordinator, source'.receiver = source.receiver
  PROVE  CallsInv' /\ RefsInv' /\ \A i \in Starts : Current(i)' <=> Current(i)
<1>1. UNCHANGED <<phase, calls, held, closer>>
  BY DEF coordinator
<1>2. CallsInv'
  BY <1>1 DEF ControlInv, CallsInv, InFlight, Working
<1>3. \A x : Current(x)' <=> Current(x)
  BY <1>1 DEF Current
<1>4. RefsInv'
  BY <1>1, <1>3 DEF ControlInv, RefsInv
<1> QED
  BY <1>2, <1>3, <1>4

LEMMA SameCapture ==
  ASSUME ControlInv, UNCHANGED capture
  PROVE  CaptureTypeOK' /\ PipeOK(pipe)' /\ UNCHANGED <<source, handoff, batch, pipe>>
<1>1. UNCHANGED <<source, handoff, batch, pipe>>
  BY DEF capture
<1>2. CaptureTypeOK'
  BY <1>1 DEF ControlInv, CaptureTypeOK
<1> QED
  BY <1>1, <1>2 DEF ControlInv

LEMMA SameStorage ==
  ASSUME ControlInv, UNCHANGED storage
  PROVE  StorageTypeOK' /\ UNCHANGED <<stream, writer, gaps, disk>>
<1>1. UNCHANGED <<stream, writer, gaps, disk>>
  BY DEF storage
<1> QED
  BY <1>1 DEF ControlInv, StorageTypeOK

(* Start and Paused: the flags of the last recording go. *)
LEMMA EnterPreflightControl ==
  ASSUME ControlInv, StartsDoNotOverlap, StartsDoNotOverlap', NEW i \in Starts,
         calls[i] = "pausing" \/ Called(i), EnterPreflight(i)
  PROVE  ControlInv'
<1>0. ControlTypeOK /\ CallsInv /\ RefsInv /\ TasksInv /\ HandoffInv
  BY DEF ControlInv
<1>1. /\ calls \in [Starts -> Calls] /\ held \in HeldType /\ faults \in Nat
      /\ calls' = [calls EXCEPT ![i] = "preflight"]
      /\ phase' = "preflighting" /\ UNCHANGED <<closer, writer, faults>>
      /\ UNCHANGED capture /\ UNCHANGED storage
  BY <1>0 DEF EnterPreflight, ControlTypeOK, HeldType, storage
<1>2. /\ held' \in HeldType /\ held'.rec = held.rec /\ held'.spool = held.spool
      /\ held'.cont = held.cont /\ held'.writer = held.writer /\ held'.gaps = held.gaps
  BY <1>1 DEF EnterPreflight, HeldType
<1>3. calls[i] \in {"idle", "pausing"} /\ calls'[i] = "preflight"
      /\ \A j \in Starts \ {i} : calls'[j] = calls[j]
  BY <1>1 DEF Called
<1>4. \A j \in Starts \ {i} : calls[j] \in {"idle", "done"}
  BY <1>3 DEF StartsDoNotOverlap
<1>5. phase \notin {"preflighting", "recording", "stopping"}
  <2>1. CASE Called(i)
    BY <2>1 DEF Called, Active
  <2>2. CASE calls[i] = "pausing"
    <3>1. phase \notin {"recording", "stopping"}
      BY <1>0, <2>2 DEF CallsInv, InFlight
    <3>2. \A j \in Starts : calls[j] \notin Starting
      BY <1>4, <2>2 DEF Starting
    <3> QED
      BY <1>0, <3>1, <3>2 DEF CallsInv
  <2> QED
    BY <2>1, <2>2
<1>6. \A j \in Starts : ~Current(j)' /\ ~Current(j)
  BY <1>1, <1>3, <1>4, <1>5 DEF Current
<1>7. ControlTypeOK'
  BY <1>0, <1>1, <1>2 DEF ControlTypeOK, HeldType, Phases, Calls
<1>8. CaptureTypeOK' /\ PipeOK(pipe)' /\ StorageTypeOK'
      /\ UNCHANGED <<source, handoff, batch, pipe, stream, writer, gaps, disk>>
  BY <1>1, SameCapture, SameStorage
<1>9. HandoffInv'
  BY <1>0, <1>1, <1>8 DEF HandoffInv
<1>10. CallsInv'
  BY <1>0, <1>1, <1>2, <1>3, <1>4, <1>5 DEF CallsInv, Working, Starting
<1>11. RefsInv'
  BY <1>2, <1>6, <1>8, NothingCurrent DEF RefsInv
<1>12. TasksInv'
  BY <1>0, <1>3, <1>4, <1>6, <1>8 DEF TasksInv
<1> QED
  BY <1>6, <1>7, <1>8, <1>9, <1>10, <1>11, <1>12 DEF ControlInv

(* While a call of start() is on its way, everything else is still. *)
LEMMA Caller ==
  ASSUME ControlInv, StartsDoNotOverlap, NEW i \in Starts, calls[i] \in Starting
  PROVE  /\ phase = "preflighting" /\ (Working(i) <=> calls[i] = "undo")
         /\ Current(i) <=> calls[i] \in {"source", "begin", "undo"}
         /\ \A j \in Starts \ {i} : calls[j] \in {"idle", "done"} /\ ~Current(j) /\ ~Working(j)
<1>1. CallsInv
  BY DEF ControlInv
<1>2. phase = "preflighting"
  BY <1>1 DEF CallsInv
<1>3. \A j \in Starts \ {i} : calls[j] \in {"idle", "done"}
  BY DEF StartsDoNotOverlap, Starting
<1>4. Working(i) <=> calls[i] = "undo"
  BY <1>1, <1>2 DEF CallsInv
<1>5. \A j \in Starts \ {i} : ~Working(j)
  BY <1>1, <1>2, <1>3 DEF CallsInv
<1> QED
  BY <1>2, <1>3, <1>4, <1>5 DEF Current

LEMMA StartPausingControl ==
  ASSUME ControlInv, StartsDoNotOverlap, StartsDoNotOverlap', NEW i \in Starts, StartPausing(i)
  PROVE  ControlInv'
<1>0. ControlTypeOK /\ CallsInv /\ RefsInv /\ TasksInv /\ HandoffInv
  BY DEF ControlInv
<1>1. /\ calls \in [Starts -> Calls] /\ calls' = [calls EXCEPT ![i] = "pausing"]
      /\ calls[i] = "idle" /\ phase \notin {"preflighting", "recording", "stopping"}
      /\ UNCHANGED <<phase, held, closer, faults>> /\ UNCHANGED capture /\ UNCHANGED storage
  BY Types DEF StartPausing, Called, Active
<1>2. calls'[i] = "pausing" /\ \A j \in Starts \ {i} : calls'[j] = calls[j]
  BY <1>1
<1>3. CaptureTypeOK' /\ PipeOK(pipe)' /\ StorageTypeOK'
      /\ UNCHANGED <<source, handoff, batch, pipe, stream, writer, gaps, disk>>
  BY <1>1, SameCapture, SameStorage
<1>4. \A j \in Starts : ~Current(j)' /\ ~Current(j)
  BY <1>0, <1>1, <1>2 DEF Current, CallsInv, Starting
<1>5. ControlTypeOK'
  BY <1>0, <1>1, <1>3 DEF ControlTypeOK, Calls
<1>6. HandoffInv'
  BY <1>0, <1>1, <1>3 DEF HandoffInv
<1>7. CallsInv'
  BY <1>0, <1>1, <1>2 DEF CallsInv, Working, Starting
<1>8. RefsInv'
  BY <1>1, <1>3, <1>4, NothingCurrent DEF RefsInv
<1>9. TasksInv'
  BY <1>0, <1>1, <1>2, <1>3, <1>4 DEF TasksInv
<1> QED
  BY <1>3, <1>4, <1>5, <1>6, <1>7, <1>8, <1>9 DEF ControlInv

LEMMA BlockedControl ==
  ASSUME ControlInv, StartsDoNotOverlap, StartsDoNotOverlap', NEW i \in Starts,
         Blocked(i) \/ Ready(i)
  PROVE  ControlInv'
<1>0. ControlTypeOK /\ CallsInv /\ RefsInv /\ TasksInv /\ HandoffInv
  BY DEF ControlInv
<1>1. /\ calls \in [Starts -> Calls] /\ calls[i] = "preflight"
      /\ UNCHANGED <<held, closer, faults>> /\ UNCHANGED capture /\ UNCHANGED storage
  BY Types DEF Blocked, Ready
<1>2. \/ calls' = [calls EXCEPT ![i] = "done"] /\ phase' = "blocked"
      \/ calls' = [calls EXCEPT ![i] = "create"] /\ phase' = phase
  BY DEF Blocked, Ready
<1>3. \/ calls'[i] = "done" /\ phase' = "blocked"
      \/ calls'[i] = "create" /\ phase' = phase
  BY <1>1, <1>2
<1>4. \A j \in Starts \ {i} : calls'[j] = calls[j]
  BY <1>1, <1>2
<1>5. /\ phase = "preflighting" /\ ~Working(i) /\ ~Current(i)
      /\ \A j \in Starts \ {i} : calls[j] \in {"idle", "done"} /\ ~Current(j) /\ ~Working(j)
  BY <1>1, Caller DEF Starting
<1>6. CaptureTypeOK' /\ PipeOK(pipe)' /\ StorageTypeOK'
      /\ UNCHANGED <<source, handoff, batch, pipe, stream, writer, gaps, disk>>
  BY <1>1, SameCapture, SameStorage
<1>7. \A j \in Starts : ~Current(j)'
  BY <1>3, <1>4, <1>5 DEF Current
<1>8. ControlTypeOK'
  BY <1>0, <1>1, <1>2, <1>6 DEF ControlTypeOK, Calls, Phases
<1>9. HandoffInv'
  BY <1>0, <1>1, <1>6 DEF HandoffInv
<1>10. CallsInv'
  BY <1>0, <1>1, <1>3, <1>4, <1>5 DEF CallsInv, Working, Starting
<1>11. RefsInv'
  BY <1>1, <1>5, <1>6, NothingCurrent DEF RefsInv
<1>12. TasksInv'
  BY <1>0, <1>1, <1>3, <1>4, <1>5, <1>6 DEF TasksInv
<1> QED
  BY <1>6, <1>7, <1>8, <1>9, <1>10, <1>11, <1>12 DEF ControlInv

LEMMA CreateFailsControl ==
  ASSUME ControlInv, StartsDoNotOverlap, StartsDoNotOverlap', NEW i \in Starts, CreateFails(i)
  PROVE  ControlInv'
<1>0. ControlTypeOK /\ CallsInv /\ RefsInv /\ TasksInv /\ HandoffInv
  BY DEF ControlInv
<1>1. /\ calls \in [Starts -> Calls] /\ calls[i] = "create" /\ held \in HeldType
      /\ calls' = [calls EXCEPT ![i] = "done"] /\ phase' = "attention"
      /\ UNCHANGED <<closer, writer, gaps, disk>> /\ UNCHANGED capture /\ faults' \in Nat
  BY Types DEF CreateFails, Fault
<1>2. calls'[i] = "done" /\ \A j \in Starts \ {i} : calls'[j] = calls[j]
  BY <1>1
<1>3. /\ phase = "preflighting" /\ ~Working(i) /\ ~Current(i)
      /\ \A j \in Starts \ {i} : calls[j] \in {"idle", "done"} /\ ~Current(j) /\ ~Working(j)
  BY <1>1, Caller DEF Starting
<1>4. held.cont = None /\ source.receiver = None
  BY <1>3, NothingCurrent
<1>5. stream' = stream
  <2>1. stream \in [Starts -> Stream]
    BY Types
  <2>2. stream' = [j \in Starts |-> stream[j]]
    BY <1>4, StartIsNumber DEF CreateFails
  <2> QED
    BY <2>1, <2>2
<1>6. held' \in HeldType /\ held'.spool = None /\ held'.cont = None /\ held'.writer = None
      /\ held'.gaps = None /\ held'.rec = held.rec
  BY <1>1 DEF CreateFails, HeldType, Ref
<1>7. CaptureTypeOK' /\ PipeOK(pipe)' /\ UNCHANGED <<source, handoff, batch, pipe>>
  BY <1>1, SameCapture
<1>8. StorageTypeOK'
  BY <1>1, <1>5 DEF ControlInv, StorageTypeOK
<1>9. \A j \in Starts : ~Current(j)'
  BY <1>1, <1>2, <1>3 DEF Current
<1>10. ControlTypeOK'
  BY <1>0, <1>1, <1>6 DEF ControlTypeOK, Calls, Phases, HeldType
<1>11. HandoffInv'
  BY <1>0, <1>1, <1>7 DEF HandoffInv
<1>12. CallsInv'
  BY <1>0, <1>1, <1>2, <1>3 DEF CallsInv, Working, Starting
<1>13. RefsInv'
  BY <1>4, <1>6, <1>7 DEF RefsInv
<1>14. TasksInv'
  BY <1>0, <1>1, <1>2, <1>3, <1>5 DEF TasksInv
<1> QED
  BY <1>7, <1>8, <1>9, <1>10, <1>11, <1>12, <1>13, <1>14 DEF ControlInv

(* The spool of i is made; its files and its tasks were untouched until then. *)
LEMMA CreateControl ==
  ASSUME ControlInv, StartsDoNotOverlap, StartsDoNotOverlap', NEW i \in Starts,
         LinkFails(i) \/ Create(i)
  PROVE  ControlInv'
<1>0. ControlTypeOK /\ CallsInv /\ RefsInv /\ TasksInv /\ HandoffInv /\ StorageTypeOK
  BY DEF ControlInv
<1>1. /\ calls \in [Starts -> Calls] /\ calls[i] = "create" /\ held \in HeldType
      /\ disk \in [Starts -> Spool] /\ stream \in [Starts -> Stream]
      /\ writer \in [Starts -> {"none", "running", "failing", "done"}]
      /\ closer \in [Starts -> Closer] /\ faults' \in Nat
  BY Types DEF LinkFails, Create, Fault
<1>2. /\ phase' = phase /\ disk' = [disk EXCEPT ![i].there = TRUE] /\ gaps' = gaps
      /\ UNCHANGED capture
  BY DEF LinkFails, Create
<1>3. /\ phase = "preflighting" /\ ~Working(i) /\ ~Current(i)
      /\ \A j \in Starts \ {i} : calls[j] \in {"idle", "done"} /\ ~Current(j) /\ ~Working(j)
  BY <1>1, Caller DEF Starting
<1>4. held.cont = None /\ held.writer = None /\ held.gaps = None /\ source.receiver = None
  BY <1>3, NothingCurrent
<1>5. writer[i] = "none" /\ gaps[i] = NoGaps /\ stream[i].buf = <<>> /\ ~stream[i].open
      /\ disk[i] = NoSpool
  BY <1>0, <1>1 DEF TasksInv
<1>6. disk' \in [Starts -> Spool]
      /\ \A j \in Starts : disk'[j].recs = disk[j].recs /\ (j # i => disk'[j] = disk[j])
  BY <1>1, <1>2, ZenonT(30) DEF Spool
<1>7. CaptureTypeOK' /\ PipeOK(pipe)' /\ UNCHANGED <<source, handoff, batch, pipe>>
  BY <1>2, SameCapture
<1>8. CASE LinkFails(i)
  <2>1. /\ calls' = [calls EXCEPT ![i] = "undo"] /\ UNCHANGED <<stream, writer>>
        /\ closer' = [closer EXCEPT ![i] = [NoCloser EXCEPT !.kind = "undo", !.stage = "capture"]]
        /\ held' = [held EXCEPT !.spool = i]
    BY <1>8 DEF LinkFails, Undo
  <2>2. calls'[i] = "undo" /\ \A j \in Starts \ {i} : calls'[j] = calls[j]
    BY <1>1, <2>1
  <2>3. held' \in HeldType /\ held'.spool = i /\ held'.cont = None /\ held'.writer = None
        /\ held'.gaps = None /\ held'.rec = held.rec
    BY <1>1, <1>4, <2>1 DEF HeldType, Ref
  <2>4. [NoCloser EXCEPT !.kind = "undo", !.stage = "capture"] \in Closer
    BY FreshOK DEF Closer, Stages
  <2>5. /\ closer' \in [Starts -> Closer]
        /\ closer'[i].stage = "capture" /\ closer'[i].kind = "undo" /\ closer'[i].by = None
        /\ \A j \in Starts \ {i} : closer'[j] = closer[j]
    BY <1>1, <2>1, <2>4 DEF NoCloser
  <2>6. \A j \in Starts : Current(j)' <=> j = i
    BY <1>2, <1>3, <2>2 DEF Current
  <2>7. ControlTypeOK'
    BY <1>0, <1>1, <1>2, <2>1, <2>3, <2>5 DEF ControlTypeOK, Calls, HeldType
  <2>8. StorageTypeOK'
    BY <1>0, <1>2, <1>6, <2>1 DEF StorageTypeOK
  <2>9. CallsInv'
    BY <1>0, <1>2, <1>3, <2>2, <2>3, <2>5 DEF CallsInv, Working, Starting
  <2>10. RefsInv'
    BY <1>4, <1>7, <2>3, <2>6 DEF RefsInv
  <2>11. TasksInv'
    BY <1>0, <1>2, <1>3, <1>5, <1>6, <2>1, <2>2, <2>6, FreshOK DEF TasksInv
  <2>12. HandoffInv'
    BY <1>0, <1>7, <2>5 DEF HandoffInv
  <2>13. LiveInv(i)'
    BY <1>2, <1>4, <1>5, <1>7, <2>1, <2>2, <2>3, <2>5, FreshOK
       DEF LiveInv, Working, UpTo, SourceUp, StreamUp, WriterUp, GapsUp
  <2> QED
    BY <1>7, <2>6, <2>7, <2>8, <2>9, <2>10, <2>11, <2>12, <2>13 DEF ControlInv
<1>9. CASE Create(i)
  <2>1. /\ calls' = [calls EXCEPT ![i] = "source"] /\ closer' = closer
        /\ stream' = [stream EXCEPT ![i].open = TRUE]
        /\ writer' = [writer EXCEPT ![i] = "running"]
        /\ held' = [held EXCEPT !.spool = i, !.cont = i, !.writer = i, !.gaps = i]
    BY <1>9 DEF Create
  <2>2. calls'[i] = "source" /\ \A j \in Starts \ {i} : calls'[j] = calls[j]
    BY <1>1, <2>1
  <2>3. held' \in HeldType /\ held'.spool = i /\ held'.cont = i /\ held'.writer = i
        /\ held'.gaps = i /\ held'.rec = held.rec
    BY <1>1, <2>1 DEF HeldType, Ref
  <2>4. /\ stream' \in [Starts -> Stream] /\ stream'[i].open /\ stream'[i].buf = <<>>
        /\ \A j \in Starts \ {i} : stream'[j] = stream[j]
    BY <1>1, <1>5, <2>1 DEF Stream
  <2>5. writer'[i] = "running" /\ \A j \in Starts \ {i} : writer'[j] = writer[j]
    BY <1>1, <2>1
  <2>6. \A j \in Starts : Current(j)' <=> j = i
    BY <1>2, <1>3, <2>2 DEF Current
  <2>7. ControlTypeOK'
    BY <1>0, <1>1, <1>2, <2>1, <2>3 DEF ControlTypeOK, Calls, HeldType
  <2>8. StorageTypeOK'
    BY <1>0, <1>2, <1>6, <2>4 DEF StorageTypeOK
  <2>9. CallsInv'
    BY <1>0, <1>2, <1>3, <2>1, <2>2, <2>3 DEF CallsInv, Working, Starting
  <2>10. RefsInv'
    BY <1>4, <1>7, <2>3, <2>6 DEF RefsInv
  <2>11. TasksInv'
    BY <1>0, <1>2, <1>3, <1>5, <1>6, <2>2, <2>4, <2>5, <2>6, FreshOK DEF TasksInv
  <2>12. HandoffInv'
    BY <1>0, <1>7, <2>1 DEF HandoffInv
  <2>13. closer'[i] = NoCloser
    BY <1>0, <1>1, <2>1 DEF CallsInv
  <2>14. closer'[i].stage = "none" /\ closer'[i].kind # "fail"
    BY <2>13 DEF NoCloser
  <2>15. LiveInv(i)'
    BY <1>2, <1>4, <1>5, <1>7, <2>1, <2>2, <2>3, <2>4, <2>5, <2>13, <2>14, FreshOK
       DEF LiveInv, Working, UpTo, SourceUp, StreamUp, WriterUp, GapsUp
  <2> QED
    BY <1>7, <2>6, <2>7, <2>8, <2>9, <2>10, <2>11, <2>12, <2>15 DEF ControlInv
<1> QED
  BY <1>8, <1>9

LEMMA SourceStartControl ==
  ASSUME ControlInv, StartsDoNotOverlap, StartsDoNotOverlap', NEW i \in Starts, SourceStart(i)
  PROVE  ControlInv'
<1>0. ControlTypeOK /\ CallsInv /\ RefsInv /\ TasksInv /\ HandoffInv
  BY DEF ControlInv
<1>1. /\ calls \in [Starts -> Calls] /\ calls[i] = "source"
      /\ calls' = [calls EXCEPT ![i] = "begin"]
      /\ UNCHANGED <<phase, held, closer, faults>> /\ UNCHANGED storage
  BY Types DEF SourceStart
<1>2. calls'[i] = "begin" /\ \A j \in Starts \ {i} : calls'[j] = calls[j]
  BY <1>1
<1>3. /\ phase = "preflighting" /\ ~Working(i) /\ Current(i)
      /\ \A j \in Starts \ {i} : calls[j] \in {"idle", "done"} /\ ~Current(j) /\ ~Working(j)
  BY <1>1, Caller DEF Starting
<1>4. LiveInv(i)
  BY <1>3 DEF ControlInv
<1>5. source.receiver = None
  BY <1>1, <1>4 DEF LiveInv
<1>6. /\ source' = [NoSource EXCEPT !.receiver = i, !.alive = TRUE]
      /\ handoff' = NewHandoff /\ batch' = <<>> /\ pipe' = NewPipe
  BY <1>5 DEF SourceStart
<1>7. StorageTypeOK' /\ UNCHANGED <<stream, writer, gaps, disk>>
  BY <1>1, SameStorage
<1>8. source' \in SourceType /\ handoff' \in HandoffType /\ source'.receiver = i
      /\ handoff'.late = {} /\ \A t \in Tracks : handoff'.dropped[t] = {}
  BY <1>6, FreshSource DEF NoSource, NewHandoff
<1>9. CaptureTypeOK'
  BY <1>6, <1>8 DEF CaptureTypeOK, SourceType, HandoffType
<1>10. PipeOK(pipe)'
  BY <1>6, FreshOK
<1>11. \A j \in Starts : Current(j)' <=> j = i
  BY <1>1, <1>2, <1>3 DEF Current
<1>12. ControlTypeOK'
  BY <1>0, <1>1, <1>7 DEF ControlTypeOK, Calls
<1>13. CallsInv'
  BY <1>0, <1>1, <1>2, <1>3 DEF CallsInv, Working, Starting
<1>14. RefsInv'
  BY <1>1, <1>3, <1>8, <1>11, References DEF RefsInv
<1>15. TasksInv'
  BY <1>0, <1>1, <1>2, <1>3, <1>7, <1>11 DEF TasksInv
<1>16. HandoffInv'
  <2>1. \A j \in Starts : closer[j].stage # "finishing"
    BY <1>3 DEF Working
  <2> QED
    BY <1>1, <1>8, <2>1, StartIsNumber DEF HandoffInv
<1>17. LiveInv(i)'
  <2>1. closer[i].stage = "none"
    BY <1>0, <1>1 DEF CallsInv, NoCloser
  <2> QED
    BY <1>1, <1>2, <1>4, <1>7, <1>8, <2>1 DEF LiveInv, Working, UpTo, SourceUp
<1> QED
  BY <1>7, <1>9, <1>10, <1>11, <1>12, <1>13, <1>14, <1>15, <1>16, <1>17 DEF ControlInv

LEMMA FailureEvents ==
  /\ Failure("conversion") \in Event /\ Failure("required_tracks") \in Event
  /\ Failure("overflow") \in Event /\ Failure("stopped") \in Event
  /\ Failure("unavailable") \in Event
  BY DEF Failure, Span, Event, Notice, Notices

LEMMA SourceFailsControl ==
  ASSUME ControlInv, StartsDoNotOverlap, StartsDoNotOverlap', NEW i \in Starts, SourceFails(i)
  PROVE  ControlInv'
<1>0. ControlTypeOK /\ CallsInv /\ RefsInv /\ TasksInv /\ HandoffInv /\ StorageTypeOK
  BY DEF ControlInv
<1> DEFINE s == [stream |-> stream[i], gaps |-> gaps[i]]
           r == YieldOne(s, Failure("unavailable"))
<1>1. /\ calls \in [Starts -> Calls] /\ calls[i] = "source" /\ faults' \in Nat
      /\ stream \in [Starts -> Stream] /\ closer \in [Starts -> Closer]
      /\ gaps \in [Starts -> Gaps]
  BY Types DEF SourceFails, Fault
<1>2. /\ calls' = [calls EXCEPT ![i] = "undo"]
      /\ closer' = [closer EXCEPT ![i] = [NoCloser EXCEPT !.kind = "undo", !.stage = "capture"]]
      /\ stream' = [stream EXCEPT ![i] = r.stream]
      /\ UNCHANGED <<phase, held, writer, gaps, disk>> /\ UNCHANGED capture
  BY DEF SourceFails, Undo
<1>3. /\ phase = "preflighting" /\ ~Working(i) /\ Current(i)
      /\ \A j \in Starts \ {i} : calls[j] \in {"idle", "done"} /\ ~Current(j) /\ ~Working(j)
  BY <1>1, Caller DEF Starting
<1>4. LiveInv(i)
  BY <1>3 DEF ControlInv
<1>5. r.stream \in Stream /\ r.stream.open = stream[i].open
  <2>1. s \in Yielder /\ s.stream = stream[i]
    BY <1>0, <1>1 DEF Yielder, TasksInv
  <2>2. r \in Yielder /\ r.stream.open = s.stream.open
    BY <2>1, FailureEvents, YieldOneOK
  <2> HIDE DEF s, r
  <2> QED
    BY <2>1, <2>2 DEF Yielder
<1> HIDE DEF r
<1>6. calls'[i] = "undo" /\ \A j \in Starts \ {i} : calls'[j] = calls[j]
  BY <1>1, <1>2
<1>7. [NoCloser EXCEPT !.kind = "undo", !.stage = "capture"] \in Closer
  BY FreshOK DEF Closer, Stages
<1>8. /\ closer' \in [Starts -> Closer]
      /\ closer'[i].stage = "capture" /\ closer'[i].kind = "undo" /\ closer'[i].by = None
      /\ \A j \in Starts \ {i} : closer'[j] = closer[j]
  BY <1>1, <1>2, <1>7 DEF NoCloser
<1>9. /\ stream' \in [Starts -> Stream] /\ stream'[i].open = stream[i].open
      /\ \A j \in Starts \ {i} : stream'[j] = stream[j]
  BY <1>1, <1>2, <1>5
<1>10. CaptureTypeOK' /\ PipeOK(pipe)' /\ UNCHANGED <<source, handoff, batch, pipe>>
  BY <1>2, SameCapture
<1>11. StorageTypeOK'
  BY <1>0, <1>2, <1>9 DEF StorageTypeOK
<1>12. \A j \in Starts : Current(j)' <=> j = i
  BY <1>2, <1>3, <1>6 DEF Current
<1>13. ControlTypeOK'
  BY <1>0, <1>1, <1>2, <1>8 DEF ControlTypeOK, Calls
<1>14. CallsInv'
  BY <1>0, <1>2, <1>3, <1>6, <1>8 DEF CallsInv, Working, Starting
<1>15. RefsInv'
  BY <1>2, <1>3, <1>10, <1>12, References DEF RefsInv
<1>16. closer[i].stage = "none"
  BY <1>3, <1>0, <1>1 DEF CallsInv, NoCloser
<1>17. writer[i] = "running"
  <2>1. writer[i] \in {"none", "running", "failing", "done"}
    BY <1>0 DEF ControlTypeOK
  <2>2. writer[i] # "none" /\ writer[i] # "failing" /\ stream[i].open
    BY <1>1, <1>4, <1>16 DEF LiveInv, StreamUp, SourceUp
  <2> QED
    BY <1>0, <2>1, <2>2 DEF TasksInv
<1>18. TasksInv'
  BY <1>0, <1>1, <1>2, <1>3, <1>6, <1>9, <1>12, <1>17 DEF TasksInv
<1>19. HandoffInv'
  BY <1>0, <1>8, <1>10 DEF HandoffInv
<1>20. LiveInv(i)'
  BY <1>1, <1>2, <1>4, <1>6, <1>8, <1>9, <1>10, <1>16, <1>17
     DEF LiveInv, Working, UpTo, SourceUp, StreamUp, WriterUp, GapsUp
<1> QED
  BY <1>10, <1>11, <1>12, <1>13, <1>14, <1>15, <1>18, <1>19, <1>20 DEF ControlInv

LEMMA BeginControl ==
  ASSUME ControlInv, StartsDoNotOverlap, StartsDoNotOverlap', NEW i \in Starts, Begin(i)
  PROVE  ControlInv'
<1>0. ControlTypeOK /\ CallsInv /\ RefsInv /\ TasksInv /\ HandoffInv
  BY DEF ControlInv
<1> DEFINE c == [NoCloser EXCEPT !.kind = "env", !.stage = "capture"]
<1>1. /\ calls \in [Starts -> Calls] /\ calls[i] = "begin" /\ held \in HeldType
      /\ closer \in [Starts -> Closer]
      /\ calls' = [calls EXCEPT ![i] = "done"] /\ phase' \in {"stopping", "recording"}
      /\ held' = [held EXCEPT !.rec = i, !.env = FALSE]
      /\ UNCHANGED faults /\ UNCHANGED capture /\ UNCHANGED storage
  BY Types DEF Begin
<1>2. calls'[i] = "done" /\ \A j \in Starts \ {i} : calls'[j] = calls[j]
  BY <1>1
<1>3. /\ phase = "preflighting" /\ ~Working(i) /\ Current(i)
      /\ \A j \in Starts \ {i} : calls[j] \in {"idle", "done"} /\ ~Current(j) /\ ~Working(j)
  BY <1>1, Caller DEF Starting
<1>4. LiveInv(i) /\ closer[i].stage = "none"
  BY <1>0, <1>1, <1>3 DEF ControlInv, CallsInv, NoCloser
<1>5. /\ held' \in HeldType /\ held'.rec = i /\ held'.spool = held.spool
      /\ held'.cont = held.cont /\ held'.writer = held.writer /\ held'.gaps = held.gaps
  BY <1>1 DEF HeldType, Ref
<1>6. c \in Closer /\ c.stage = "capture" /\ c.kind = "env" /\ c.by = None
  BY FreshOK DEF Closer, Stages, NoCloser
<1>7. \/ closer' = closer /\ phase' = "recording"
      \/ closer' = [closer EXCEPT ![i] = c] /\ phase' = "stopping"
  BY DEF Begin
<1> HIDE DEF c
<1>8. closer' \in [Starts -> Closer] /\ \A j \in Starts \ {i} : closer'[j] = closer[j]
  BY <1>1, <1>6, <1>7
<1>9. \/ closer'[i] = closer[i] /\ phase' = "recording"
      \/ /\ closer'[i].stage = "capture" /\ closer'[i].kind = "env" /\ closer'[i].by = None
         /\ phase' = "stopping"
  BY <1>1, <1>6, <1>7
<1>10. CaptureTypeOK' /\ PipeOK(pipe)' /\ StorageTypeOK'
      /\ UNCHANGED <<source, handoff, batch, pipe, stream, writer, gaps, disk>>
  BY <1>1, SameCapture, SameStorage
<1>11. \A j \in Starts : Current(j)' <=> j = i
  BY <1>1, <1>2, <1>3, <1>5 DEF Current
<1>12. ControlTypeOK'
  BY <1>0, <1>1, <1>5, <1>8, <1>10 DEF ControlTypeOK, Calls, Phases, HeldType
<1>13. CallsInv'
  BY <1>0, <1>1, <1>2, <1>3, <1>4, <1>5, <1>8, <1>9 DEF CallsInv, Working, Starting, InFlight
<1>14. RefsInv'
  BY <1>3, <1>5, <1>10, <1>11, References DEF RefsInv
<1>15. TasksInv'
  BY <1>0, <1>1, <1>2, <1>3, <1>10, <1>11 DEF TasksInv
<1>16. HandoffInv'
  BY <1>0, <1>4, <1>8, <1>9, <1>10 DEF HandoffInv
<1>17. LiveInv(i)'
  BY <1>1, <1>2, <1>4, <1>5, <1>9, <1>10
     DEF LiveInv, Working, UpTo, SourceUp, StreamUp, WriterUp, GapsUp
<1> QED
  BY <1>10, <1>11, <1>12, <1>13, <1>14, <1>15, <1>16, <1>17 DEF ControlInv

(* While the phase says recording, every task of that recording runs. *)
LEMMA Recording ==
  ASSUME ControlInv, phase = "recording", NEW i, i = held.rec
  PROVE  /\ i \in Starts /\ calls[i] = "done" /\ closer[i].stage = "none"
         /\ held.spool = i /\ held.cont = i /\ held.writer = i /\ held.gaps = i
         /\ source.receiver = i /\ stream[i].open /\ writer[i] = "running"
         /\ \A j \in Starts : (Current(j) <=> j = i) /\ ~Working(j) /\ calls[j] \in {"idle", "done"}
<1>0. ControlTypeOK /\ CallsInv /\ TasksInv
  BY DEF ControlInv
<1>1. i \in Starts /\ calls[i] = "done" /\ closer[i].stage = "none"
  BY <1>0 DEF CallsInv
<1>2. \A j \in Starts : calls[j] \in {"idle", "done"}
  BY <1>0 DEF CallsInv, InFlight
<1>3. \A j \in Starts : (Current(j) <=> j = i) /\ ~Working(j)
  BY <1>0, <1>1, <1>2 DEF CallsInv, Current
<1>4. LiveInv(i)
  BY <1>1, <1>3 DEF ControlInv
<1>5. held.spool = i /\ source.receiver = i
  BY <1>1, <1>4 DEF LiveInv, UpTo, SourceUp
<1>6. /\ held.cont = i /\ held.writer = i /\ held.gaps = i /\ stream[i].open
      /\ writer[i] \notin {"none", "failing"}
  BY <1>1, <1>4 DEF LiveInv, UpTo, SourceUp, StreamUp, WriterUp, GapsUp
<1>7. writer[i] = "running"
  <2>1. writer[i] \in {"none", "running", "failing", "done"}
    BY <1>0, <1>1 DEF ControlTypeOK
  <2> QED
    BY <1>0, <1>1, <1>6, <2>1 DEF TasksInv
<1> QED
  BY <1>1, <1>2, <1>3, <1>5, <1>6, <1>7

(* The phase becomes stopping and the recording gets a closer. *)
LEMMA Closes ==
  ASSUME ControlInv, phase = "recording", NEW i, i = held.rec,
         NEW kind \in {"stop", "limit", "env", "fail"}, NEW by \in Ref, Close(kind, by),
         UNCHANGED calls, held' \in HeldType, held'.rec = held.rec
  PROVE  /\ i \in Starts /\ phase' = "stopping" /\ closer' \in [Starts -> Closer]
         /\ closer'[i].stage = "capture" /\ closer'[i].kind = kind
         /\ closer'[i].wait = i /\ closer'[i].by = by
         /\ \A j \in Starts : Current(j)' <=> j = i
         /\ CallsInv' /\ \A j \in Starts \ {i} : closer'[j] = closer[j]
<1>0. CallsInv
  BY DEF ControlInv
<1>1. /\ i \in Starts /\ calls[i] = "done" /\ closer[i].stage = "none" /\ held.writer = i
      /\ \A j \in Starts : (Current(j) <=> j = i) /\ ~Working(j) /\ calls[j] \in {"idle", "done"}
  BY Recording
<1> DEFINE c == [kind |-> kind, stage |-> "capture", by |-> by, wait |-> i, ok |-> TRUE]
<1>2. phase' = "stopping" /\ closer' = [closer EXCEPT ![i] = c] /\ closer \in [Starts -> Closer]
  BY <1>1, Types DEF Close
<1>3. c \in Closer /\ c.stage = "capture" /\ c.kind = kind /\ c.wait = i /\ c.by = by
  BY <1>1 DEF Closer, Stages, Ref
<1> HIDE DEF c
<1>4. closer' \in [Starts -> Closer] /\ closer'[i] = c
      /\ \A j \in Starts \ {i} : closer'[j] = closer[j]
  BY <1>1, <1>2, <1>3
<1>5. \A j \in Starts : Current(j)' <=> j = i
  BY <1>1, <1>2 DEF Current
<1>6. CallsInv'
  BY <1>0, <1>1, <1>2, <1>3, <1>4 DEF CallsInv, Working, Starting, InFlight
<1> QED
  BY <1>1, <1>2, <1>3, <1>4, <1>5, <1>6

LEMMA StopControl ==
  ASSUME ControlInv, NEW kind \in {"stop", "limit", "env"}, phase = "recording",
         Close(kind, None), UNCHANGED <<calls, held, capture, storage, faults>>
  PROVE  ControlInv'
<1>0. ControlTypeOK /\ RefsInv /\ TasksInv /\ HandoffInv
  BY DEF ControlInv
<1>1. PICK i : i = held.rec
  OBVIOUS
<1>2. UNCHANGED <<calls, held, faults>> /\ UNCHANGED capture /\ UNCHANGED storage /\ held \in HeldType
  BY Types
<1>3. /\ i \in Starts /\ phase' = "stopping" /\ closer' \in [Starts -> Closer]
      /\ closer'[i].stage = "capture" /\ closer'[i].kind = kind
      /\ closer'[i].wait = i /\ closer'[i].by = None
      /\ \A j \in Starts : Current(j)' <=> j = i
      /\ CallsInv' /\ \A j \in Starts \ {i} : closer'[j] = closer[j]
  <2>1. None \in Ref
    BY DEF Ref
  <2> QED
    BY <1>1, <1>2, <2>1, Closes
<1>4. /\ calls[i] = "done" /\ closer[i].stage = "none"
      /\ held.spool = i /\ held.cont = i /\ held.writer = i /\ held.gaps = i
      /\ source.receiver = i /\ stream[i].open /\ writer[i] = "running"
      /\ \A j \in Starts : Current(j) <=> j = i
  BY <1>1, Recording
<1>5. CaptureTypeOK' /\ PipeOK(pipe)' /\ StorageTypeOK'
      /\ UNCHANGED <<source, handoff, batch, pipe, stream, writer, gaps, disk>>
  BY <1>2, SameCapture, SameStorage
<1>6. ControlTypeOK'
  BY <1>0, <1>2, <1>3, <1>5 DEF ControlTypeOK, Phases
<1>7. RefsInv'
  BY <1>2, <1>3, <1>4, <1>5 DEF RefsInv
<1>8. TasksInv'
  BY <1>0, <1>2, <1>3, <1>4, <1>5 DEF TasksInv
<1>9. HandoffInv'
  BY <1>0, <1>3, <1>5 DEF HandoffInv
<1>10. LiveInv(i)'
  BY <1>2, <1>3, <1>4, <1>5 DEF LiveInv, Working, UpTo, SourceUp, StreamUp, WriterUp, GapsUp
<1> QED
  BY <1>3, <1>5, <1>6, <1>7, <1>8, <1>9, <1>10 DEF ControlInv

LEMMA EnvironmentLostControl ==
  ASSUME ControlInv, EnvironmentLost
  PROVE  ControlInv'
<1>1. CASE phase = "recording"
  BY <1>1, StopControl DEF EnvironmentLost
<1>2. CASE phase # "recording"
  <2>0. ControlTypeOK /\ CallsInv /\ RefsInv /\ TasksInv /\ HandoffInv
    BY DEF ControlInv
  <2>1. /\ held' = [held EXCEPT !.env = TRUE] /\ UNCHANGED <<phase, calls, closer, faults>>
        /\ UNCHANGED capture /\ UNCHANGED storage
    BY <1>2 DEF EnvironmentLost
  <2>2. /\ held' \in HeldType /\ held'.spool = held.spool /\ held'.cont = held.cont
        /\ held'.writer = held.writer /\ held'.gaps = held.gaps /\ held'.rec = held.rec
    BY <2>1, Types DEF HeldType
  <2>3. CaptureTypeOK' /\ PipeOK(pipe)' /\ StorageTypeOK'
        /\ UNCHANGED <<source, handoff, batch, pipe, stream, writer, gaps, disk>>
    BY <2>1, SameCapture, SameStorage
  <2>4. \A j : Current(j)' <=> Current(j)
    BY <2>1, <2>2 DEF Current
  <2>5. ControlTypeOK'
    BY <2>0, <2>1, <2>2, <2>3 DEF ControlTypeOK, HeldType
  <2>6. CallsInv'
    BY <2>0, <2>1, <2>2 DEF CallsInv, InFlight, Working
  <2>7. RefsInv'
    BY <2>0, <2>2, <2>3, <2>4 DEF RefsInv
  <2>8. TasksInv'
    BY <2>0, <2>1, <2>3, <2>4 DEF TasksInv
  <2>9. HandoffInv'
    BY <2>0, <2>1, <2>3 DEF HandoffInv
  <2>10. ASSUME NEW i \in Starts, Current(i) PROVE LiveInv(i)'
    <3>1. LiveInv(i)
      BY <2>10 DEF ControlInv
    <3> QED
      BY <2>1, <2>2, <2>3, <3>1 DEF LiveInv, Working, UpTo
  <2> QED
    BY <2>3, <2>4, <2>5, <2>6, <2>7, <2>8, <2>9, <2>10 DEF ControlInv
<1> QED
  BY <1>1, <1>2

-----------------------------------------------------------------------------
(* A recording that is being stopped is the current one, and the only one. *)
LEMMA Stopping ==
  ASSUME ControlInv, StartsDoNotOverlap, NEW i \in Starts, Working(i)
  PROVE  /\ Current(i) /\ LiveInv(i) /\ closer[i] \in Closer
         /\ \/ calls[i] = "undo" /\ phase = "preflighting"
            \/ calls[i] = "done" /\ phase = "stopping" /\ held.rec = i
         /\ \A j \in Starts \ {i} : ~Current(j) /\ ~Working(j) /\ calls[j] \in {"idle", "done"}
<1>1. CallsInv /\ closer \in [Starts -> Closer] /\ calls \in [Starts -> Calls]
  BY Types DEF ControlInv
<1>2. CASE calls[i] = "undo"
  <2>1. calls[i] \in Starting
    BY <1>2 DEF Starting
  <2> QED
    BY <1>1, <1>2, <2>1, Caller DEF ControlInv
<1>3. CASE calls[i] # "undo"
  <2>1. phase = "stopping" /\ held.rec = i
    BY <1>1, <1>3 DEF CallsInv
  <2>2. calls[i] = "done" /\ \A j \in Starts : calls[j] \in {"idle", "done"}
    BY <1>1, <2>1 DEF CallsInv, InFlight
  <2>3. Current(i) /\ \A j \in Starts \ {i} : ~Current(j)
    BY <2>1, <2>2 DEF Current
  <2>4. \A j \in Starts \ {i} : ~Working(j)
    BY <1>1, <2>1, <2>2 DEF CallsInv
  <2> QED
    BY <1>1, <2>1, <2>2, <2>3, <2>4 DEF ControlInv
<1> QED
  BY <1>2, <1>3

(* A stop goes from one stage to another. *)
LEMMA Advances ==
  ASSUME ControlInv, StartsDoNotOverlap, NEW i \in Starts, Working(i),
         UNCHANGED <<phase, calls>>, held'.rec = held.rec,
         NEW stage \in Stages \ {"none", "closed"}, closer'[i].stage = stage,
         \A j \in Starts \ {i} : closer'[j] = closer[j]
  PROVE  CallsInv' /\ \A j : Current(j)' <=> Current(j)
<1>0. CallsInv
  BY DEF ControlInv
<1>1. /\ \/ calls[i] = "undo" /\ phase = "preflighting"
         \/ calls[i] = "done" /\ phase = "stopping" /\ held.rec = i
      /\ \A j \in Starts \ {i} : ~Working(j)
  BY Stopping
<1>2. CallsInv'
  BY <1>0, <1>1 DEF CallsInv, Working, InFlight
<1> QED
  BY <1>2 DEF Current

LEMMA StopCaptureControl ==
  ASSUME ControlInv, StartsDoNotOverlap, NEW i \in Starts, StopCapture(i)
  PROVE  ControlInv'
<1>0. ControlTypeOK /\ RefsInv /\ TasksInv /\ HandoffInv
  BY DEF ControlInv
<1>1. /\ closer[i].stage = "capture" /\ closer \in [Starts -> Closer] /\ faults' \in Nat
      /\ UNCHANGED <<phase, calls, held>> /\ UNCHANGED capture /\ UNCHANGED storage
  BY Types DEF StopCapture, Fault
<1>2. Working(i)
  BY <1>1 DEF Working
<1>3. PICK stage \in {"drain", "closing"} :
        /\ \/ closer' = [closer EXCEPT ![i].stage = stage]
           \/ closer' = [closer EXCEPT ![i].stage = stage, ![i].ok = FALSE]
        /\ stage = "drain" <=> source.receiver = None
  BY DEF StopCapture
<1>4. /\ closer' \in [Starts -> Closer] /\ closer'[i].stage = stage
      /\ closer'[i].kind = closer[i].kind /\ closer'[i].by = closer[i].by
      /\ closer'[i].wait = closer[i].wait
      /\ \A j \in Starts \ {i} : closer'[j] = closer[j]
  <2>1. stage \in Stages
    BY DEF Stages
  <2> QED
    BY <1>1, <1>3, <2>1 DEF Closer
<1>5. CallsInv' /\ \A j : Current(j)' <=> Current(j)
  BY <1>1, <1>2, <1>4, Advances DEF Stages
<1>6. CaptureTypeOK' /\ PipeOK(pipe)' /\ StorageTypeOK'
      /\ UNCHANGED <<source, handoff, batch, pipe, stream, writer, gaps, disk>>
  BY <1>1, SameCapture, SameStorage
<1>7. ControlTypeOK'
  BY <1>0, <1>1, <1>4, <1>6 DEF ControlTypeOK
<1>8. RefsInv'
  BY <1>0, <1>1, <1>5, <1>6 DEF RefsInv
<1>9. TasksInv'
  BY <1>0, <1>1, <1>5, <1>6 DEF TasksInv
<1>10. HandoffInv'
  BY <1>0, <1>4, <1>6 DEF HandoffInv
<1>11. LiveInv(i) /\ \A j \in Starts : Current(j) <=> j = i
  BY <1>2, Stopping
<1>12. LiveInv(i)'
  <2>1. source.receiver = None <=> calls[i] = "undo"
    <3>1. calls[i] \in {"undo", "done"}
      BY <1>2, Stopping
    <3> QED
      BY <1>1, <1>11, <3>1, StartIsNumber DEF LiveInv, UpTo, SourceUp
  <2> QED
    BY <1>1, <1>3, <1>4, <1>6, <1>11, <2>1
       DEF LiveInv, Working, UpTo, SourceUp, StreamUp, WriterUp, GapsUp
<1> QED
  BY <1>5, <1>6, <1>7, <1>8, <1>9, <1>10, <1>11, <1>12 DEF ControlInv

LEMMA CloseHandoffControl ==
  ASSUME ControlInv, StartsDoNotOverlap, NEW i \in Starts, CloseHandoff(i)
  PROVE  ControlInv'
<1>0. ControlTypeOK /\ CaptureTypeOK /\ RefsInv /\ TasksInv /\ HandoffInv
  BY DEF ControlInv
<1>1. /\ closer[i].stage = "closing" /\ closer \in [Starts -> Closer] /\ handoff \in HandoffType
      /\ handoff.late = {} /\ handoff' = [handoff EXCEPT !.closed = TRUE]
      /\ closer' = [closer EXCEPT ![i].stage = "finishing"]
      /\ UNCHANGED <<phase, calls, held, source, batch, pipe, faults>> /\ UNCHANGED storage
  BY Types DEF CloseHandoff
<1>2. Working(i)
  BY <1>1 DEF Working
<1>3. /\ closer' \in [Starts -> Closer] /\ closer'[i].stage = "finishing"
      /\ closer'[i].kind = closer[i].kind /\ closer'[i].by = closer[i].by
      /\ closer'[i].wait = closer[i].wait
      /\ \A j \in Starts \ {i} : closer'[j] = closer[j]
  BY <1>1 DEF Closer, Stages
<1>4. CallsInv' /\ \A j : Current(j)' <=> Current(j)
  BY <1>1, <1>2, <1>3, Advances DEF Stages
<1>5. /\ handoff' \in HandoffType /\ handoff'.late = {} /\ handoff'.closed
      /\ handoff'.scheduled = handoff.scheduled /\ handoff'.dropped = handoff.dropped
  BY <1>1 DEF HandoffType
<1>6. StorageTypeOK' /\ UNCHANGED <<stream, writer, gaps, disk>>
  BY <1>1, SameStorage
<1>7. CaptureTypeOK' /\ PipeOK(pipe)'
  BY <1>0, <1>1, <1>5 DEF CaptureTypeOK, HandoffType, ControlInv
<1>8. ControlTypeOK'
  BY <1>0, <1>1, <1>3, <1>6 DEF ControlTypeOK
<1>9. RefsInv'
  BY <1>0, <1>1, <1>4 DEF RefsInv
<1>10. TasksInv'
  BY <1>0, <1>1, <1>4, <1>6 DEF TasksInv
<1>11. HandoffInv'
  BY <1>0, <1>1, <1>5 DEF HandoffInv
<1>12. LiveInv(i) /\ \A j \in Starts : Current(j) <=> j = i
  BY <1>2, Stopping
<1>13. LiveInv(i)'
  BY <1>1, <1>3, <1>6, <1>12 DEF LiveInv, Working, UpTo, SourceUp, StreamUp, WriterUp, GapsUp
<1> QED
  BY <1>4, <1>6, <1>7, <1>8, <1>9, <1>10, <1>11, <1>12, <1>13 DEF ControlInv

(* What a yield keeps of the control state, whoever receives it. *)
LEMMA YieldControl ==
  ASSUME ControlInv, NEW es \in Seq(Event), Yield(es)
  PROVE  /\ stream' \in [Starts -> Stream] /\ gaps' \in [Starts -> Gaps]
         /\ \A j \in Starts :
              /\ GapsOK(gaps'[j]) /\ stream'[j].open = stream[j].open
              /\ gaps'[j].batch = gaps[j].batch
              /\ ~stream[j].open \/ source.receiver # j => stream'[j] = stream[j] /\ gaps'[j] = gaps[j]
<1>1. StorageTypeOK /\ TasksInv
  BY DEF ControlInv
<1>2. source.receiver = None \/ source.receiver \in Starts
  BY References
<1>3. CASE source.receiver = None
  <2>1. UNCHANGED <<stream, gaps>>
    BY <1>1, <1>3, YieldNowhere
  <2> QED
    BY <1>1, <2>1 DEF StorageTypeOK, TasksInv
<1>4. CASE source.receiver \in Starts
  <2>1. PICK i \in Starts : source.receiver = i
    BY <1>4
  <2>2. GapsOK(gaps[i])
    BY <1>1 DEF TasksInv
  <2>3. /\ stream' \in [Starts -> Stream] /\ gaps' \in [Starts -> Gaps]
        /\ \A j \in Starts \ {i} : stream'[j] = stream[j] /\ gaps'[j] = gaps[j]
        /\ GapsOK(gaps'[i]) /\ stream'[i].open = stream[i].open
        /\ gaps'[i].batch = gaps[i].batch
        /\ ~stream[i].open => stream'[i] = stream[i] /\ gaps'[i] = gaps[i]
    BY <1>1, <2>1, <2>2, YieldSomewhere
  <2> QED
    BY <1>1, <2>1, <2>3 DEF TasksInv
<1> QED
  BY <1>2, <1>3, <1>4

(* The receiver of a yield is the recording whose stream is open. *)
LEMMA Receiver ==
  ASSUME ControlInv, NEW i \in Starts, source.receiver = i
  PROVE  /\ Current(i) /\ LiveInv(i) /\ closer[i].stage \in SourceUp /\ stream[i].open
         /\ writer[i] \in {"running", "failing"} /\ calls[i] \notin {"source", "undo"}
<1>1. Current(i)
  BY References, StartIsNumber
<1>2. LiveInv(i)
  BY <1>1 DEF ControlInv
<1>3. calls[i] \notin {"source", "undo"} /\ closer[i].stage \in SourceUp
  BY <1>2, StartIsNumber DEF LiveInv, UpTo
<1>4. writer[i] # "none" /\ stream[i].open
  BY <1>2, <1>3 DEF LiveInv, StreamUp
<1>5. writer[i] \in {"running", "failing"}
  <2>1. writer[i] \in {"none", "running", "failing", "done"}
    BY Types
  <2> QED
    BY <1>4, <2>1 DEF ControlInv, TasksInv
<1> QED
  BY <1>1, <1>2, <1>3, <1>4, <1>5

LEMMA FinishPipelineControl ==
  ASSUME ControlInv, StartsDoNotOverlap, NEW i \in Starts, FinishPipeline(i)
  PROVE  ControlInv'
<1>0. ControlTypeOK /\ CaptureTypeOK /\ StorageTypeOK /\ RefsInv /\ TasksInv /\ HandoffInv
  BY DEF ControlInv
<1>1. /\ closer[i].stage = "finishing" /\ closer \in [Starts -> Closer] /\ handoff \in HandoffType
      /\ batch = <<>> /\ pipe' = Finished(pipe).p /\ Yield(Finished(pipe).events)
      /\ source' = NoSource /\ handoff' = [handoff EXCEPT !.scheduled = FALSE]
      /\ closer' = [closer EXCEPT ![i].stage = "drain"]
      /\ UNCHANGED <<phase, calls, held, batch, writer, disk, faults>>
  BY Types DEF FinishPipeline
<1>2. Working(i)
  BY <1>1 DEF Working
<1>3. /\ closer' \in [Starts -> Closer] /\ closer'[i].stage = "drain"
      /\ closer'[i].kind = closer[i].kind /\ closer'[i].by = closer[i].by
      /\ closer'[i].wait = closer[i].wait
      /\ \A j \in Starts \ {i} : closer'[j] = closer[j]
  BY <1>1 DEF Closer, Stages
<1>4. CallsInv' /\ \A j : Current(j)' <=> Current(j)
  BY <1>1, <1>2, <1>3, Advances DEF Stages
<1>5. LiveInv(i) /\ \A j \in Starts : Current(j) <=> j = i
  BY <1>2, Stopping
<1>6. source.receiver = i
  BY <1>1, <1>2, <1>5, Stopping DEF LiveInv, UpTo, SourceUp
<1>7. PipeOK(pipe') /\ Finished(pipe).events \in Seq(Event)
  BY <1>1, Types, FinishedSound DEF Delivers
<1>8. /\ stream' \in [Starts -> Stream] /\ gaps' \in [Starts -> Gaps]
      /\ \A j \in Starts :
           /\ GapsOK(gaps'[j]) /\ stream'[j].open = stream[j].open
           /\ source.receiver # j => stream'[j] = stream[j] /\ gaps'[j] = gaps[j]
  BY <1>1, <1>7, YieldControl
<1>9. writer[i] \in {"running", "failing"} /\ calls[i] \notin {"source", "undo"}
  BY <1>6, Receiver
<1>10. /\ handoff' \in HandoffType /\ handoff'.late = handoff.late /\ ~handoff'.scheduled
       /\ handoff'.closed = handoff.closed /\ handoff'.dropped = handoff.dropped
  BY <1>1 DEF HandoffType
<1>11. source' \in SourceType /\ source'.receiver = None /\ ~source'.alive
  BY <1>1, FreshSource DEF NoSource
<1>12. ControlTypeOK'
  BY <1>0, <1>1, <1>3 DEF ControlTypeOK
<1>13. CaptureTypeOK'
  BY <1>0, <1>1, <1>10, <1>11 DEF CaptureTypeOK, HandoffType, SourceType
<1>14. StorageTypeOK'
  BY <1>0, <1>1, <1>8 DEF StorageTypeOK
<1>15. RefsInv'
  BY <1>0, <1>1, <1>4, <1>11 DEF RefsInv
<1>16. TasksInv'
  BY <1>0, <1>1, <1>4, <1>5, <1>6, <1>8, <1>9 DEF TasksInv
<1>17. HandoffInv'
  <2>1. handoff.late = {}
    BY <1>0, <1>1 DEF HandoffInv
  <2>2. \A j \in Starts : closer'[j].stage # "finishing"
    BY <1>2, <1>3, Stopping DEF Working
  <2> QED
    BY <1>1, <1>10, <1>11, <2>1, <2>2 DEF HandoffInv
<1>18. LiveInv(i)'
  BY <1>1, <1>3, <1>5, <1>8, <1>9, <1>11 DEF LiveInv, Working, UpTo, SourceUp, StreamUp, WriterUp, GapsUp
<1> QED
  BY <1>4, <1>5, <1>7, <1>12, <1>13, <1>14, <1>15, <1>16, <1>17, <1>18 DEF ControlInv

LEMMA FinishStreamControl ==
  ASSUME ControlInv, StartsDoNotOverlap, NEW i \in Starts, FinishStream(i)
  PROVE  ControlInv'
<1>0. ControlTypeOK /\ StorageTypeOK /\ RefsInv /\ TasksInv /\ HandoffInv
  BY DEF ControlInv
<1> DEFINE wait == IF closer[i].kind = "fail" THEN closer[i].wait ELSE held.writer
<1>1. /\ closer[i].stage = "drain" /\ closer \in [Starts -> Closer] /\ held \in HeldType
      /\ stream \in [Starts -> Stream]
      /\ held' = [held EXCEPT !.cont = None]
      /\ stream' = [j \in Starts |-> IF j = held.cont THEN [stream[j] EXCEPT !.open = FALSE]
                                     ELSE stream[j]]
      /\ writer' = [w \in Starts |-> IF w = closer[i].by THEN "running" ELSE writer[w]]
      /\ UNCHANGED <<phase, calls, gaps, disk, faults>> /\ UNCHANGED capture
  BY Types DEF FinishStream
<1>2. Working(i)
  BY <1>1 DEF Working
<1>3. closer' = [closer EXCEPT ![i].stage = "writer", ![i].wait = wait]
  BY <1>1 DEF FinishStream
<1>4. LiveInv(i) /\ (\A j \in Starts : Current(j) <=> j = i) /\ calls[i] \in {"undo", "done"}
  BY <1>2, Stopping
<1>5. wait \in Ref /\ (writer[i] # "none" => wait = i /\ held.cont = i)
      /\ (writer[i] = "none" => held.cont = None)
  <2>1. held.writer \in Ref /\ closer[i].wait \in Ref
    BY <1>1 DEF HeldType, Closer
  <2> QED
    BY <1>1, <1>4, <2>1 DEF LiveInv, UpTo, SourceUp, StreamUp, WriterUp
<1> HIDE DEF wait
<1>6. /\ closer' \in [Starts -> Closer] /\ closer'[i].stage = "writer"
      /\ closer'[i].kind = closer[i].kind /\ closer'[i].by = closer[i].by
      /\ closer'[i].wait = wait
      /\ \A j \in Starts \ {i} : closer'[j] = closer[j]
  BY <1>1, <1>3, <1>5 DEF Closer, Stages
<1>7. /\ held' \in HeldType /\ held'.rec = held.rec /\ held'.spool = held.spool
      /\ held'.cont = None /\ held'.writer = held.writer /\ held'.gaps = held.gaps
  BY <1>1 DEF HeldType, Ref
<1>8. CallsInv' /\ \A j : Current(j)' <=> Current(j)
  BY <1>1, <1>2, <1>6, <1>7, Advances DEF Stages
<1>9. /\ writer'[i] = (IF writer[i] = "failing" THEN "running" ELSE writer[i])
      /\ \A j \in Starts \ {i} : writer'[j] = writer[j]
      /\ writer' \in [Starts -> {"none", "running", "failing", "done"}]
  <2>1. closer[i].by = IF writer[i] = "failing" THEN i ELSE None
    BY <1>1, <1>4 DEF LiveInv, SourceUp, StreamUp
  <2>2. \A j \in Starts : writer[j] \in {"none", "running", "failing", "done"}
    BY Types
  <2> QED
    BY <1>1, <2>1, <2>2, StartIsNumber
<1>10. /\ stream' \in [Starts -> Stream] /\ \A j \in Starts \ {i} : stream'[j] = stream[j]
       /\ stream'[i].buf = stream[i].buf
       /\ ~stream'[i].open
  <2>1. \A j \in Starts : [stream[j] EXCEPT !.open = FALSE] \in Stream
    BY <1>1 DEF Stream
  <2>2. [stream[i] EXCEPT !.open = FALSE].buf = stream[i].buf
        /\ ~[stream[i] EXCEPT !.open = FALSE].open
    BY <1>1 DEF Stream
  <2>3. held.cont \in {i, None} /\ (held.cont = None => ~stream[i].open)
    BY <1>0, <1>5, StartIsNumber DEF TasksInv
  <2>4. stream' \in [Starts -> Stream] /\ \A j \in Starts \ {i} : stream'[j] = stream[j]
    BY <1>1, <2>1, <2>3, StartIsNumber
  <2>5. stream'[i] = IF held.cont = i THEN [stream[i] EXCEPT !.open = FALSE] ELSE stream[i]
    BY <1>1
  <2> QED
    BY <2>2, <2>3, <2>4, <2>5
<1>11. CaptureTypeOK' /\ PipeOK(pipe)' /\ UNCHANGED <<source, handoff, batch, pipe>>
  BY <1>1, SameCapture
<1>12. ControlTypeOK'
  BY <1>0, <1>1, <1>6, <1>7, <1>9 DEF ControlTypeOK, HeldType
<1>13. StorageTypeOK'
  BY <1>0, <1>1, <1>10 DEF StorageTypeOK
<1>14. RefsInv'
  BY <1>0, <1>7, <1>8, <1>11 DEF RefsInv
<1>15. TasksInv'
  BY <1>0, <1>1, <1>4, <1>8, <1>9, <1>10 DEF TasksInv
<1>16. HandoffInv'
  BY <1>0, <1>6, <1>11 DEF HandoffInv
<1>17. LiveInv(i)'
  BY <1>1, <1>4, <1>5, <1>6, <1>7, <1>9, <1>10, <1>11
     DEF LiveInv, Working, UpTo, SourceUp, StreamUp, WriterUp, GapsUp
<1> QED
  BY <1>4, <1>8, <1>11, <1>12, <1>13, <1>14, <1>15, <1>16, <1>17 DEF ControlInv

LEMMA WriterAwaitedControl ==
  ASSUME ControlInv, StartsDoNotOverlap, NEW i \in Starts, WriterAwaited(i)
  PROVE  ControlInv'
<1>0. ControlTypeOK /\ RefsInv /\ TasksInv /\ HandoffInv
  BY DEF ControlInv
<1>1. /\ closer[i].stage = "writer" /\ closer \in [Starts -> Closer] /\ held \in HeldType
      /\ \A w \in Starts : w = closer[i].wait => writer[w] = "done"
      /\ held' = [held EXCEPT !.writer = None]
      /\ closer' = [closer EXCEPT ![i].stage = "flush"]
      /\ UNCHANGED <<phase, calls, faults>> /\ UNCHANGED capture /\ UNCHANGED storage
  BY Types DEF WriterAwaited
<1>2. Working(i)
  BY <1>1 DEF Working
<1>3. LiveInv(i) /\ (\A j \in Starts : Current(j) <=> j = i)
  BY <1>2, Stopping
<1>4. writer[i] \in {"none", "done"}
  BY <1>1, <1>3 DEF LiveInv
<1>5. /\ closer' \in [Starts -> Closer] /\ closer'[i].stage = "flush"
      /\ closer'[i].kind = closer[i].kind /\ closer'[i].by = closer[i].by
      /\ closer'[i].wait = closer[i].wait
      /\ \A j \in Starts \ {i} : closer'[j] = closer[j]
  BY <1>1 DEF Closer, Stages
<1>6. /\ held' \in HeldType /\ held'.rec = held.rec /\ held'.spool = held.spool
      /\ held'.cont = held.cont /\ held'.writer = None /\ held'.gaps = held.gaps
  BY <1>1 DEF HeldType, Ref
<1>7. CallsInv' /\ \A j : Current(j)' <=> Current(j)
  BY <1>1, <1>2, <1>5, <1>6, Advances DEF Stages
<1>8. CaptureTypeOK' /\ PipeOK(pipe)' /\ StorageTypeOK'
      /\ UNCHANGED <<source, handoff, batch, pipe, stream, writer, gaps, disk>>
  BY <1>1, SameCapture, SameStorage
<1>9. ControlTypeOK'
  BY <1>0, <1>1, <1>5, <1>6, <1>8 DEF ControlTypeOK, HeldType
<1>10. RefsInv'
  BY <1>0, <1>6, <1>7, <1>8 DEF RefsInv
<1>11. TasksInv'
  BY <1>0, <1>1, <1>7, <1>8 DEF TasksInv
<1>12. HandoffInv'
  BY <1>0, <1>5, <1>8 DEF HandoffInv
<1>13. LiveInv(i)'
  BY <1>1, <1>3, <1>4, <1>5, <1>6, <1>8
     DEF LiveInv, Working, UpTo, SourceUp, StreamUp, WriterUp, GapsUp
<1> QED
  BY <1>3, <1>7, <1>8, <1>9, <1>10, <1>11, <1>12, <1>13 DEF ControlInv

LEMMA GapsAwaitedControl ==
  ASSUME ControlInv, StartsDoNotOverlap, NEW i \in Starts, GapsAwaited(i)
  PROVE  ControlInv'
<1>0. ControlTypeOK /\ RefsInv /\ TasksInv /\ HandoffInv
  BY DEF ControlInv
<1>1. /\ closer[i].stage = "flush" /\ closer \in [Starts -> Closer] /\ held \in HeldType
      /\ \A g \in Starts : g = held.gaps => ~gaps[g].running
      /\ held' = [held EXCEPT !.gaps = None]
      /\ UNCHANGED <<phase, calls, faults>> /\ UNCHANGED capture /\ UNCHANGED storage
  BY Types DEF GapsAwaited
<1>2. PICK stage \in {"discard", "seal", "abandon"} :
        /\ closer' = [closer EXCEPT ![i].stage = stage]
        /\ stage = "discard" <=> closer[i].kind = "undo"
  BY DEF GapsAwaited
<1>3. Working(i)
  BY <1>1 DEF Working
<1>4. LiveInv(i) /\ (\A j \in Starts : Current(j) <=> j = i)
  BY <1>3, Stopping
<1>5. Quiet(gaps[i])
  <2>1. GapsOK(gaps[i]) /\ (writer[i] = "none" => gaps[i] = NoGaps)
    BY <1>0 DEF TasksInv
  <2>2. writer[i] # "none" => ~gaps[i].running
    BY <1>1, <1>4 DEF LiveInv, UpTo, SourceUp, StreamUp, WriterUp, GapsUp
  <2> QED
    BY <2>1, <2>2, FreshOK DEF GapsOK, Quiet
<1>6. /\ closer' \in [Starts -> Closer] /\ closer'[i].stage = stage
      /\ closer'[i].kind = closer[i].kind /\ closer'[i].by = closer[i].by
      /\ closer'[i].wait = closer[i].wait
      /\ \A j \in Starts \ {i} : closer'[j] = closer[j]
  <2>1. stage \in Stages
    BY DEF Stages
  <2> QED
    BY <1>1, <1>2, <2>1 DEF Closer
<1>7. /\ held' \in HeldType /\ held'.rec = held.rec /\ held'.spool = held.spool
      /\ held'.cont = held.cont /\ held'.writer = held.writer /\ held'.gaps = None
  BY <1>1 DEF HeldType, Ref
<1>8. CallsInv' /\ \A j : Current(j)' <=> Current(j)
  BY <1>1, <1>3, <1>6, <1>7, Advances DEF Stages
<1>9. CaptureTypeOK' /\ PipeOK(pipe)' /\ StorageTypeOK'
      /\ UNCHANGED <<source, handoff, batch, pipe, stream, writer, gaps, disk>>
  BY <1>1, SameCapture, SameStorage
<1>10. ControlTypeOK'
  BY <1>0, <1>1, <1>6, <1>7, <1>9 DEF ControlTypeOK, HeldType
<1>11. RefsInv'
  BY <1>0, <1>7, <1>8, <1>9 DEF RefsInv
<1>12. TasksInv'
  BY <1>0, <1>1, <1>8, <1>9 DEF TasksInv
<1>13. HandoffInv'
  BY <1>0, <1>6, <1>9 DEF HandoffInv
<1>14. LiveInv(i)'
  BY <1>1, <1>2, <1>3, <1>4, <1>5, <1>6, <1>7, <1>9
     DEF LiveInv, Working, UpTo, SourceUp, StreamUp, WriterUp, GapsUp
<1> QED
  BY <1>4, <1>8, <1>9, <1>10, <1>11, <1>12, <1>13, <1>14 DEF ControlInv

(* The stop is over: nothing is current any more. *)
LEMMA ClosedControl ==
  ASSUME ControlInv, StartsDoNotOverlap, NEW i \in Starts, Working(i),
         closer[i].stage \notin GapsUp, closer' = [closer EXCEPT ![i].stage = "closed"],
         phase' \in {"sealed", "attention"}, calls' = [calls EXCEPT ![i] = "done"],
         held' \in HeldType, held'.spool = None, held'.cont = None, held'.writer = None,
         held'.gaps = None, faults' \in Nat, UNCHANGED <<stream, writer, gaps>>,
         UNCHANGED capture, disk' \in [Starts -> Spool],
         \A j \in Starts : disk'[j].recs = disk[j].recs \/ disk'[j] = NoSpool,
         \A j \in Starts : j # i => disk'[j] = disk[j]
  PROVE  ControlInv'
<1>0. ControlTypeOK /\ StorageTypeOK /\ RefsInv /\ TasksInv /\ HandoffInv /\ CallsInv
  BY DEF ControlInv
<1>1. /\ calls \in [Starts -> Calls] /\ closer \in [Starts -> Closer]
      /\ stream \in [Starts -> Stream] /\ gaps \in [Starts -> Gaps]
  BY Types
<1>2. LiveInv(i) /\ (\A j \in Starts \ {i} : ~Current(j) /\ ~Working(j) /\ calls[j] \in {"idle", "done"})
  BY Stopping
<1>3. calls'[i] = "done" /\ \A j \in Starts \ {i} : calls'[j] = calls[j]
  BY <1>1
<1>4. /\ closer' \in [Starts -> Closer] /\ closer'[i].stage = "closed"
      /\ \A j \in Starts \ {i} : closer'[j] = closer[j]
  BY <1>1 DEF Closer, Stages
<1>5. \A j \in Starts : ~Current(j)'
  BY <1>2, <1>3 DEF Current
<1>6. CaptureTypeOK' /\ PipeOK(pipe)' /\ UNCHANGED <<source, handoff, batch, pipe>>
  BY SameCapture
<1>7. writer[i] \in {"none", "done"} /\ Quiet(gaps[i]) /\ source.receiver = None
  BY <1>2 DEF LiveInv, UpTo, SourceUp, StreamUp, WriterUp, GapsUp
<1>8. ControlTypeOK'
  BY <1>0, <1>1, <1>4 DEF ControlTypeOK, Calls, Phases, HeldType
<1>9. StorageTypeOK'
  <2>1. ASSUME NEW j \in Starts, NEW t \in Tracks, NEW k \in 1 .. Len(disk'[j].recs[t])
        PROVE  disk'[j].recs[t][k].track = t
    <3>1. CASE disk'[j].recs = disk[j].recs
      BY <1>0, <2>1, <3>1 DEF StorageTypeOK
    <3>2. CASE disk'[j] = NoSpool
      <4>1. disk'[j].recs[t] = <<>>
        BY <3>2, FreshOK
      <4>2. 1 .. Len(disk'[j].recs[t]) = {}
        BY <4>1
      <4> QED
        BY <2>1, <4>2
    <3> QED
      BY <3>1, <3>2
  <2> QED
    BY <1>0, <2>1 DEF StorageTypeOK
<1>10. CallsInv'
  BY <1>0, <1>1, <1>2, <1>3, <1>4 DEF CallsInv, Working, Starting
<1>11. RefsInv'
  BY <1>6, <1>7 DEF RefsInv
<1>12. TasksInv'
  BY <1>0, <1>2, <1>3, <1>7 DEF TasksInv
<1>13. HandoffInv'
  BY <1>0, <1>4, <1>6 DEF HandoffInv
<1> QED
  BY <1>5, <1>6, <1>8, <1>9, <1>10, <1>11, <1>12, <1>13 DEF ControlInv

LEMMA SealedSpoolIs ==
  ASSUME PipeOK(pipe), NEW d \in Spool
  PROVE  /\ SealedSpool(d) \in Spool /\ SealedSpool(d).recs = d.recs
         /\ SealedSpool(d).journal = d.journal /\ SealedSpool(d).torn = d.torn
         /\ SealedSpool(d).ends = pipe.ends /\ SealedSpool(d).lost = pipe.lost
         /\ SealedSpool(d).sealed = TRUE
<1>1. pipe.ends \in [Tracks -> Nat] /\ pipe.lost \in BOOLEAN
  BY DEF PipeOK, Pipe
<1>2. SealedSpool(d) \in Spool
  BY <1>1 DEF SealedSpool, Spool
<1>3. SealedSpool(d).recs = d.recs /\ SealedSpool(d).journal = d.journal
  BY DEF SealedSpool, Spool
<1>4. SealedSpool(d).torn = d.torn
  BY DEF SealedSpool, Spool
<1>5. SealedSpool(d).ends = pipe.ends
  BY DEF SealedSpool, Spool
<1>6. SealedSpool(d).lost = pipe.lost
  BY <1>1 DEF SealedSpool, Spool
<1>7. SealedSpool(d).sealed = TRUE
  BY DEF SealedSpool, Spool
<1> QED
  BY <1>2, <1>3, <1>4, <1>5, <1>6, <1>7

LEMMA SealControl ==
  ASSUME ControlInv, StartsDoNotOverlap, NEW i \in Starts, Seal(i)
  PROVE  ControlInv'
<1>0. ControlTypeOK /\ StorageTypeOK /\ RefsInv /\ TasksInv /\ HandoffInv
  BY DEF ControlInv
<1> DEFINE sealed == [j \in Starts |-> IF j = held.spool THEN SealedSpool(disk[j]) ELSE disk[j]]
<1>1. /\ closer[i].stage = "seal" /\ closer \in [Starts -> Closer] /\ held \in HeldType
      /\ calls \in [Starts -> Calls] /\ disk \in [Starts -> Spool] /\ faults' \in Nat
      /\ UNCHANGED <<calls, stream, writer, gaps>> /\ UNCHANGED capture
      /\ disk' \in {disk, sealed}
  BY Types DEF Seal, Fault
<1>2. Working(i)
  BY <1>1 DEF Working
<1>3. LiveInv(i) /\ (\A j \in Starts : Current(j) <=> j = i)
      /\ calls[i] \in {"undo", "done"}
  BY <1>2, Stopping
<1>4. /\ held.spool = i /\ calls[i] = "done" /\ held.cont = None /\ held.writer = None
      /\ held.gaps = None
  BY <1>1, <1>3 DEF LiveInv, UpTo, SourceUp, StreamUp, WriterUp, GapsUp
<1>5. /\ disk' \in [Starts -> Spool] /\ \A j \in Starts : disk'[j].recs = disk[j].recs
      /\ \A j \in Starts : j # i => disk'[j] = disk[j]
  <2>1. \A j \in Starts : SealedSpool(disk[j]) \in Spool /\ SealedSpool(disk[j]).recs = disk[j].recs
    BY <1>1, Types, SealedSpoolIs
  <2> QED
    BY <1>1, <1>4, <2>1
<1>6. CASE closer' = [closer EXCEPT ![i].stage = "closed"]
           /\ held' = [held EXCEPT !.spool = None] /\ phase' \in {"sealed", "attention"}
  <2>1. calls' = [calls EXCEPT ![i] = "done"]
    BY <1>1, <1>4
  <2>2. held' \in HeldType /\ held'.spool = None /\ held'.cont = None /\ held'.writer = None
        /\ held'.gaps = None
    BY <1>1, <1>4, <1>6 DEF HeldType, Ref
  <2>3. closer[i].stage \notin GapsUp
    BY <1>1 DEF SourceUp, StreamUp, WriterUp, GapsUp
  <2> QED
    BY <1>1, <1>2, <1>5, <1>6, <2>1, <2>2, <2>3, ClosedControl
<1>7. CASE closer' = [closer EXCEPT ![i].stage = "abandon"] /\ UNCHANGED <<phase, held>>
  <2>1. /\ closer' \in [Starts -> Closer] /\ closer'[i].stage = "abandon"
        /\ closer'[i].kind = closer[i].kind /\ closer'[i].by = closer[i].by
        /\ closer'[i].wait = closer[i].wait
        /\ \A j \in Starts \ {i} : closer'[j] = closer[j]
    BY <1>1, <1>7 DEF Closer, Stages
  <2>2. CallsInv' /\ \A j : Current(j)' <=> Current(j)
    BY <1>1, <1>2, <1>7, <2>1, Advances DEF Stages
  <2>3. CaptureTypeOK' /\ PipeOK(pipe)' /\ UNCHANGED <<source, handoff, batch, pipe>>
    BY <1>1, SameCapture
  <2>4. StorageTypeOK'
    BY <1>0, <1>1, <1>5 DEF StorageTypeOK
  <2>5. ControlTypeOK'
    BY <1>0, <1>1, <1>7, <2>1 DEF ControlTypeOK
  <2>6. RefsInv'
    BY <1>0, <1>7, <2>2, <2>3 DEF RefsInv
  <2>7. TasksInv'
    BY <1>0, <1>1, <1>4, <1>5, <2>2 DEF TasksInv
  <2>8. HandoffInv'
    BY <1>0, <2>1, <2>3 DEF HandoffInv
  <2>9. LiveInv(i)'
    BY <1>1, <1>3, <1>4, <1>7, <2>1, <2>3
       DEF LiveInv, Working, UpTo, SourceUp, StreamUp, WriterUp, GapsUp
  <2> QED
    BY <1>3, <2>2, <2>3, <2>4, <2>5, <2>6, <2>7, <2>8, <2>9 DEF ControlInv
<1> QED
  BY <1>6, <1>7 DEF Seal

LEMMA AbandonControl ==
  ASSUME ControlInv, StartsDoNotOverlap, NEW i \in Starts, Abandon(i) \/ Discard(i)
  PROVE  ControlInv'
<1>1. /\ closer[i].stage \in {"abandon", "discard"} /\ held \in HeldType
      /\ calls \in [Starts -> Calls] /\ disk \in [Starts -> Spool] /\ faults' \in Nat
      /\ held' = [held EXCEPT !.spool = None, !.cont = None, !.writer = None, !.gaps = None]
      /\ phase' = "attention" /\ closer' = [closer EXCEPT ![i].stage = "closed"]
      /\ UNCHANGED <<writer, gaps>> /\ UNCHANGED capture
  BY Types DEF Abandon, Discard, Fault
<1>2. Working(i) /\ closer[i].stage \notin GapsUp
  BY <1>1 DEF Working, SourceUp, StreamUp, WriterUp, GapsUp
<1>3. LiveInv(i) /\ calls[i] \in {"undo", "done"}
  BY <1>2, Stopping
<1>4. held.cont = None
  BY <1>2, <1>3 DEF LiveInv, UpTo, WriterUp, GapsUp
<1>5. UNCHANGED stream
  <2>1. stream \in [Starts -> Stream]
    BY Types
  <2>2. CASE Abandon(i)
    <3>1. stream' = [j \in Starts |-> stream[j]]
      BY <1>4, <2>2, StartIsNumber DEF Abandon
    <3> QED
      BY <2>1, <3>1
  <2>3. CASE Discard(i)
    BY <2>3 DEF Discard
  <2> QED
    BY <2>2, <2>3
<1>6. calls' = [calls EXCEPT ![i] = "done"]
  <2>1. CASE Abandon(i)
    <3>1. calls[i] = "done" /\ calls' = calls
      BY <1>3, <2>1 DEF LiveInv, Abandon
    <3> QED
      BY <1>1, <3>1
  <2> QED
    BY <2>1 DEF Discard
<1>7. disk' = disk \/ disk' = [disk EXCEPT ![i] = NoSpool]
  BY DEF Abandon, Discard
<1>8. /\ disk' \in [Starts -> Spool]
      /\ \A j \in Starts : disk'[j].recs = disk[j].recs \/ disk'[j] = NoSpool
      /\ \A j \in Starts : j # i => disk'[j] = disk[j]
  BY <1>1, <1>7, FreshOK
<1>9. held' \in HeldType /\ held'.spool = None /\ held'.cont = None /\ held'.writer = None
      /\ held'.gaps = None
  BY <1>1 DEF HeldType, Ref
<1> QED
  BY <1>1, <1>2, <1>5, <1>6, <1>8, <1>9, ClosedControl

-----------------------------------------------------------------------------
(* The queues: the coordinator does nothing meanwhile. *)
LEMMA SameLive ==
  ASSUME ControlInv, UNCHANGED coordinator, UNCHANGED writer, source'.receiver = source.receiver,
         \A j \in Starts : stream'[j].open = stream[j].open,
         \A j \in Starts : closer[j].stage \notin GapsUp /\ Quiet(gaps[j]) => Quiet(gaps'[j])
  PROVE  CallsInv' /\ RefsInv' /\ \A j \in Starts : (Current(j)' <=> Current(j))
                                                   /\ (Current(j)' => LiveInv(j)')
<1>1. CallsInv' /\ RefsInv' /\ \A j \in Starts : Current(j)' <=> Current(j)
  BY SameCoordinator
<1>2. UNCHANGED <<phase, calls, held, closer>>
  BY DEF coordinator
<1>3. ASSUME NEW j \in Starts, Current(j) PROVE LiveInv(j)'
  <2>1. LiveInv(j)
    BY <1>3 DEF ControlInv
  <2> QED
    BY <1>2, <2>1 DEF LiveInv, Working, UpTo
<1> QED
  BY <1>1, <1>3

(* Only the queues in front of the pipeline change. *)
LEMMA CaptureControl ==
  ASSUME ControlInv, UNCHANGED coordinator, UNCHANGED storage, faults' \in Nat,
         source'.receiver = source.receiver, CaptureTypeOK', PipeOK(pipe'), HandoffInv'
  PROVE  ControlInv'
<1>1. StorageTypeOK' /\ UNCHANGED <<stream, writer, gaps, disk>>
  BY SameStorage
<1>2. CallsInv' /\ RefsInv' /\ \A j \in Starts : (Current(j)' <=> Current(j)) /\ (Current(j)' => LiveInv(j)')
  BY <1>1, SameLive
<1>3. UNCHANGED <<phase, calls, held, closer>>
  BY DEF coordinator
<1>4. ControlTypeOK'
  BY <1>1, <1>3 DEF ControlInv, ControlTypeOK
<1>5. TasksInv'
  BY <1>1, <1>2, <1>3 DEF ControlInv, TasksInv
<1> QED
  BY <1>1, <1>2, <1>4, <1>5 DEF ControlInv

(* The same, and events are yielded. *)
LEMMA YieldingControl ==
  ASSUME ControlInv, UNCHANGED coordinator, UNCHANGED <<writer, disk>>, faults' \in Nat,
         source'.receiver = source.receiver, CaptureTypeOK', PipeOK(pipe'), HandoffInv',
         NEW es \in Seq(Event), Yield(es)
  PROVE  ControlInv'
<1>1. /\ stream' \in [Starts -> Stream] /\ gaps' \in [Starts -> Gaps]
      /\ \A j \in Starts :
           /\ GapsOK(gaps'[j]) /\ stream'[j].open = stream[j].open
           /\ ~stream[j].open \/ source.receiver # j => stream'[j] = stream[j] /\ gaps'[j] = gaps[j]
  BY YieldControl
<1>2. \A j \in Starts : source.receiver = j =>
        Current(j) /\ closer[j].stage \in SourceUp /\ writer[j] \in {"running", "failing"}
  BY Receiver
<1>3. \A j \in Starts : closer[j].stage \notin GapsUp /\ Quiet(gaps[j]) => Quiet(gaps'[j])
  BY <1>1, <1>2 DEF StreamUp, WriterUp, GapsUp
<1>4. CallsInv' /\ RefsInv' /\ \A j \in Starts : (Current(j)' <=> Current(j)) /\ (Current(j)' => LiveInv(j)')
  BY <1>1, <1>3, SameLive
<1>5. UNCHANGED <<phase, calls, held, closer>>
  BY DEF coordinator
<1>6. ControlTypeOK'
  BY <1>5 DEF ControlInv, ControlTypeOK
<1>7. StorageTypeOK'
  BY <1>1 DEF ControlInv, StorageTypeOK
<1>8. TasksInv'
  <2>1. ASSUME NEW j \in Starts
        PROVE  /\ GapsOK(gaps'[j])
               /\ writer'[j] \in {"none", "done"} => stream'[j].buf = <<>> /\ ~stream'[j].open
               /\ writer'[j] = "none" => gaps'[j] = NoGaps
               /\ ~Current(j)' => writer'[j] \in {"none", "done"} /\ Quiet(gaps'[j])
               /\ calls'[j] \in {"idle", "pausing", "preflight", "create"} =>
                    writer'[j] = "none" /\ disk'[j] = NoSpool
    BY <1>1, <1>2, <1>4, <1>5 DEF ControlInv, TasksInv
  <2> QED
    BY <2>1 DEF TasksInv
<1> QED
  BY <1>4, <1>6, <1>7, <1>8 DEF ControlInv

LEMMA CallbackIs ==
  ASSUME ControlInv, NEW t \in Tracks, Callback(t)
  PROVE  /\ source.alive /\ handoff.late = {} /\ source.receiver # None
         /\ source' \in SourceType /\ source'.receiver = source.receiver
<1>1. source.alive /\ handoff.late = {} /\ source' = [source EXCEPT !.at[t] = @ + 1]
  BY DEF Callback
<1>2. source.receiver # None
  BY <1>1 DEF ControlInv, HandoffInv
<1>3. source' \in SourceType /\ source'.receiver = source.receiver
  <2>1. source \in SourceType /\ source.at \in [Tracks -> Nat]
    BY Types DEF SourceType
  <2>2. [source.at EXCEPT ![t] = @ + 1] \in [Tracks -> Nat]
    BY <2>1
  <2>3. source' = [source EXCEPT !.at = [source.at EXCEPT ![t] = @ + 1]]
    BY <1>1
  <2> QED
    BY <2>1, <2>2, <2>3 DEF SourceType
<1> QED
  BY <1>1, <1>2, <1>3

LEMMA SkipControl ==
  ASSUME ControlInv, NEW t \in Tracks, Skip(t)
  PROVE  ControlInv'
<1>1. /\ UNCHANGED coordinator /\ UNCHANGED storage /\ UNCHANGED <<handoff, batch, pipe>>
      /\ faults' \in Nat /\ Callback(t)
  BY Types DEF Skip, Fault
<1>2. source.receiver # None /\ source' \in SourceType /\ source'.receiver = source.receiver
  BY <1>1, CallbackIs
<1>3. CaptureTypeOK'
  BY <1>1, <1>2 DEF ControlInv, CaptureTypeOK, SourceType
<1>4. HandoffInv'
  BY <1>1, <1>2 DEF ControlInv, HandoffInv, coordinator
<1>5. PipeOK(pipe')
  BY <1>1, Types
<1> QED
  BY <1>1, <1>2, <1>3, <1>4, <1>5, CaptureControl

LEMMA DeliverControl ==
  ASSUME ControlInv, NEW t \in Tracks, Deliver(t)
  PROVE  ControlInv'
<1> DEFINE c == Chunk(t, source.at[t], 1)
<1>1. /\ UNCHANGED coordinator /\ UNCHANGED storage /\ UNCHANGED <<batch, pipe, faults>>
      /\ faults' \in Nat /\ Callback(t)
      /\ handoff' = IF handoff.closed THEN handoff
                    ELSE IF Len(handoff.retained) < HandoffCapacity
                         THEN [handoff EXCEPT !.retained = Append(@, c), !.scheduled = TRUE]
                    ELSE [handoff EXCEPT !.late = {c}]
  BY Types DEF Deliver
<1>2. source.receiver # None /\ source' \in SourceType /\ source'.receiver = source.receiver
  BY <1>1, CallbackIs
<1>3. c \in Item
  BY Types DEF SourceType, Chunk, Span, Item, Reasons
<1> HIDE DEF c
<1>4. handoff \in HandoffType
  BY Types
<1>5. /\ handoff' \in HandoffType /\ handoff'.dropped = handoff.dropped
      /\ handoff.closed => handoff' = handoff
      /\ handoff'.closed = handoff.closed
  <2>1. CASE handoff.closed
    BY <1>1, <1>4, <2>1
  <2>2. CASE ~handoff.closed
    <3>1. Append(handoff.retained, c) \in Seq(Item)
      BY <1>3, <1>4 DEF HandoffType
    <3> QED
      BY <1>1, <1>3, <1>4, <2>2, <3>1 DEF HandoffType
  <2> QED
    BY <2>1, <2>2
<1>6. CaptureTypeOK'
  BY <1>1, <1>2, <1>5 DEF ControlInv, CaptureTypeOK, SourceType, HandoffType
<1>7. HandoffInv'
  BY <1>1, <1>2, <1>5 DEF ControlInv, HandoffInv, coordinator
<1>8. PipeOK(pipe')
  BY <1>1, Types
<1> QED
  BY <1>1, <1>2, <1>6, <1>7, <1>8, CaptureControl

LEMMA TakeBatchControl ==
  ASSUME ControlInv, TakeBatch
  PROVE  ControlInv'
<1> DEFINE dropped == UNION {handoff.dropped[t] : t \in Tracks}
           none == [t \in Tracks |-> {}]
<1>1. /\ UNCHANGED coordinator /\ UNCHANGED storage /\ UNCHANGED <<source, pipe>>
      /\ faults' \in Nat /\ handoff.scheduled /\ handoff \in HandoffType
      /\ handoff' = [handoff EXCEPT !.retained = <<>>, !.dropped = none, !.scheduled = ~HandoffEmpty]
  BY Types DEF TakeBatch
<1>2. \E d \in SetToSeqs(dropped) : batch' = handoff.retained \o d
  BY DEF TakeBatch
<1>3. IsFiniteSet(dropped) /\ dropped \subseteq Item
  <2>1. dropped = handoff.dropped["microphone"] \cup handoff.dropped["system_audio"]
    <3>1. \A x : x \in dropped <=> \E t \in Tracks : x \in handoff.dropped[t]
      OBVIOUS
    <3> HIDE DEF dropped
    <3> QED
      BY <3>1 DEF Tracks
  <2>2. ASSUME NEW t \in Tracks PROVE IsFiniteSet(handoff.dropped[t])
    <3>1. handoff.dropped[t] = {} \/ \E g : handoff.dropped[t] = {g}
      BY DEF ControlInv, CaptureTypeOK
    <3>2. \A g : IsFiniteSet({g})
      BY FS_Singleton
    <3> QED
      BY <3>1, <3>2, FS_EmptySet
  <2>3. \A t \in Tracks : handoff.dropped[t] \subseteq Item
    BY <1>1 DEF HandoffType, Gap
  <2> HIDE DEF dropped
  <2> QED
    BY <2>1, <2>2, <2>3, FS_Union DEF Tracks
<1> HIDE DEF dropped
<1>4. batch' \in Seq(Item)
  <2>1. PICK d \in SetToSeqs(dropped) : batch' = handoff.retained \o d
    BY <1>2
  <2>2. d \in Seq(dropped)
    BY <1>3, InSeqOfSet
  <2>3. d \in Seq(Item) /\ handoff.retained \in Seq(Item)
    BY <1>1, <1>3, <2>2 DEF HandoffType
  <2> QED
    BY <2>1, <2>3
<1>5. none \in [Tracks -> SUBSET Gap] /\ \A t \in Tracks : none[t] = {}
  OBVIOUS
<1> HIDE DEF none
<1>6. /\ handoff' \in HandoffType /\ handoff'.dropped = none /\ handoff'.late = handoff.late
      /\ handoff'.closed = handoff.closed
  <2>1. <<>> \in Seq(Item) /\ (~HandoffEmpty) \in BOOLEAN
    OBVIOUS
  <2> HIDE DEF HandoffEmpty
  <2> QED
    BY <1>1, <1>5, <2>1 DEF HandoffType
<1>7. CaptureTypeOK'
  BY <1>1, <1>4, <1>5, <1>6 DEF ControlInv, CaptureTypeOK, HandoffType
<1>8. HandoffInv'
  BY <1>1, <1>6 DEF ControlInv, HandoffInv, coordinator
<1>9. PipeOK(pipe')
  BY <1>1, Types
<1> QED
  BY <1>1, <1>7, <1>8, <1>9, CaptureControl

LEMMA RecordDroppedControl ==
  ASSUME ControlInv, RecordDropped
  PROVE  ControlInv'
<1>1. /\ UNCHANGED coordinator /\ UNCHANGED <<writer, disk>> /\ UNCHANGED <<source, batch, pipe>>
      /\ faults' \in Nat /\ Yield(<<Failure("overflow")>>) /\ handoff \in HandoffType
  BY Types DEF RecordDropped
<1>2. PICK c \in handoff.late :
        handoff' = [handoff EXCEPT !.late = {}, !.scheduled = TRUE,
                      !.dropped[c.track] = {MergeInto([c EXCEPT !.reason = "callback_overflow"], @)}]
  BY DEF RecordDropped, MergeInto
<1> DEFINE new == [c EXCEPT !.reason = "callback_overflow"]
           g == MergeInto(new, handoff.dropped[c.track])
           d == [handoff.dropped EXCEPT ![c.track] = {g}]
<1>3. c \in Item
  BY <1>1, <1>2 DEF HandoffType
<1>4. new \in Gap /\ new.track = c.track /\ c.track \in Tracks
  BY <1>3 DEF Item, Gap, Reasons
<1>5. g \in Gap /\ g.track = c.track
  <2> HIDE DEF new
  <2>1. CASE handoff.dropped[c.track] = {}
    BY <1>4, <2>1, MergeIntoIs
  <2>2. CASE handoff.dropped[c.track] # {}
    <3>1. PICK h \in handoff.dropped[c.track] : h.track = c.track /\ handoff.dropped[c.track] = {h}
      BY <1>4, <2>2 DEF ControlInv, CaptureTypeOK
    <3>2. h \in Gap
      BY <1>1, <1>4, <3>1 DEF HandoffType
    <3>3. g = MergeGaps(h, new)
      BY <3>1, MergeIntoIs
    <3> QED
      BY <1>4, <3>1, <3>2, <3>3, MergedGap
  <2> QED
    BY <2>1, <2>2
<1>6. handoff' = [handoff EXCEPT !.late = {}, !.scheduled = TRUE, !.dropped = d]
  BY <1>2
<1> HIDE DEF g, new
<1>7. handoff.dropped \in [Tracks -> SUBSET Gap]
  BY <1>1 DEF HandoffType
<1>8. d \in [Tracks -> SUBSET Gap] /\ d[c.track] = {g}
      /\ \A t \in Tracks : t # c.track => d[t] = handoff.dropped[t]
  BY <1>4, <1>5, <1>7
<1> HIDE DEF d
<1>9. /\ handoff' \in HandoffType /\ handoff'.dropped = d /\ handoff'.late = {}
      /\ handoff'.closed = handoff.closed
  BY <1>1, <1>6, <1>8 DEF HandoffType
<1>10. CaptureTypeOK'
  <2>1. ASSUME NEW t \in Tracks
        PROVE  d[t] = {} \/ \E x \in d[t] : x.track = t /\ d[t] = {x}
    <3>1. CASE t = c.track
      BY <1>5, <1>8, <3>1
    <3>2. CASE t # c.track
      BY <1>8, <3>2 DEF ControlInv, CaptureTypeOK
    <3> QED
      BY <3>1, <3>2
  <2> QED
    BY <1>1, <1>9, <2>1 DEF ControlInv, CaptureTypeOK, HandoffType
<1>11. source.receiver # None
  BY <1>2 DEF ControlInv, HandoffInv
<1>12. HandoffInv'
  BY <1>1, <1>9, <1>11 DEF ControlInv, HandoffInv, coordinator
<1>13. PipeOK(pipe') /\ <<Failure("overflow")>> \in Seq(Event)
  BY <1>1, Types, FailureEvents
<1> QED
  BY <1>1, <1>10, <1>12, <1>13, YieldingControl

LEMMA StreamStopsControl ==
  ASSUME ControlInv, StreamStops
  PROVE  ControlInv'
<1>1. /\ UNCHANGED coordinator /\ UNCHANGED <<writer, disk>> /\ UNCHANGED <<handoff, batch, pipe>>
      /\ faults' \in Nat /\ Yield(<<Failure("stopped")>>) /\ source.alive
      /\ source' = [source EXCEPT !.alive = FALSE] /\ source \in SourceType
  BY Types DEF StreamStops, Fault
<1>2. source' \in SourceType /\ source'.receiver = source.receiver
  BY <1>1 DEF SourceType
<1>3. CaptureTypeOK'
  BY <1>1, <1>2 DEF ControlInv, CaptureTypeOK, SourceType
<1>4. source.receiver # None
  BY <1>1 DEF ControlInv, HandoffInv
<1>5. HandoffInv'
  BY <1>1, <1>2, <1>4 DEF ControlInv, HandoffInv, coordinator
<1>6. PipeOK(pipe') /\ <<Failure("stopped")>> \in Seq(Event)
  BY <1>1, Types, FailureEvents
<1> QED
  BY <1>1, <1>2, <1>3, <1>5, <1>6, YieldingControl

(* What one item of the batch makes of the pipeline. *)
LEMMA ItemIs ==
  ASSUME ControlInv, ProcessItem
  PROVE  /\ \E r : Delivers(pipe, r) /\ pipe' = r.p /\ Yield(r.events)
         /\ batch # <<>> /\ batch' = Tail(batch) /\ batch' \in Seq(Item) /\ faults' \in Nat
         /\ UNCHANGED coordinator /\ UNCHANGED <<source, handoff, writer, disk>>
<1>1. batch # <<>> /\ batch' = Tail(batch) /\ faults' \in Nat
      /\ UNCHANGED coordinator /\ UNCHANGED <<source, handoff, writer, disk>>
  BY Types DEF ProcessItem, Fault
<1>2. Head(batch) \in Item /\ batch' \in Seq(Item)
  BY <1>1, Types
<1>3. \E r \in {Handled(pipe, Head(batch)), OrFailure(Gated(pipe, AsFailed(Head(batch))))} :
        pipe' = r.p /\ Yield(r.events)
  BY DEF ProcessItem
<1>4. /\ Delivers(pipe, Handled(pipe, Head(batch)))
      /\ Delivers(pipe, OrFailure(Gated(pipe, AsFailed(Head(batch)))))
  BY <1>2, Types, HandledSound
<1>5. \E r : Delivers(pipe, r) /\ pipe' = r.p /\ Yield(r.events)
  BY <1>3, <1>4
<1> QED
  BY <1>1, <1>2, <1>5

LEMMA ProcessItemControl ==
  ASSUME ControlInv, ProcessItem
  PROVE  ControlInv'
<1>1. PICK r : Delivers(pipe, r) /\ pipe' = r.p /\ Yield(r.events)
  BY ItemIs
<1>2. batch # <<>> /\ batch' \in Seq(Item) /\ faults' \in Nat
      /\ UNCHANGED coordinator /\ UNCHANGED <<source, handoff>> /\ UNCHANGED <<writer, disk>>
  BY ItemIs
<1>3. PipeOK(pipe') /\ r.events \in Seq(Event)
  BY <1>1 DEF Delivers
<1>4. CaptureTypeOK'
  BY <1>2 DEF ControlInv, CaptureTypeOK
<1>5. HandoffInv'
  BY <1>2 DEF ControlInv, HandoffInv, coordinator
<1> QED
  BY <1>1, <1>2, <1>3, <1>4, <1>5, YieldingControl

-----------------------------------------------------------------------------
(* The writer task and the gap worker. *)
RecsOK(d) == \A t \in Tracks : \A k \in 1 .. Len(d.recs[t]) : d.recs[t][k].track = t

LEMMA StoreIs ==
  ASSUME NEW d \in Spool, RecsOK(d), NEW e \in Item
  PROVE  /\ Store(d, e) \in Spool /\ RecsOK(Store(d, e))
         /\ Store(d, e).torn = d.torn /\ Store(d, e).sealed = d.sealed
         /\ d.sealed => Store(d, e) = d
         /\ ~d.sealed => \A t \in Tracks, n \in Nat :
                           OnDisk(Store(d, e), t, n) = OnDisk(d, t, n) + Hit(e, t, n)
<1>0. /\ d.recs \in [Tracks -> Seq(Item)] /\ d.journal \in Seq(Item) /\ e.track \in Tracks
      /\ d.sealed \in BOOLEAN
  BY DEF Spool, Item
<1>1. CASE d.sealed
  BY <1>1 DEF Store
<1>2. CASE ~d.sealed /\ IsChunk(e)
  <2> DEFINE a == Append(d.recs[e.track], e)
             r == [d.recs EXCEPT ![e.track] = a]
  <2>1. a \in Seq(Item)
    BY <1>0
  <2>2. r \in [Tracks -> Seq(Item)] /\ r[e.track] = a /\ \A t \in Tracks : t # e.track => r[t] = d.recs[t]
    BY <1>0, <2>1
  <2>3. Store(d, e) = [d EXCEPT !.recs = r]
    BY <1>2 DEF Store
  <2>4. \A k \in 1 .. Len(a) : a[k].track = e.track
    <3>1. d.recs[e.track] \in Seq(Item) /\ \A k \in 1 .. Len(d.recs[e.track]) : d.recs[e.track][k].track = e.track
      BY <1>0 DEF RecsOK
    <3> QED
      BY <3>1
  <2>5. \A t \in Tracks, n \in Nat : t = e.track => InSeq(a, t, n) = InSeq(d.recs[t], t, n) + Hit(e, t, n)
    BY <1>0, InSeqAppend
  <2> HIDE DEF a, r
  <2>6. Store(d, e) \in Spool /\ Store(d, e).recs = r /\ Store(d, e).journal = d.journal
    BY <2>2, <2>3 DEF Spool
  <2>7. Store(d, e).torn = d.torn
    BY <2>2, <2>3 DEF Spool
  <2>8. Store(d, e).sealed = d.sealed
    BY <2>2, <2>3 DEF Spool
  <2>9. RecsOK(Store(d, e))
    <3> SUFFICES ASSUME NEW t \in Tracks, NEW k \in 1 .. Len(r[t]) PROVE r[t][k].track = t
      BY <2>6 DEF RecsOK
    <3>1. CASE t = e.track
      BY <2>2, <2>4, <3>1
    <3>2. CASE t # e.track
      BY <2>2, <3>2 DEF RecsOK
    <3> QED
      BY <3>1, <3>2
  <2>10. ASSUME NEW t \in Tracks, NEW n \in Nat
         PROVE  OnDisk(Store(d, e), t, n) = OnDisk(d, t, n) + Hit(e, t, n)
    <3>0. InSeq(d.recs[t], t, n) \in Nat /\ InSeq(d.journal, t, n) \in Nat /\ Hit(e, t, n) \in {0, 1}
      <4>1. Len(d.recs[t]) \in Nat /\ Len(d.journal) \in Nat
        BY <1>0, LenProperties
      <4> QED
        BY <4>1, InSeqNat, HitNat
    <3>1. CASE t = e.track
      <4>1. InSeq(r[t], t, n) = InSeq(d.recs[t], t, n) + Hit(e, t, n)
        BY <2>2, <2>5, <3>1
      <4> QED
        BY <2>6, <3>0, <4>1 DEF OnDisk
    <3>2. CASE t # e.track
      <4>1. r[t] = d.recs[t] /\ Hit(e, t, n) = 0
        BY <2>2, <3>2 DEF Hit, Hits
      <4> QED
        BY <2>6, <3>0, <4>1 DEF OnDisk
    <3> QED
      BY <3>1, <3>2
  <2> QED
    BY <1>2, <2>6, <2>7, <2>8, <2>9, <2>10
<1>3. CASE ~d.sealed /\ ~IsChunk(e)
  <2> DEFINE a == Append(d.journal, e)
  <2>1. a \in Seq(Item) /\ Store(d, e) = [d EXCEPT !.journal = a]
    BY <1>0, <1>3 DEF Store
  <2>2. \A t \in Tracks, n \in Nat : InSeq(a, t, n) = InSeq(d.journal, t, n) + Hit(e, t, n)
    BY <1>0, InSeqAppend
  <2> HIDE DEF a
  <2>3. Store(d, e) \in Spool /\ Store(d, e).recs = d.recs /\ Store(d, e).journal = a
    BY <2>1 DEF Spool
  <2>4. Store(d, e).torn = d.torn
    BY <2>1 DEF Spool
  <2>5. Store(d, e).sealed = d.sealed
    BY <2>1 DEF Spool
  <2>6. RecsOK(Store(d, e))
    BY <2>3 DEF RecsOK
  <2>7. ASSUME NEW t \in Tracks, NEW n \in Nat
        PROVE  OnDisk(Store(d, e), t, n) = OnDisk(d, t, n) + Hit(e, t, n)
    <3>1. InSeq(d.recs[t], t, n) \in Nat /\ InSeq(d.journal, t, n) \in Nat /\ Hit(e, t, n) \in {0, 1}
      <4>1. Len(d.recs[t]) \in Nat /\ Len(d.journal) \in Nat
        BY <1>0, LenProperties
      <4> QED
        BY <4>1, InSeqNat, HitNat
    <3> QED
      BY <2>2, <2>3, <3>1 DEF OnDisk
  <2> QED
    BY <1>3, <2>3, <2>4, <2>5, <2>6, <2>7
<1> QED
  BY <1>0, <1>1, <1>2, <1>3

(* A write that fails leaves at most a torn tail. *)
LEMMA TornIs ==
  ASSUME NEW d \in Spool, NEW torn \in BOOLEAN
  PROVE  LET e == [d EXCEPT !.torn = @ \/ torn]
         IN  /\ e \in Spool /\ e.recs = d.recs /\ e.journal = d.journal /\ e.sealed = d.sealed
<1> DEFINE b == d.torn \/ torn
           e == [d EXCEPT !.torn = b]
<1>1. b \in BOOLEAN
  OBVIOUS
<1> HIDE DEF b
<1>2. e \in Spool /\ e.recs = d.recs /\ e.journal = d.journal
  BY <1>1 DEF Spool
<1>3. e.sealed = d.sealed
  BY <1>1 DEF Spool
<1>4. e = [d EXCEPT !.torn = @ \/ torn]
  BY DEF b, Spool
<1> HIDE DEF e
<1> QED
  BY <1>2, <1>3, <1>4

(* A task that writes is one of the current recording. *)
LEMMA Writes ==
  ASSUME ControlInv, StartsDoNotOverlap, NEW w \in Starts,
         writer[w] \in {"running", "failing"} \/ gaps[w].running \/ gaps[w].batch # <<>>
  PROVE  /\ Current(w) /\ LiveInv(w) /\ held.spool = w
         /\ calls[w] \notin {"idle", "pausing", "preflight", "create"}
         /\ writer[w] # "none" /\ closer[w].stage \in GapsUp
         /\ writer[w] \in {"running", "failing"} => closer[w].stage \in WriterUp
         /\ \A j \in Starts : Current(j) <=> j = w
<1>1. TasksInv
  BY DEF ControlInv
<1>2. Current(w)
  BY <1>1 DEF TasksInv, Quiet
<1>3. LiveInv(w) /\ held.spool = w
  BY <1>2 DEF ControlInv, LiveInv
<1>4. writer[w] # "none"
  BY <1>1, FreshOK DEF TasksInv, Quiet
<1>5. calls[w] \notin {"idle", "pausing", "preflight", "create"}
  BY <1>1, <1>4 DEF TasksInv
<1>6. writer[w] \in {"running", "failing"} => closer[w].stage \in WriterUp
  BY <1>3 DEF LiveInv
<1>7. closer[w].stage \in GapsUp
  BY <1>3, <1>6 DEF LiveInv, Quiet, GapsUp
<1>8. \A j \in Starts : Current(j) <=> j = w
  BY <1>2, CurrentUnique DEF ControlInv
<1> QED
  BY <1>2, <1>3, <1>4, <1>5, <1>6, <1>7, <1>8

LEMMA StorageRecs ==
  ASSUME ControlInv PROVE \A j \in Starts : disk[j] \in Spool /\ RecsOK(disk[j])
  BY DEF ControlInv, StorageTypeOK, RecsOK

(* The writer takes an event, and may begin the stop of its recording. *)
LEMMA ConsumeControl ==
  ASSUME ControlInv, StartsDoNotOverlap, NEW w \in Starts, NextEvent(w),
         stream' = [stream EXCEPT ![w].buf = Tail(@)],
         FailActive(w) \/ UNCHANGED <<phase, closer, writer>>,
         held' \in HeldType, held'.rec = held.rec, held'.spool = held.spool,
         held'.cont = held.cont, held'.writer = held.writer, held'.gaps = held.gaps,
         UNCHANGED <<calls, gaps>>, UNCHANGED capture, faults' \in Nat,
         disk' \in [Starts -> Spool], \A j \in Starts : RecsOK(disk'[j]),
         \A j \in Starts : j # w => disk'[j] = disk[j]
  PROVE  ControlInv'
<1>0. ControlTypeOK /\ StorageTypeOK /\ CallsInv /\ RefsInv /\ TasksInv /\ HandoffInv
  BY DEF ControlInv
<1>1. /\ writer[w] = "running" /\ stream[w].buf # <<>> /\ stream \in [Starts -> Stream]
      /\ closer \in [Starts -> Closer]
      /\ writer \in [Starts -> {"none", "running", "failing", "done"}]
  BY Types DEF NextEvent
<1>2. /\ Current(w) /\ LiveInv(w) /\ calls[w] \notin {"idle", "pausing", "preflight", "create"}
      /\ \A j \in Starts : Current(j) <=> j = w
  BY <1>1, Writes
<1>3. /\ stream' \in [Starts -> Stream] /\ stream'[w].open = stream[w].open
      /\ \A j \in Starts \ {w} : stream'[j] = stream[j]
  <2>1. stream[w] \in Stream /\ stream[w].buf \in Seq(Event)
    BY <1>1 DEF Stream
  <2>2. Tail(stream[w].buf) \in Seq(Event)
    BY <1>1, <2>1
  <2>3. stream' = [stream EXCEPT ![w] = [stream[w] EXCEPT !.buf = Tail(stream[w].buf)]]
    BY <1>1
  <2>4. [stream[w] EXCEPT !.buf = Tail(stream[w].buf)] \in Stream
        /\ [stream[w] EXCEPT !.buf = Tail(stream[w].buf)].open = stream[w].open
    BY <2>1, <2>2 DEF Stream
  <2> QED
    BY <1>1, <2>3, <2>4
<1>4. CaptureTypeOK' /\ PipeOK(pipe)' /\ UNCHANGED <<source, handoff, batch, pipe>>
  BY SameCapture
<1>5. StorageTypeOK'
  BY <1>0, <1>3 DEF StorageTypeOK, RecsOK
<1>6. CASE UNCHANGED <<phase, closer, writer>>
  <2>1. \A j : Current(j)' <=> Current(j)
    BY <1>6 DEF Current
  <2>2. ControlTypeOK'
    BY <1>0, <1>6 DEF ControlTypeOK, HeldType
  <2>3. CallsInv'
    BY <1>0, <1>6 DEF CallsInv, InFlight, Working
  <2>4. RefsInv'
    BY <1>0, <1>4, <2>1 DEF RefsInv
  <2>5. TasksInv'
    BY <1>0, <1>1, <1>2, <1>3, <1>6, <2>1 DEF TasksInv
  <2>6. HandoffInv'
    BY <1>0, <1>4, <1>6 DEF HandoffInv
  <2>7. LiveInv(w)'
    BY <1>2, <1>3, <1>4, <1>6 DEF LiveInv, Working, UpTo
  <2> QED
    BY <1>2, <1>4, <1>5, <2>1, <2>2, <2>3, <2>4, <2>5, <2>6, <2>7 DEF ControlInv
<1>7. CASE ~UNCHANGED <<phase, closer, writer>>
  <2>1. phase = "recording" /\ Close("fail", w) /\ writer' = [writer EXCEPT ![w] = "failing"]
    BY <1>7 DEF FailActive
  <2>2. held.rec = w
    BY <1>2, <2>1, Recording
  <2>3. /\ phase' = "stopping" /\ closer' \in [Starts -> Closer]
        /\ closer'[w].stage = "capture" /\ closer'[w].kind = "fail"
        /\ closer'[w].wait = w /\ closer'[w].by = w
        /\ \A j \in Starts : Current(j)' <=> j = w
        /\ CallsInv' /\ \A j \in Starts \ {w} : closer'[j] = closer[j]
    BY <2>1, <2>2, StartIsNumber, Closes
  <2>4. /\ calls[w] = "done" /\ closer[w].stage = "none"
        /\ held.spool = w /\ held.cont = w /\ held.writer = w /\ held.gaps = w
        /\ source.receiver = w /\ stream[w].open
    BY <2>1, <2>2, Recording
  <2>5. /\ writer' \in [Starts -> {"none", "running", "failing", "done"}]
        /\ writer'[w] = "failing" /\ \A j \in Starts \ {w} : writer'[j] = writer[j]
    BY <1>1, <2>1
  <2>6. ControlTypeOK'
    BY <1>0, <2>3, <2>5 DEF ControlTypeOK, HeldType, Phases
  <2>7. RefsInv'
    BY <1>4, <2>3, <2>4 DEF RefsInv
  <2>8. TasksInv'
    BY <1>0, <1>2, <1>3, <2>3, <2>5 DEF TasksInv
  <2>9. HandoffInv'
    BY <1>0, <1>4, <2>3 DEF HandoffInv
  <2>10. LiveInv(w)'
    BY <1>3, <1>4, <2>3, <2>4, <2>5
       DEF LiveInv, Working, UpTo, SourceUp, StreamUp, WriterUp, GapsUp
  <2> QED
    BY <1>4, <1>5, <2>3, <2>6, <2>7, <2>8, <2>9, <2>10 DEF ControlInv
<1> QED
  BY <1>6, <1>7

(* What ConsumeAudio stores. *)
LEMMA AudioIs ==
  ASSUME ControlInv, StartsDoNotOverlap, NEW w \in Starts, ConsumeAudio(w)
  PROVE  /\ held.spool = w /\ disk' \in [Starts -> Spool] /\ \A j \in Starts : RecsOK(disk'[j])
         /\ \A j \in Starts : j # w => disk'[j] = disk[j]
         /\ Head(stream[w].buf) \in Item /\ faults' \in Nat /\ stream[w].buf \in Seq(Event)
         /\ \/ /\ disk'[w] = Store(disk[w], Head(stream[w].buf)) /\ held' = held
               /\ UNCHANGED <<phase, closer, writer>>
            \/ /\ held' = [held EXCEPT !.failed = TRUE] /\ FailActive(w)
               /\ disk'[w].sealed = disk[w].sealed
               /\ disk'[w].recs = disk[w].recs /\ disk'[w].journal = disk[w].journal
<1>1. /\ NextEvent(w) /\ writer[w] = "running" /\ stream[w].buf # <<>> /\ stream[w] \in Stream
      /\ disk \in [Starts -> Spool] /\ faults' \in Nat
  BY Types DEF ConsumeAudio, NextEvent, Fault
<1>2. held.spool = w
  BY <1>1, Writes
<1>3. stream[w].buf \in Seq(Event) /\ Head(stream[w].buf) \in Event
  BY <1>1 DEF Stream
<1>4. Head(stream[w].buf) \in Item
  <2>1. Head(stream[w].buf).track # "none"
    BY DEF ConsumeAudio
  <2> QED
    BY <1>3, <2>1 DEF Event, Notice
<1>5. \A j \in Starts : disk[j] \in Spool /\ RecsOK(disk[j])
  BY StorageRecs
<1>6. CASE /\ disk' = [j \in Starts |-> IF j = held.spool THEN Store(disk[j], Head(stream[w].buf))
                                       ELSE disk[j]]
           /\ UNCHANGED <<phase, held, closer, writer, faults>>
  <2>1. disk'[w] = Store(disk[w], Head(stream[w].buf)) /\ \A j \in Starts : j # w => disk'[j] = disk[j]
    BY <1>2, <1>6
  <2>2. disk'[w] \in Spool /\ RecsOK(disk'[w])
    BY <1>4, <1>5, <2>1, StoreIs
  <2>3. disk' \in [Starts -> Spool]
    <3>1. \A j \in Starts : disk'[j] \in Spool
      BY <1>5, <2>1, <2>2
    <3> QED
      BY <1>6, <3>1
  <2> QED
    BY <1>1, <1>2, <1>3, <1>4, <1>5, <1>6, <2>1, <2>2, <2>3
<1>7. CASE \E torn \in BOOLEAN :
             /\ disk' = [disk EXCEPT ![held.spool].torn = @ \/ torn]
             /\ held' = [held EXCEPT !.failed = TRUE] /\ FailActive(w)
  <2>1. PICK torn \in BOOLEAN : disk' = [disk EXCEPT ![held.spool].torn = @ \/ torn]
    BY <1>7
  <2> DEFINE e == [disk[w] EXCEPT !.torn = @ \/ torn]
  <2>2. e \in Spool /\ e.recs = disk[w].recs /\ e.journal = disk[w].journal
        /\ e.sealed = disk[w].sealed
    BY <1>5, TornIs
  <2>3. disk' = [disk EXCEPT ![w] = e]
    BY <1>2, <2>1
  <2> HIDE DEF e
  <2>4. disk' \in [Starts -> Spool] /\ disk'[w] = e /\ \A j \in Starts : j # w => disk'[j] = disk[j]
    BY <1>1, <2>2, <2>3
  <2>5. RecsOK(disk'[w])
    BY <1>5, <2>2, <2>4 DEF RecsOK
  <2> QED
    BY <1>1, <1>2, <1>3, <1>4, <1>5, <1>7, <2>2, <2>4, <2>5
<1> QED
  BY <1>6, <1>7 DEF ConsumeAudio

LEMMA ConsumeAudioControl ==
  ASSUME ControlInv, StartsDoNotOverlap, NEW w \in Starts, ConsumeAudio(w)
  PROVE  ControlInv'
<1>1. /\ NextEvent(w) /\ stream' = [stream EXCEPT ![w].buf = Tail(@)]
      /\ UNCHANGED <<calls, gaps>> /\ UNCHANGED capture /\ held \in HeldType
  BY Types DEF ConsumeAudio
<1>2. /\ disk' \in [Starts -> Spool] /\ \A j \in Starts : RecsOK(disk'[j])
      /\ \A j \in Starts : j # w => disk'[j] = disk[j]
      /\ faults' \in Nat
  BY AudioIs
<1>3. held' = held \/ held' = [held EXCEPT !.failed = TRUE]
  BY AudioIs
<1>4. /\ held' \in HeldType /\ held'.rec = held.rec /\ held'.spool = held.spool
      /\ held'.cont = held.cont /\ held'.writer = held.writer /\ held'.gaps = held.gaps
  BY <1>1, <1>3 DEF HeldType
<1>5. FailActive(w) \/ UNCHANGED <<phase, closer, writer>>
  BY AudioIs
<1> QED
  BY <1>1, <1>2, <1>4, <1>5, ConsumeControl

LEMMA ConsumeFailureControl ==
  ASSUME ControlInv, StartsDoNotOverlap, NEW w \in Starts, ConsumeFailure(w)
  PROVE  ControlInv'
<1> DEFINE b == held.fatal \/ Head(stream[w].buf).reason = "required_tracks"
<1>1. /\ NextEvent(w) /\ stream' = [stream EXCEPT ![w].buf = Tail(@)]
      /\ UNCHANGED <<calls, gaps>> /\ UNCHANGED capture /\ held \in HeldType
      /\ UNCHANGED disk /\ disk \in [Starts -> Spool] /\ faults' \in Nat
      /\ FailActive(w) \/ UNCHANGED <<phase, closer, writer>>
  BY Types DEF ConsumeFailure
<1>2. held' = [held EXCEPT !.fatal = b] /\ b \in BOOLEAN
  BY <1>1 DEF ConsumeFailure
<1> HIDE DEF b
<1>3. /\ held' \in HeldType /\ held'.rec = held.rec /\ held'.spool = held.spool
      /\ held'.cont = held.cont /\ held'.writer = held.writer /\ held'.gaps = held.gaps
  BY <1>1, <1>2 DEF HeldType
<1>4. \A j \in Starts : RecsOK(disk'[j])
  BY <1>1, StorageRecs
<1> QED
  BY <1>1, <1>3, <1>4, ConsumeControl

LEMMA WriterEndsControl ==
  ASSUME ControlInv, StartsDoNotOverlap, NEW w \in Starts, WriterEnds(w)
  PROVE  ControlInv'
<1>0. ControlTypeOK /\ StorageTypeOK /\ TasksInv /\ HandoffInv
  BY DEF ControlInv
<1>1. /\ writer[w] = "running" /\ stream[w].buf = <<>> /\ ~stream[w].open
      /\ writer' = [writer EXCEPT ![w] = "done"]
      /\ writer \in [Starts -> {"none", "running", "failing", "done"}]
      /\ UNCHANGED coordinator /\ UNCHANGED capture /\ UNCHANGED <<stream, gaps, disk, faults>>
  BY Types DEF WriterEnds
<1>2. /\ Current(w) /\ LiveInv(w) /\ calls[w] \notin {"idle", "pausing", "preflight", "create"}
      /\ \A j \in Starts : Current(j) <=> j = w
  BY <1>1, Writes
<1>3. /\ writer' \in [Starts -> {"none", "running", "failing", "done"}]
      /\ writer'[w] = "done" /\ \A j \in Starts \ {w} : writer'[j] = writer[j]
  BY <1>1
<1>4. CaptureTypeOK' /\ PipeOK(pipe)' /\ UNCHANGED <<source, handoff, batch, pipe>>
  BY <1>1, SameCapture
<1>5. CallsInv' /\ RefsInv' /\ \A j \in Starts : Current(j)' <=> Current(j)
  BY <1>1, <1>4, SameCoordinator
<1>6. UNCHANGED <<phase, calls, held, closer>>
  BY <1>1 DEF coordinator
<1>7. ControlTypeOK'
  BY <1>0, <1>1, <1>3, <1>6 DEF ControlTypeOK
<1>8. StorageTypeOK'
  BY <1>0, <1>1 DEF StorageTypeOK
<1>9. TasksInv'
  BY <1>0, <1>1, <1>2, <1>3, <1>5, <1>6 DEF TasksInv
<1>10. HandoffInv'
  BY <1>0, <1>4, <1>6 DEF HandoffInv
<1>11. LiveInv(w)'
  BY <1>1, <1>2, <1>3, <1>4, <1>6 DEF LiveInv, Working, UpTo
<1> QED
  BY <1>2, <1>4, <1>5, <1>7, <1>8, <1>9, <1>10, <1>11 DEF ControlInv

(* The gap worker of i changes its gaps and its spool. *)
LEMMA GapStepControl ==
  ASSUME ControlInv, StartsDoNotOverlap, NEW i \in Starts,
         gaps[i].running \/ gaps[i].batch # <<>>, gaps' \in [Starts -> Gaps],
         GapsOK(gaps'[i]), \A j \in Starts : j # i => gaps'[j] = gaps[j] /\ disk'[j] = disk[j],
         disk' \in [Starts -> Spool], RecsOK(disk'[i]), faults' \in Nat,
         UNCHANGED coordinator, UNCHANGED capture, UNCHANGED <<stream, writer>>
  PROVE  ControlInv'
<1>0. ControlTypeOK /\ StorageTypeOK /\ TasksInv /\ HandoffInv
  BY DEF ControlInv
<1>1. /\ Current(i) /\ calls[i] \notin {"idle", "pausing", "preflight", "create"}
      /\ writer[i] # "none" /\ closer[i].stage \in GapsUp
  BY Writes
<1>2. CaptureTypeOK' /\ PipeOK(pipe)' /\ UNCHANGED <<source, handoff, batch, pipe>>
  BY SameCapture
<1>3. UNCHANGED <<phase, calls, held, closer>>
  BY DEF coordinator
<1>4. CallsInv' /\ RefsInv' /\ \A j \in Starts : (Current(j)' <=> Current(j)) /\ (Current(j)' => LiveInv(j)')
  BY <1>1, <1>2, SameLive
<1>5. ControlTypeOK'
  BY <1>0, <1>3 DEF ControlTypeOK
<1>6. StorageTypeOK'
  BY <1>0, StorageRecs DEF StorageTypeOK, RecsOK
<1>7. TasksInv'
  BY <1>0, <1>1, <1>3, <1>4 DEF TasksInv
<1>8. HandoffInv'
  BY <1>0, <1>2, <1>3 DEF HandoffInv
<1> QED
  BY <1>2, <1>4, <1>5, <1>6, <1>7, <1>8 DEF ControlInv

(* The worker takes all registered intervals, in their order. *)
LEMMA TakeGapsIs ==
  ASSUME ControlInv, NEW i \in Starts, TakeGaps(i)
  PROVE  /\ gaps[i].running /\ gaps[i].batch = <<>> /\ gaps' \in [Starts -> Gaps]
         /\ gaps'[i].batch \in SetToSeqs(gaps[i].pending) /\ gaps'[i].pending = {}
         /\ gaps'[i].failed = gaps[i].failed /\ GapsOK(gaps'[i])
         /\ \A j \in Starts : j # i => gaps'[j] = gaps[j]
<1> DEFINE b == InOrder(gaps[i].pending, LAMBDA g, h :
                   \/ g.track = "microphone" /\ h.track # "microphone"
                   \/ g.track = h.track /\ g.start < h.start)
           more == gaps[i].pending # {}
           w == [gaps[i] EXCEPT !.batch = b, !.pending = {}, !.running = more]
<1>1. /\ gaps[i].running /\ gaps[i].batch = <<>> /\ gaps \in [Starts -> Gaps]
      /\ gaps' = [gaps EXCEPT ![i].batch = b, ![i].pending = {}, ![i].running = more]
  BY Types DEF TakeGaps
<1>2. GapsOK(gaps[i]) /\ gaps[i] \in Gaps
  BY <1>1 DEF ControlInv, TasksInv
<1>3. IsFiniteSet(gaps[i].pending) /\ gaps[i].pending \subseteq Gap /\ gaps[i].pending \subseteq Item
  BY <1>2 DEF GapsOK, Gaps, Gap
<1>4. b \in SetToSeqs(gaps[i].pending)
  BY <1>3, GapsInOrder
<1>5. gaps' = [gaps EXCEPT ![i] = w]
  BY <1>1
<1> HIDE DEF b
<1>6. b \in Seq(gaps[i].pending) /\ Len(b) = Cardinality(gaps[i].pending)
  BY <1>3, <1>4, InSeqOfSet
<1>7. b \in Seq(Gap) /\ more \in BOOLEAN /\ (~more => b = <<>>)
  <2>1. b \in Seq(Gap)
    BY <1>3, <1>6
  <2>2. gaps[i].pending = {} => Len(b) = 0
    BY <1>6, FS_EmptySet
  <2> QED
    BY <2>1, <2>2
<1> HIDE DEF more
<1>8. w \in Gaps /\ w.batch = b /\ w.pending = {}
  BY <1>2, <1>7 DEF Gaps
<1>9. w.running = more
  BY <1>2, <1>7 DEF Gaps
<1>10. w.failed = gaps[i].failed
  BY <1>2, <1>7 DEF Gaps
<1> HIDE DEF w
<1>11. GapsOK(w)
  BY <1>7, <1>8, <1>9, FS_EmptySet DEF GapsOK
<1>12. gaps' \in [Starts -> Gaps] /\ gaps'[i] = w /\ \A j \in Starts : j # i => gaps'[j] = gaps[j]
  <2>1. gaps \in [Starts -> Gaps]
    BY Types
  <2> QED
    BY <1>5, <1>8, <2>1
<1> QED
  BY <1>1, <1>4, <1>8, <1>10, <1>11, <1>12

LEMMA TakeGapsControl ==
  ASSUME ControlInv, StartsDoNotOverlap, NEW i \in Starts, TakeGaps(i)
  PROVE  ControlInv'
<1>1. UNCHANGED coordinator /\ UNCHANGED capture /\ UNCHANGED <<stream, writer>>
      /\ UNCHANGED disk /\ faults' \in Nat /\ disk \in [Starts -> Spool]
  BY Types DEF TakeGaps
<1>2. RecsOK(disk'[i])
  BY <1>1, StorageRecs
<1>3. /\ gaps[i].running /\ gaps' \in [Starts -> Gaps] /\ GapsOK(gaps'[i])
      /\ \A j \in Starts : j # i => gaps'[j] = gaps[j]
  BY TakeGapsIs
<1>4. disk' \in [Starts -> Spool] /\ \A j \in Starts : j # i => gaps'[j] = gaps[j] /\ disk'[j] = disk[j]
  BY <1>1, <1>3
<1> QED
  BY <1>1, <1>2, <1>3, <1>4, GapStepControl

(* One interval goes to the journal, or the worker fails. *)
LEMMA WriteGapIs ==
  ASSUME ControlInv, NEW i \in Starts, WriteGap(i)
  PROVE  /\ gaps[i].batch # <<>> /\ gaps' \in [Starts -> Gaps] /\ GapsOK(gaps'[i])
         /\ disk' \in [Starts -> Spool] /\ RecsOK(disk'[i])
         /\ \A j \in Starts : j # i => gaps'[j] = gaps[j] /\ disk'[j] = disk[j]
         /\ gaps[i].batch \in Seq(Item) /\ disk'[i].sealed = disk[i].sealed
         /\ disk[i].sealed => disk'[i].recs = disk[i].recs /\ disk'[i].journal = disk[i].journal
         /\ \/ /\ disk'[i] = Store(disk[i], Head(gaps[i].batch))
               /\ gaps'[i].batch = Tail(gaps[i].batch) /\ gaps'[i].pending = gaps[i].pending
               /\ gaps'[i].failed = gaps[i].failed
            \/ gaps'[i].failed
<1>1. gaps[i].batch # <<>> /\ gaps \in [Starts -> Gaps] /\ disk \in [Starts -> Spool]
  BY Types DEF WriteGap
<1>2. GapsOK(gaps[i]) /\ gaps[i] \in Gaps /\ disk[i] \in Spool /\ RecsOK(disk[i])
  BY <1>1, StorageRecs DEF ControlInv, TasksInv
<1>3. gaps[i].batch \in Seq(Gap) /\ Head(gaps[i].batch) \in Gap /\ gaps[i].batch \in Seq(Item)
  <2>1. gaps[i].batch \in Seq(Gap) /\ Gap \subseteq Item
    BY <1>2 DEF Gaps, Gap
  <2> QED
    BY <1>1, <2>1
<1>4. Head(gaps[i].batch) \in Item
  BY <1>3 DEF Gap
<1>5. CASE /\ disk' = [disk EXCEPT ![i] = Store(@, Head(gaps[i].batch))]
           /\ gaps' = [gaps EXCEPT ![i].batch = Tail(@)]
  <2> DEFINE w == [gaps[i] EXCEPT !.batch = Tail(gaps[i].batch)]
             d == Store(disk[i], Head(gaps[i].batch))
  <2>1. gaps' = [gaps EXCEPT ![i] = w] /\ disk' = [disk EXCEPT ![i] = d]
    BY <1>5
  <2>2. d \in Spool /\ RecsOK(d) /\ d.sealed = disk[i].sealed /\ (disk[i].sealed => d = disk[i])
    BY <1>2, <1>4, StoreIs
  <2>3. Tail(gaps[i].batch) \in Seq(Gap)
    BY <1>1, <1>3
  <2>4. w \in Gaps /\ w.batch = Tail(gaps[i].batch) /\ w.pending = gaps[i].pending
    BY <1>2, <2>3 DEF Gaps
  <2>5. w.failed = gaps[i].failed
    BY <1>2, <2>3 DEF Gaps
  <2>6. w.running = gaps[i].running
    BY <1>2, <2>3 DEF Gaps
  <2>7. gaps[i].running
    BY <1>1, <1>2 DEF GapsOK
  <2> HIDE DEF w, d
  <2>8. GapsOK(w)
    BY <1>2, <2>4, <2>6, <2>7 DEF GapsOK
  <2>9. /\ gaps' \in [Starts -> Gaps] /\ gaps'[i] = w /\ disk' \in [Starts -> Spool] /\ disk'[i] = d
        /\ \A j \in Starts : j # i => gaps'[j] = gaps[j] /\ disk'[j] = disk[j]
    BY <1>1, <2>1, <2>2, <2>4
  <2> QED
    BY <1>1, <1>3, <2>2, <2>4, <2>5, <2>8, <2>9 DEF d
<1>6. CASE \E torn \in BOOLEAN :
             /\ disk' = [disk EXCEPT ![i].torn = @ \/ torn]
             /\ gaps' = [gaps EXCEPT ![i].batch = <<>>, ![i].failed = TRUE, ![i].running = FALSE]
  <2>1. PICK torn \in BOOLEAN : disk' = [disk EXCEPT ![i].torn = @ \/ torn]
    BY <1>6
  <2> DEFINE w == [gaps[i] EXCEPT !.batch = <<>>, !.failed = TRUE, !.running = FALSE]
             d == [disk[i] EXCEPT !.torn = @ \/ torn]
  <2>2. gaps' = [gaps EXCEPT ![i] = w] /\ disk' = [disk EXCEPT ![i] = d]
    BY <1>6, <2>1
  <2>3. d \in Spool /\ d.recs = disk[i].recs /\ d.journal = disk[i].journal /\ d.sealed = disk[i].sealed
    BY <1>2, TornIs
  <2>4. <<>> \in Seq(Gap)
    OBVIOUS
  <2>5. w \in Gaps /\ w.batch = <<>> /\ w.failed /\ ~w.running /\ w.pending = gaps[i].pending
    BY <1>2, <2>4 DEF Gaps
  <2> HIDE DEF w, d
  <2>6. GapsOK(w)
    BY <1>2, <2>5 DEF GapsOK
  <2>7. /\ gaps' \in [Starts -> Gaps] /\ gaps'[i] = w /\ disk' \in [Starts -> Spool] /\ disk'[i] = d
        /\ \A j \in Starts : j # i => gaps'[j] = gaps[j] /\ disk'[j] = disk[j]
    BY <1>1, <2>2, <2>3, <2>5
  <2>8. RecsOK(d)
    BY <1>2, <2>3 DEF RecsOK
  <2> QED
    BY <1>1, <1>3, <2>3, <2>5, <2>6, <2>7, <2>8
<1> QED
  BY <1>5, <1>6 DEF WriteGap

LEMMA WriteGapControl ==
  ASSUME ControlInv, StartsDoNotOverlap, NEW i \in Starts, WriteGap(i)
  PROVE  ControlInv'
<1>1. UNCHANGED coordinator /\ UNCHANGED capture /\ UNCHANGED <<stream, writer>>
      /\ faults' \in Nat
  BY Types DEF WriteGap, Fault
<1> QED
  BY <1>1, WriteGapIs, GapStepControl

LEMMA CrashControl ==
  ASSUME ControlInv, Crash
  PROVE  ControlInv'
<1>1. /\ faults' \in Nat /\ phase' = "idle" /\ held' = NoHeld
      /\ calls' = [j \in Starts |-> IF calls[j] = "idle" THEN "idle" ELSE "done"]
      /\ closer' = [j \in Starts |-> IF closer[j].stage \in {"none", "closed"} THEN closer[j]
                                     ELSE [NoCloser EXCEPT !.stage = "closed"]]
      /\ source' = NoSource /\ handoff' = NewHandoff /\ batch' = <<>> /\ pipe' = NewPipe
      /\ stream' = [j \in Starts |-> [buf |-> <<>>, open |-> FALSE]]
      /\ writer' = [j \in Starts |-> "none"] /\ gaps' = [j \in Starts |-> NoGaps]
  BY Types DEF Crash, Fault
<1>2. /\ closer \in [Starts -> Closer] /\ disk \in [Starts -> Spool]
      /\ calls \in [Starts -> Calls] /\ CallsInv /\ TasksInv
  BY Types DEF ControlInv
<1>3. PICK torn \in BOOLEAN :
        disk' = [j \in Starts |-> IF j = held.spool /\ ~disk[j].sealed
                                  THEN [disk[j] EXCEPT !.torn = @ \/ torn] ELSE disk[j]]
  BY DEF Crash
<1>4. ASSUME NEW j \in Starts
      PROVE  disk'[j] \in Spool /\ RecsOK(disk'[j])
  <2>1. disk[j] \in Spool /\ RecsOK(disk[j])
    BY StorageRecs
  <2> DEFINE d == [disk[j] EXCEPT !.torn = @ \/ torn]
  <2>2. d \in Spool /\ d.recs = disk[j].recs
    BY <2>1, TornIs
  <2>3. RecsOK(d)
    BY <2>1, <2>2 DEF RecsOK
  <2>4. disk'[j] \in {d, disk[j]}
    BY <1>3
  <2> HIDE DEF d
  <2> QED
    BY <2>1, <2>2, <2>3, <2>4
<1>5. \A j \in Starts : ~Current(j)'
  BY <1>1 DEF Current
<1>6. [NoCloser EXCEPT !.stage = "closed"] \in Closer /\ [NoCloser EXCEPT !.stage = "closed"].stage = "closed"
  BY FreshOK DEF Closer, Stages, NoCloser
<1>7. closer' \in [Starts -> Closer] /\ \A j \in Starts : closer'[j].stage \in {"none", "closed"}
  BY <1>1, <1>2, <1>6
<1>8. ControlTypeOK'
  BY <1>1, <1>7, FreshOK DEF ControlTypeOK, Phases, Calls, HeldType
<1>9. CaptureTypeOK'
  <2>1. <<>> \in Seq(Item)
    OBVIOUS
  <2> QED
    BY <1>1, <2>1, FreshSource DEF CaptureTypeOK, SourceType, HandoffType
<1>10. StorageTypeOK'
  <2>1. disk' \in [Starts -> Spool]
    BY <1>3, <1>4
  <2> QED
    BY <1>1, <1>4, <2>1, FreshOK DEF StorageTypeOK, RecsOK
<1>11. PipeOK(pipe)'
  BY <1>1, FreshOK
<1>12. CallsInv'
  <2>1. NoCloser.stage = "none"
    BY DEF NoCloser
  <2>2. \A j \in Starts : calls[j] = "idle" => closer[j] = NoCloser
    BY <1>2 DEF CallsInv
  <2>3. \A j \in Starts : calls[j] = "idle" => closer'[j] = NoCloser
    BY <1>1, <2>1, <2>2
  <2> QED
    BY <1>1, <1>7, <2>3 DEF CallsInv, Working, Starting
<1>13. RefsInv'
  BY <1>1 DEF RefsInv, NoHeld, NoSource
<1>14. TasksInv'
  <2>1. ASSUME NEW j \in Starts, calls'[j] \in {"idle", "pausing", "preflight", "create"}
        PROVE  disk'[j] = NoSpool
    <3>1. calls[j] = "idle"
      BY <1>1, <2>1
    <3>2. disk[j] = NoSpool /\ ~Current(j)
      BY <1>2, <3>1 DEF TasksInv, Current, CallsInv, InFlight
    <3>3. j # held.spool
      BY <3>2, StartIsNumber DEF ControlInv, RefsInv
    <3> QED
      BY <1>3, <3>2, <3>3
  <2> QED
    BY <1>1, <2>1, FreshOK DEF TasksInv
<1>15. HandoffInv'
  BY <1>1, <1>7 DEF HandoffInv, NoSource, NewHandoff
<1> QED
  BY <1>5, <1>8, <1>9, <1>10, <1>11, <1>12, <1>13, <1>14, <1>15 DEF ControlInv

LEMMA StutterControl ==
  ASSUME ControlInv, UNCHANGED vars
  PROVE  ControlInv'
<1>1. UNCHANGED coordinator /\ UNCHANGED storage /\ UNCHANGED capture /\ UNCHANGED faults
  BY DEF vars, coordinator, storage, capture
<1>2. CaptureTypeOK' /\ PipeOK(pipe)' /\ UNCHANGED <<source, handoff, batch, pipe>>
  BY <1>1, SameCapture
<1>3. HandoffInv' /\ faults' \in Nat
  BY <1>1, <1>2, Types DEF ControlInv, HandoffInv, coordinator
<1> QED
  BY <1>1, <1>2, <1>3, CaptureControl

(* Every step keeps the control part of the invariant. *)
LEMMA NextControl ==
  ASSUME ControlInv, StartsDoNotOverlap, StartsDoNotOverlap', [Step]_vars
  PROVE  ControlInv'
<1>1. ASSUME NEW i \in Starts, StartStep(i) PROVE ControlInv'
  BY <1>1, EnterPreflightControl, StartPausingControl, BlockedControl, CreateFailsControl,
     CreateControl, SourceStartControl, SourceFailsControl, BeginControl
     DEF StartStep, Start, Paused
<1>2. ASSUME NEW i \in Starts, CloseStep(i) PROVE ControlInv'
  BY <1>2, StopCaptureControl, CloseHandoffControl, FinishPipelineControl, FinishStreamControl,
     WriterAwaitedControl, GapsAwaitedControl, SealControl, AbandonControl DEF CloseStep
<1>3. ASSUME NEW i \in Starts, WriterStep(i) \/ GapStep(i) PROVE ControlInv'
  BY <1>3, ConsumeAudioControl, ConsumeFailureControl, WriterEndsControl, TakeGapsControl,
     WriteGapControl DEF WriterStep, GapStep
<1>4. CASE RecordDropped \/ TakeBatch \/ ProcessItem
  BY <1>4, RecordDroppedControl, TakeBatchControl, ProcessItemControl
<1>5. CASE Stop
  BY <1>5, StopControl DEF Stop
<1>6. CASE EnvironmentLost
  BY <1>6, EnvironmentLostControl
<1>7. ASSUME NEW t \in Tracks, Skip(t) \/ Deliver(t) PROVE ControlInv'
  BY <1>7, SkipControl, DeliverControl
<1>8. CASE StreamStops
  BY <1>8, StreamStopsControl
<1>9. CASE Crash
  BY <1>9, CrashControl
<1>10. CASE UNCHANGED vars
  BY <1>10, StutterControl
<1> QED
  BY <1>1, <1>2, <1>3, <1>4, <1>5, <1>6, <1>7, <1>8, <1>9, <1>10 DEF Step, MachineStep

-----------------------------------------------------------------------------
(* The spools.  A step writes to the spool of the current recording or of the *)
(* one that is being created, never to a sealed one, and only Seal seals.     *)
DiskOK(i) ==
  /\ ~Current(i) /\ calls[i] # "create" => disk'[i] = disk[i]
  /\ disk[i].sealed => disk'[i] = disk[i]
  /\ disk'[i].sealed /\ ~disk[i].sealed =>
       closer[i].stage = "seal" /\ disk'[i] = SealedSpool(disk[i])

LEMMA FreshUnsealed ==
  /\ NoSpool.sealed = FALSE
  /\ \A d \in Spool : [d EXCEPT !.there = TRUE].sealed = d.sealed
<1>1. NoSpool.sealed = FALSE
  BY DEF NoSpool
<1> QED
  BY <1>1 DEF Spool

LEMMA SealDisk ==
  ASSUME ControlInv, StartsDoNotOverlap, NEW j \in Starts, Seal(j), NEW i \in Starts, DataInv(i)
  PROVE  DiskOK(i)
<1> DEFINE sealed == [k \in Starts |-> IF k = held.spool THEN SealedSpool(disk[k]) ELSE disk[k]]
<1>1. closer[j].stage = "seal" /\ disk' \in {disk, sealed}
  BY DEF Seal
<1>2. Working(j)
  BY <1>1 DEF Working
<1>3. Current(j) /\ LiveInv(j)
  BY <1>2, Stopping
<1>4. held.spool = j
  BY <1>3 DEF LiveInv
<1>5. CASE i = j
  <2>1. ~disk[i].sealed
    BY <1>1, <1>3, <1>5 DEF DataInv
  <2>2. disk'[i] \in {disk[i], SealedSpool(disk[i])}
    BY <1>1
  <2> QED
    BY <1>1, <1>3, <1>5, <2>1, <2>2 DEF DiskOK
<1>6. CASE i # j
  <2>1. disk'[i] = disk[i]
    BY <1>1, <1>4, <1>6
  <2> QED
    BY <2>1 DEF DiskOK
<1> QED
  BY <1>5, <1>6

LEMMA NextDisk ==
  ASSUME ControlInv, StartsDoNotOverlap, [Step]_vars, NEW i \in Starts, DataInv(i)
  PROVE  DiskOK(i)
<1>0. disk \in [Starts -> Spool] /\ disk[i] \in Spool
  BY Types
<1>1. CASE disk'[i] = disk[i]
  BY <1>1 DEF DiskOK
<1>2. ASSUME NEW j \in Starts, LinkFails(j) \/ Create(j) PROVE DiskOK(i)
  <2>1. disk' = [disk EXCEPT ![j].there = TRUE] /\ calls[j] = "create"
    BY <1>2 DEF LinkFails, Create
  <2>2. CASE i = j
    <3>1. disk[i] = NoSpool
      BY <2>1, <2>2 DEF ControlInv, TasksInv
    <3>2. disk'[i] = [disk[i] EXCEPT !.there = TRUE]
      BY <1>0, <2>1, <2>2
    <3>3. disk[i].sealed = FALSE /\ disk'[i].sealed = FALSE
      BY <1>0, <3>1, <3>2, FreshUnsealed
    <3> QED
      BY <2>1, <2>2, <3>3 DEF DiskOK
  <2>3. CASE i # j
    BY <1>0, <1>1, <2>1, <2>3
  <2> QED
    BY <2>2, <2>3
<1>3. ASSUME NEW j \in Starts, Seal(j) PROVE DiskOK(i)
  BY <1>3, SealDisk
<1>4. ASSUME NEW j \in Starts, Discard(j) PROVE DiskOK(i)
  <2>1. closer[j].stage = "discard" /\ (disk' = [disk EXCEPT ![j] = NoSpool] \/ disk' = disk)
    BY <1>4 DEF Discard
  <2>2. Working(j)
    BY <2>1 DEF Working
  <2>3. Current(j)
    BY <2>2, Stopping
  <2>4. CASE i = j /\ disk' = [disk EXCEPT ![j] = NoSpool]
    <3>1. ~disk[i].sealed
      BY <2>1, <2>3, <2>4 DEF DataInv
    <3>2. disk'[i] = NoSpool
      BY <1>0, <2>4
    <3>3. disk'[i].sealed = FALSE
      BY <3>2, FreshUnsealed
    <3> QED
      BY <2>3, <2>4, <3>1, <3>3 DEF DiskOK
  <2>5. CASE i # j \/ disk' = disk
    BY <1>0, <1>1, <2>1, <2>5
  <2> QED
    BY <2>1, <2>4, <2>5
<1>5. ASSUME NEW w \in Starts, ConsumeAudio(w) PROVE DiskOK(i)
  <2>1. /\ \A j \in Starts : j # w => disk'[j] = disk[j]
        /\ Head(stream[w].buf) \in Item
        /\ \/ disk'[w] = Store(disk[w], Head(stream[w].buf))
           \/ disk'[w].sealed = disk[w].sealed
    BY <1>5, AudioIs
  <2>2. disk'[w].sealed = disk[w].sealed
    <3>1. disk[w] \in Spool /\ RecsOK(disk[w])
      BY StorageRecs
    <3>2. Store(disk[w], Head(stream[w].buf)).sealed = disk[w].sealed
      BY <2>1, <3>1, StoreIs
    <3> QED
      BY <2>1, <3>2
  <2>3. writer[w] = "running"
    BY <1>5 DEF ConsumeAudio, NextEvent
  <2>4. Current(w) /\ closer[w].stage \in WriterUp
    BY <2>3, Writes
  <2>5. CASE i = w
    <3>1. ~disk[i].sealed
      BY <2>4, <2>5 DEF DataInv, WriterUp, StreamUp, SourceUp
    <3> QED
      BY <2>2, <2>4, <2>5, <3>1 DEF DiskOK
  <2> QED
    BY <1>1, <2>1, <2>5
<1>6. ASSUME NEW w \in Starts, WriteGap(w) PROVE DiskOK(i)
  <2>1. /\ \A j \in Starts : j # w => disk'[j] = disk[j]
        /\ gaps[w].batch # <<>> /\ disk'[w].sealed = disk[w].sealed
    BY <1>6, WriteGapIs
  <2>2. Current(w) /\ closer[w].stage \in GapsUp
    BY <2>1, Writes
  <2>3. CASE i = w
    <3>1. ~disk[i].sealed
      BY <2>2, <2>3 DEF DataInv, GapsUp, WriterUp, StreamUp, SourceUp
    <3> QED
      BY <2>1, <2>2, <2>3, <3>1 DEF DiskOK
  <2> QED
    BY <1>1, <2>1, <2>3
<1>7. CASE Crash
  <2>1. PICK torn \in BOOLEAN :
          disk' = [j \in Starts |-> IF j = held.spool /\ ~disk[j].sealed
                                    THEN [disk[j] EXCEPT !.torn = @ \/ torn] ELSE disk[j]]
    BY <1>7 DEF Crash
  <2>2. [disk[i] EXCEPT !.torn = @ \/ torn].sealed = disk[i].sealed
    BY <1>0, TornIs
  <2>3. disk'[i] = IF i = held.spool /\ ~disk[i].sealed
                   THEN [disk[i] EXCEPT !.torn = @ \/ torn] ELSE disk[i]
    BY <2>1
  <2>4. CASE i = held.spool /\ ~disk[i].sealed
    <3>1. Current(i)
      BY <2>4, StartIsNumber DEF ControlInv, RefsInv
    <3>2. disk'[i].sealed = disk[i].sealed
      BY <2>2, <2>3, <2>4
    <3> QED
      BY <2>4, <3>1, <3>2 DEF DiskOK
  <2> QED
    BY <1>1, <2>3, <2>4
<1>8. CASE UNCHANGED disk
  BY <1>1, <1>8
<1>9. ASSUME NEW j \in Starts, StartStep(j) PROVE DiskOK(i)
  <2>1. CASE LinkFails(j) \/ Create(j)
    BY <1>2, <2>1
  <2>2. CASE ~(LinkFails(j) \/ Create(j))
    <3>1. UNCHANGED disk
      BY <1>9, <2>2 DEF StartStep, Start, StartPausing, Paused, EnterPreflight, Blocked, Ready,
           CreateFails, SourceStart, SourceFails, Begin, storage
    <3> QED
      BY <1>8, <3>1
  <2> QED
    BY <2>1, <2>2
<1>10. ASSUME NEW j \in Starts, CloseStep(j) PROVE DiskOK(i)
  <2>1. CASE Seal(j)
    BY <1>3, <2>1
  <2>2. CASE Discard(j)
    BY <1>4, <2>2
  <2>3. CASE ~Seal(j) /\ ~Discard(j)
    <3>1. UNCHANGED disk
      BY <1>10, <2>3 DEF CloseStep, StopCapture, CloseHandoff, FinishPipeline, FinishStream,
           WriterAwaited, GapsAwaited, Abandon, storage
    <3> QED
      BY <1>8, <3>1
  <2> QED
    BY <2>1, <2>2, <2>3
<1>11. ASSUME NEW j \in Starts, WriterStep(j) \/ GapStep(j) PROVE DiskOK(i)
  <2>1. CASE ConsumeAudio(j)
    BY <1>5, <2>1
  <2>2. CASE WriteGap(j)
    BY <1>6, <2>2
  <2>3. CASE ~ConsumeAudio(j) /\ ~WriteGap(j)
    <3>1. UNCHANGED disk
      BY <1>11, <2>3 DEF WriterStep, GapStep, ConsumeFailure, WriterEnds, TakeGaps
    <3> QED
      BY <1>8, <3>1
  <2> QED
    BY <2>1, <2>2, <2>3
<1>12. ASSUME \/ RecordDropped \/ TakeBatch \/ ProcessItem \/ Stop \/ EnvironmentLost
              \/ StreamStops \/ UNCHANGED vars
              \/ \E t \in Tracks : Skip(t) \/ Deliver(t)
       PROVE  DiskOK(i)
  <2>1. UNCHANGED disk
    BY <1>12 DEF RecordDropped, TakeBatch, ProcessItem, Stop, EnvironmentLost, StreamStops,
         Skip, Deliver, storage, vars
  <2> QED
    BY <1>8, <2>1
<1> QED
  BY <1>7, <1>9, <1>10, <1>11, <1>12 DEF Step, MachineStep

(* A recording that is over is not current, and neither is one before its start. *)
LEMMA ClosedNotCurrent ==
  ASSUME ControlInv, NEW i \in Starts, closer[i].stage = "closed"
  PROVE  ~Current(i) /\ calls[i] # "create"
<1>1. CallsInv /\ NoCloser.stage = "none"
  BY DEF ControlInv, NoCloser
<1>2. calls[i] \in {"done", "undo"}
  BY <1>1 DEF CallsInv
<1>3. ~Working(i)
  BY DEF Working
<1> QED
  BY <1>1, <1>2, <1>3 DEF CallsInv, Current

-----------------------------------------------------------------------------
(* The data: each emitted position is in one place of its recording.         *)
LEMMA NotCurrentData ==
  ASSUME NEW i \in Starts, ~Current(i)' PROVE DataInv(i)'
  BY DEF DataInv, Current

(* No data of i moves; its stop may go on. *)
LEMMA SameData ==
  ASSUME NEW i \in Starts, DataInv(i), Current(i), pipe' = pipe, disk'[i] = disk[i],
         stream'[i].buf = stream[i].buf, gaps'[i] = gaps[i], held'.failed = held.failed,
         \/ calls'[i] = calls[i]
         \/ calls[i] = "begin" /\ calls'[i] = "done",
         closer[i].stage # "abandon" \/ closer'[i].stage = "abandon",
         closer'[i].stage \notin SourceUp => closer[i].stage \notin SourceUp \/ calls[i] = "undo",
         closer'[i].stage = "seal" => closer[i].stage = "seal" \/ (~gaps[i].failed /\ ~held.failed)
  PROVE  DataInv(i)'
<1>1. Sound(i) => Sound(i)'
  BY DEF Sound, OnDisk, OnTheWay
<1>2. disk'[i].sealed => closer'[i].stage = "abandon"
  BY DEF DataInv
<1>3. ASSUME calls'[i] = "source"
      PROVE  disk'[i] = [NoSpool EXCEPT !.there = TRUE] /\ stream'[i].buf = <<>> /\ gaps'[i] = NoGaps
  BY <1>3 DEF DataInv
<1>4. ASSUME calls'[i] \notin {"source", "undo"}
      PROVE  /\ Sound(i)'
             /\ closer'[i].stage \notin SourceUp => \A t \in Tracks : pipe'.pending[t] = {}
             /\ closer'[i].stage = "seal" => ~gaps'[i].failed /\ ~held'.failed
  <2>1. calls[i] \notin {"source", "undo"}
    BY <1>4
  <2> QED
    BY <1>1, <2>1 DEF DataInv
<1> QED
  BY <1>2, <1>3, <1>4 DEF DataInv

(* The steps of start() and of a stop that move no data. *)
LEMMA QuietSteps ==
  ASSUME ControlInv, StartsDoNotOverlap, StartsDoNotOverlap', ControlInv',
         NEW i \in Starts, DataInv(i), NEW j \in Starts,
         \/ Start(j) \/ StartPausing(j) \/ Paused(j) \/ Blocked(j) \/ Ready(j) \/ CreateFails(j)
         \/ Begin(j) \/ StopCapture(j) \/ CloseHandoff(j) \/ FinishStream(j) \/ WriterAwaited(j)
         \/ GapsAwaited(j) \/ Abandon(j) \/ Discard(j) \/ WriterEnds(j)
  PROVE  DataInv(i)'
<1>0. /\ held \in HeldType /\ calls \in [Starts -> Calls] /\ closer \in [Starts -> Closer]
      /\ stream \in [Starts -> Stream]
  BY Types
<1>1. ASSUME Start(j) \/ StartPausing(j) \/ Paused(j) \/ Blocked(j) \/ Ready(j) \/ CreateFails(j)
      PROVE  DataInv(i)'
  <2>1. ~Current(i)'
    <3>1. CASE calls'[j] \in Starting
      <4>1. calls'[j] \notin {"source", "begin", "undo"}
        BY <1>0, <1>1 DEF Start, StartPausing, Paused, Blocked, Ready, CreateFails, EnterPreflight
      <4>2. phase' = "preflighting" /\ (i # j => calls'[i] \in {"idle", "done"})
        BY <3>1 DEF ControlInv, CallsInv, StartsDoNotOverlap, Starting
      <4> QED
        BY <4>1, <4>2 DEF Current
    <3>2. CASE calls'[j] \notin Starting
      <4>1. \/ StartPausing(j) /\ phase' \notin {"preflighting", "recording", "stopping"}
            \/ phase' \in {"blocked", "attention"}
        BY <1>0, <1>1, <3>2 DEF Start, StartPausing, Paused, Blocked, Ready, CreateFails,
             EnterPreflight, Starting, Called, Active
      <4>2. calls'[i] \notin Starting
        BY <4>1 DEF ControlInv, CallsInv
      <4> QED
        BY <4>1, <4>2 DEF Current, Starting
    <3> QED
      BY <3>1, <3>2
  <2> QED
    BY <2>1, NotCurrentData
<1>2. CASE Begin(j)
  <2>1. CASE i = j
    <3>1. calls[j] = "begin" /\ calls'[j] = "done" /\ UNCHANGED capture /\ UNCHANGED storage
          /\ held' = [held EXCEPT !.rec = j, !.env = FALSE]
      BY <1>0, <1>2 DEF Begin
    <3>2. Current(i) /\ closer[i].stage = "none"
      BY <2>1, <3>1 DEF Current, ControlInv, CallsInv, NoCloser
    <3>3. held'.failed = held.failed
      BY <1>0, <3>1 DEF HeldType
    <3>4. closer'[i].stage \in {"none", "capture"}
      BY <1>0, <1>2, <2>1, <3>2 DEF Begin, NoCloser
    <3>5. UNCHANGED <<pipe, disk, stream, gaps>>
      BY <3>1 DEF capture, storage
    <3> QED
      BY <2>1, <3>1, <3>2, <3>3, <3>4, <3>5, SameData DEF SourceUp
  <2>2. CASE i # j
    <3>1. calls[j] = "begin" /\ held'.rec = j /\ calls'[i] = calls[i]
      BY <1>0, <1>2, <2>2 DEF Begin, HeldType
    <3>2. calls[i] \in {"idle", "done"}
      BY <2>2, <3>1, Caller DEF Starting
    <3>3. ~Current(i)'
      BY <2>2, <3>1, <3>2 DEF Current
    <3> QED
      BY <3>3, NotCurrentData
  <2> QED
    BY <2>1, <2>2
<1>3. ASSUME Abandon(j) \/ Discard(j) PROVE DataInv(i)'
  <2>1. phase' = "attention"
    BY <1>3 DEF Abandon, Discard
  <2>2. calls'[i] \notin Starting
    BY <2>1 DEF ControlInv, CallsInv
  <2>3. ~Current(i)'
    BY <2>1, <2>2 DEF Current, Starting
  <2> QED
    BY <2>3, NotCurrentData
<1>4. ASSUME \/ StopCapture(j) \/ CloseHandoff(j) \/ FinishStream(j) \/ WriterAwaited(j)
             \/ GapsAwaited(j) \/ WriterEnds(j)
      PROVE  DataInv(i)'
  <2>1. UNCHANGED <<phase, calls, pipe, gaps, disk>>
    BY <1>4 DEF StopCapture, CloseHandoff, FinishStream, WriterAwaited, GapsAwaited, WriterEnds,
         capture, storage, coordinator
  <2>2. \/ held' = held \/ held' = [held EXCEPT !.cont = None] \/ held' = [held EXCEPT !.writer = None]
        \/ held' = [held EXCEPT !.gaps = None]
    BY <1>4 DEF StopCapture, CloseHandoff, FinishStream, WriterAwaited, GapsAwaited, WriterEnds,
         coordinator
  <2>3. held'.failed = held.failed
    BY <1>0, <2>2 DEF HeldType
  <2>4. held'.rec = held.rec
    BY <1>0, <2>2 DEF HeldType
  <2>5. Current(i)' <=> Current(i)
    BY <2>1, <2>4 DEF Current
  <2>6. stream'[i].buf = stream[i].buf
    <3>1. CASE FinishStream(j)
      <4>1. stream'[i] = IF i = held.cont THEN [stream[i] EXCEPT !.open = FALSE] ELSE stream[i]
        BY <3>1 DEF FinishStream
      <4>2. [stream[i] EXCEPT !.open = FALSE].buf = stream[i].buf
        BY <1>0 DEF Stream
      <4> QED
        BY <4>1, <4>2
    <3>2. CASE ~FinishStream(j)
      BY <1>4, <3>2 DEF StopCapture, CloseHandoff, WriterAwaited, GapsAwaited, WriterEnds, storage
    <3> QED
      BY <3>1, <3>2
  <2>7. CASE Current(i)
    <3>1. /\ closer[i].stage # "abandon" \/ closer'[i].stage = "abandon"
          /\ closer'[i].stage \notin SourceUp => closer[i].stage \notin SourceUp \/ calls[i] = "undo"
          /\ closer'[i].stage = "seal" => closer[i].stage = "seal" \/ (~gaps[i].failed /\ ~held.failed)
      <4>1. CASE WriterEnds(j)
        BY <4>1 DEF WriterEnds, coordinator
      <4>2. CASE ~WriterEnds(j)
        <5>1. Working(j)
          BY <1>4, <4>2 DEF Working, StopCapture, CloseHandoff, FinishStream, WriterAwaited, GapsAwaited
        <5>2. LiveInv(j) /\ i = j /\ calls[i] \in {"undo", "done"}
          BY <2>7, <5>1, Stopping
        <5>3. CASE StopCapture(j)
          <6>1. closer[i].stage = "capture" /\ closer'[i].stage \in {"drain", "closing"}
                /\ (closer'[i].stage = "drain" => source.receiver = None)
            <7>1. i \in Starts /\ closer[i] \in Closer /\ closer[i].stage = "capture"
              BY <1>0, <5>2, <5>3 DEF StopCapture
            <7>2. PICK stage \in {"drain", "closing"} :
                    /\ \/ closer' = [closer EXCEPT ![i].stage = stage]
                       \/ closer' = [closer EXCEPT ![i].stage = stage, ![i].ok = FALSE]
                    /\ stage = "drain" => source.receiver = None
              BY <5>2, <5>3 DEF StopCapture
            <7>3. closer'[i].stage = stage
              BY <1>0, <7>1, <7>2 DEF Closer
            <7> QED
              BY <7>1, <7>2, <7>3
          <6>2. source.receiver = None => calls[i] = "undo"
            BY <5>2, <6>1, StartIsNumber DEF LiveInv, UpTo, SourceUp
          <6> QED
            BY <6>1, <6>2 DEF SourceUp
        <5>4. CASE CloseHandoff(j)
          BY <1>0, <5>2, <5>4 DEF CloseHandoff, SourceUp
        <5>5. CASE FinishStream(j)
          BY <1>0, <5>2, <5>5 DEF FinishStream, SourceUp
        <5>6. CASE WriterAwaited(j)
          BY <1>0, <5>2, <5>6 DEF WriterAwaited, SourceUp
        <5>7. CASE GapsAwaited(j)
          <6>1. /\ closer[i].stage = "flush" /\ closer'[i].stage \in {"discard", "seal", "abandon"}
                /\ (closer'[i].stage = "seal" => MaySeal(i) /\ closer[i].kind # "undo")
            BY <1>0, <5>2, <5>7 DEF GapsAwaited
          <6>2. closer'[i].stage = "seal" => held.gaps = i
            <7>1. Working(i) => (closer[i].kind = "undo" <=> calls[i] = "undo")
              BY <5>2 DEF LiveInv
            <7> QED
              BY <5>1, <5>2, <6>1, <7>1 DEF LiveInv, UpTo, GapsUp
          <6> QED
            BY <6>1, <6>2 DEF MaySeal, SourceUp
        <5> QED
          BY <1>4, <4>2, <5>3, <5>4, <5>5, <5>6, <5>7
      <4> QED
        BY <4>1, <4>2
    <3> QED
      BY <2>1, <2>3, <2>6, <2>7, <3>1, SameData
  <2>8. CASE ~Current(i)
    BY <2>5, <2>8, NotCurrentData
  <2> QED
    BY <2>7, <2>8
<1> QED
  BY <1>1, <1>2, <1>3, <1>4

LEMMA CreateData ==
  ASSUME ControlInv, StartsDoNotOverlap, NEW i \in Starts, DataInv(i), NEW j \in Starts,
         LinkFails(j) \/ Create(j)
  PROVE  DataInv(i)'
<1>0. /\ disk \in [Starts -> Spool] /\ calls \in [Starts -> Calls] /\ stream \in [Starts -> Stream]
      /\ held \in HeldType
  BY Types
<1>1. calls[j] = "create" /\ disk' = [disk EXCEPT ![j].there = TRUE] /\ gaps' = gaps
      /\ phase' = phase
  BY DEF LinkFails, Create
<1>2. phase = "preflighting" /\ (i # j => calls[i] \in {"idle", "done"})
  BY <1>1, Caller DEF Starting
<1>3. CASE i # j
  <2>1. calls'[i] = calls[i]
    BY <1>0, <1>3 DEF LinkFails, Create, Undo
  <2>2. ~Current(i)'
    BY <1>1, <1>2, <1>3, <2>1 DEF Current
  <2> QED
    BY <2>2, NotCurrentData
<1>4. CASE i = j
  <2>1. disk[i] = NoSpool /\ writer[i] = "none"
    BY <1>1, <1>4 DEF ControlInv, TasksInv
  <2>2. gaps[i] = NoGaps /\ stream[i].buf = <<>>
    BY <2>1 DEF ControlInv, TasksInv
  <2>3. disk'[i] = [NoSpool EXCEPT !.there = TRUE]
    BY <1>0, <1>1, <1>4, <2>1
  <2>4. ~disk'[i].sealed
    BY <2>3, FreshOK, FreshUnsealed
  <2>5. \/ calls'[i] = "undo"
        \/ calls'[i] = "source" /\ stream' = [stream EXCEPT ![i].open = TRUE]
    BY <1>0, <1>4 DEF LinkFails, Create, Undo
  <2>6. calls'[i] = "source" => stream'[i].buf = <<>>
    BY <1>0, <2>2, <2>5 DEF Stream
  <2> QED
    BY <1>1, <2>2, <2>3, <2>4, <2>5, <2>6 DEF DataInv
<1> QED
  BY <1>3, <1>4

(* Nothing has been emitted, and nothing is anywhere. *)
LEMMA FreshAccount ==
  /\ Account([NoSpool EXCEPT !.there = TRUE], [buf |-> <<>>, open |-> TRUE], NoGaps, Emitted(NewPipe))
  /\ ~[NoSpool EXCEPT !.there = TRUE].torn
<1> DEFINE d == [NoSpool EXCEPT !.there = TRUE]
<1>1. /\ \A t \in Tracks : d.recs[t] = <<>>
      /\ d.journal = <<>> /\ ~d.torn
  BY DEF NoSpool
<1>2. NoGaps.batch = <<>> /\ NoGaps.pending = {}
  BY DEF NoGaps
<1>3. \A t \in Tracks : Emitted(NewPipe)[t] = 0
  BY DEF Emitted, NewPipe, FrontOf
<1> HIDE DEF d
<1>4. ASSUME NEW t \in Tracks, NEW n \in Nat
      PROVE  OnDisk(d, t, n) + OnTheWay([buf |-> <<>>, open |-> TRUE], NoGaps, t, n)
               = Once(Emitted(NewPipe), t, n)
  <2>1. OnDisk(d, t, n) = 0
    BY <1>1, InSeqEmpty DEF OnDisk
  <2>2. OnTheWay([buf |-> <<>>, open |-> TRUE], NoGaps, t, n) = 0
    BY <1>2, InSeqEmpty, InSetEmpty DEF OnTheWay
  <2>3. Once(Emitted(NewPipe), t, n) = 0
    BY <1>3 DEF Once
  <2> QED
    BY <2>1, <2>2, <2>3
<1> QED
  BY <1>1, <1>4 DEF Account, d

LEMMA SourceStartData ==
  ASSUME ControlInv, StartsDoNotOverlap, NEW i \in Starts, DataInv(i), NEW j \in Starts,
         SourceStart(j) \/ SourceFails(j)
  PROVE  DataInv(i)'
<1>0. calls \in [Starts -> Calls] /\ closer \in [Starts -> Closer]
  BY Types
<1>1. calls[j] = "source" /\ phase' = phase /\ disk' = disk
      /\ gaps' = gaps
  BY DEF SourceStart, SourceFails, storage
<1>2. phase = "preflighting" /\ Current(j) /\ (i # j => calls[i] \in {"idle", "done"})
  BY <1>1, Caller DEF Starting
<1>3. CASE i # j
  <2>1. calls'[i] = calls[i]
    BY <1>0, <1>3 DEF SourceStart, SourceFails, Undo
  <2>2. ~Current(i)'
    BY <1>1, <1>2, <1>3, <2>1 DEF Current
  <2> QED
    BY <2>2, NotCurrentData
<1>4. CASE i = j
  <2>1. disk[i] = [NoSpool EXCEPT !.there = TRUE] /\ stream[i].buf = <<>> /\ gaps[i] = NoGaps
    BY <1>1, <1>4 DEF DataInv
  <2>2. ~disk[i].sealed
    BY <2>1, FreshOK, FreshUnsealed
  <2>3. CASE SourceFails(j)
    <3>1. calls'[i] = "undo"
      BY <1>0, <1>4, <2>3 DEF SourceFails, Undo
    <3> QED
      BY <1>1, <2>2, <3>1 DEF DataInv
  <2>4. CASE SourceStart(j)
    <3>1. LiveInv(j)
      BY <1>2 DEF ControlInv
    <3>2. source.receiver = None
      BY <1>1, <3>1 DEF LiveInv
    <3>3. pipe' = NewPipe /\ calls'[i] = "begin" /\ stream' = stream /\ closer' = closer
      BY <1>0, <1>4, <2>4, <3>2 DEF SourceStart, storage
    <3>4. closer'[i].stage = "none"
      BY <1>1, <1>4, <3>3 DEF ControlInv, CallsInv, NoCloser
    <3>5. Account(disk'[i], stream'[i], gaps'[i], Emitted(pipe'))
      BY <1>1, <2>1, <3>3, FreshAccount DEF Account, OnTheWay
    <3>6. ~disk'[i].torn
      BY <1>1, <2>1, FreshAccount
    <3>7. Sound(i)'
      BY <3>5, <3>6 DEF Sound, Account
    <3> QED
      BY <1>1, <2>2, <3>3, <3>4, <3>7 DEF DataInv, SourceUp
  <2> QED
    BY <2>3, <2>4
<1> QED
  BY <1>3, <1>4

LEMMA StopData ==
  ASSUME ControlInv, NEW i \in Starts, DataInv(i), Stop \/ EnvironmentLost
  PROVE  DataInv(i)'
<1>0. held \in HeldType /\ closer \in [Starts -> Closer]
  BY Types
<1>1. UNCHANGED calls /\ UNCHANGED <<pipe, disk, stream, gaps>>
  BY DEF Stop, EnvironmentLost, capture, storage
<1>2. CASE phase = "recording"
  <2>1. \A k \in Starts : Current(k) <=> k = held.rec
    BY <1>2, Recording
  <2>2. held.rec \in Starts /\ closer[held.rec].stage = "none" /\ calls[held.rec] = "done"
    BY <1>2, Recording
  <2>3. held' = held /\ phase' = "stopping"
    BY <1>2 DEF Stop, EnvironmentLost, Close
  <2>4. closer'[held.rec].stage = "capture"
    BY <1>0, <1>2, <2>2 DEF Stop, EnvironmentLost, Close
  <2>5. CASE i = held.rec
    <3>1. Current(i)
      BY <2>1, <2>5
    <3> QED
      BY <1>1, <2>2, <2>3, <2>4, <2>5, <3>1, SameData DEF SourceUp
  <2>6. CASE i # held.rec
    <3>1. calls[i] \in {"idle", "done"}
      BY <1>2, Recording
    <3>2. ~Current(i)'
      BY <1>1, <2>3, <2>6, <3>1 DEF Current
    <3> QED
      BY <3>2, NotCurrentData
  <2> QED
    BY <2>5, <2>6
<1>3. CASE phase # "recording"
  <2>1. held' = [held EXCEPT !.env = TRUE] /\ UNCHANGED <<phase, closer>>
    BY <1>3 DEF Stop, EnvironmentLost
  <2>2. held'.failed = held.failed
    BY <1>0, <2>1 DEF HeldType
  <2>3. held'.rec = held.rec
    BY <1>0, <2>1 DEF HeldType
  <2>4. Current(i)' <=> Current(i)
    BY <1>1, <2>1, <2>3 DEF Current
  <2>5. CASE Current(i)
    BY <1>1, <2>1, <2>2, <2>5, SameData
  <2>6. CASE ~Current(i)
    BY <2>4, <2>6, NotCurrentData
  <2> QED
    BY <2>5, <2>6
<1> QED
  BY <1>2, <1>3

LEMMA CaptureData ==
  ASSUME NEW i \in Starts, DataInv(i),
         \/ TakeBatch \/ UNCHANGED vars
         \/ \E t \in Tracks : Skip(t) \/ Deliver(t)
  PROVE  DataInv(i)'
<1>1. UNCHANGED <<phase, calls, held, closer>> /\ UNCHANGED <<pipe, disk, stream, gaps>>
  BY DEF TakeBatch, vars, Skip, Deliver, coordinator, storage
<1>2. Current(i)' <=> Current(i)
  BY <1>1 DEF Current
<1>3. CASE Current(i)
  BY <1>1, <1>3, SameData
<1>4. CASE ~Current(i)
  BY <1>2, <1>4, NotCurrentData
<1> QED
  BY <1>3, <1>4

(* The pipeline moves and its events are yielded to the current recording. *)
LEMMA YieldSound ==
  ASSUME ControlInv, NEW i \in Starts, source.receiver = i, DataInv(i), UNCHANGED held,
         NEW r, Delivers(pipe, r), pipe' = r.p, Yield(r.events), UNCHANGED disk
  PROVE  Sound(i)'
<1>1. /\ Current(i) /\ stream[i].open /\ calls[i] \notin {"source", "undo"}
  BY Receiver
<1>2. Sound(i)
  BY <1>1 DEF DataInv
<1>3. StorageTypeOK /\ GapsOK(gaps[i]) /\ disk[i] \in Spool /\ r.events \in Seq(Event)
  BY Types DEF ControlInv, TasksInv, Delivers
<1>4. gaps[i].failed => gaps'[i].failed
  BY <1>3, YieldSomewhere
<1> SUFFICES ASSUME ~pipe'.lost, ~gaps'[i].failed, ~held'.failed
             PROVE  ~disk'[i].torn /\ Account(disk'[i], stream'[i], gaps'[i], Emitted(pipe'))
  BY DEF Sound, Account
<1>5. ~pipe.lost /\ Chain(r.events, Emitted(pipe), Emitted(pipe'))
  BY DEF Delivers
<1>6. ~disk[i].torn /\ Account(disk[i], stream[i], gaps[i], Emitted(pipe))
  BY <1>2, <1>4, <1>5 DEF Sound, Account
<1>7. Account(disk[i], stream'[i], gaps'[i], Emitted(pipe'))
  BY <1>1, <1>3, <1>5, <1>6, YieldAccount
<1> QED
  BY <1>6, <1>7

LEMMA NoticeDelivers ==
  ASSUME NEW p, PipeOK(p), NEW what \in Notices
  PROVE  Delivers(p, Result(p, <<Failure(what)>>, FALSE))
<1>1. p \in Pipe
  BY DEF PipeOK
<1>2. Emitted(p) \in Fronts
  BY <1>1, EmittedFront
<1>3. <<Failure(what)>> \in Seq(Event) /\ Chain(<<Failure(what)>>, Emitted(p), Emitted(p))
  BY <1>2, NoticeChain
<1> DEFINE es == <<Failure(what)>>
<1> HIDE DEF es
<1>4. Delivers(p, Result(p, es, FALSE))
  BY <1>1, <1>3 DEF Delivers, Result, es
<1> QED
  BY <1>4 DEF es

LEMMA YieldingData ==
  ASSUME ControlInv, StartsDoNotOverlap, NEW i \in Starts, DataInv(i),
         RecordDropped \/ StreamStops \/ ProcessItem
  PROVE  DataInv(i)'
<1>1. UNCHANGED <<phase, calls, held, closer>> /\ UNCHANGED disk /\ PipeOK(pipe)
  BY Types DEF RecordDropped, StreamStops, ProcessItem, coordinator
<1>2. Current(i)' <=> Current(i)
  BY <1>1 DEF Current
<1>3. source.receiver # None
  BY DEF RecordDropped, StreamStops, ProcessItem, ControlInv, HandoffInv
<1>4. \E r : Delivers(pipe, r) /\ pipe' = r.p /\ Yield(r.events)
  <2>1. CASE ProcessItem
    BY <2>1, ItemIs
  <2>2. CASE RecordDropped \/ StreamStops
    <3>1. PICK what \in Notices : Yield(<<Failure(what)>>) /\ pipe' = pipe
      BY <2>2 DEF RecordDropped, StreamStops, Notices
    <3>2. Delivers(pipe, Result(pipe, <<Failure(what)>>, FALSE))
      BY <1>1, NoticeDelivers
    <3> DEFINE r == Result(pipe, <<Failure(what)>>, FALSE)
    <3>3. r.p = pipe /\ r.events = <<Failure(what)>>
      BY DEF Result
    <3> QED
      BY <3>1, <3>2, <3>3
  <2> QED
    BY <2>1, <2>2
<1>5. CASE Current(i)
  <2>1. source.receiver = i
    <3>1. source.receiver \in Starts /\ Current(source.receiver)
      BY <1>3, References
    <3> QED
      BY <1>5, <3>1, CurrentUnique DEF ControlInv
  <2>2. closer[i].stage \in SourceUp /\ calls[i] \notin {"source", "undo"}
    BY <2>1, Receiver
  <2>3. Sound(i)'
    BY <1>1, <1>4, <2>1, YieldSound
  <2>4. ~disk'[i].sealed
    BY <1>1, <1>5, <2>2 DEF DataInv, SourceUp
  <2> QED
    BY <1>1, <2>2, <2>3, <2>4 DEF DataInv, SourceUp
<1>6. CASE ~Current(i)
  BY <1>2, <1>6, NotCurrentData
<1> QED
  BY <1>5, <1>6

LEMMA FinishPipelineData ==
  ASSUME ControlInv, StartsDoNotOverlap, NEW i \in Starts, DataInv(i), NEW j \in Starts,
         FinishPipeline(j)
  PROVE  DataInv(i)'
<1>1. /\ UNCHANGED <<phase, calls, held, disk>> /\ closer[j].stage = "finishing"
      /\ pipe' = Finished(pipe).p /\ Yield(Finished(pipe).events) /\ PipeOK(pipe)
      /\ closer' = [closer EXCEPT ![j].stage = "drain"] /\ closer \in [Starts -> Closer]
  BY Types DEF FinishPipeline
<1>2. Working(j)
  BY <1>1 DEF Working
<1>3. LiveInv(j) /\ Current(j) /\ \A k \in Starts \ {j} : ~Current(k)
  BY <1>2, Stopping
<1>4. CASE i = j
  <2>1. source.receiver = i
    BY <1>1, <1>2, <1>3, <1>4, Stopping DEF LiveInv, UpTo, SourceUp
  <2>2. Delivers(pipe, Finished(pipe)) /\ \A t \in Tracks : pipe'.pending[t] = {}
    BY <1>1, FinishedSound
  <2>3. Sound(i)'
    BY <1>1, <2>1, <2>2, YieldSound
  <2>4. ~disk'[i].sealed
    BY <1>1, <1>3, <1>4 DEF DataInv
  <2>5. calls[i] \notin {"source", "undo"}
    BY <2>1, Receiver
  <2>6. closer'[i].stage = "drain"
    BY <1>1, <1>4 DEF Closer
  <2> QED
    BY <1>1, <2>2, <2>3, <2>4, <2>5, <2>6 DEF DataInv
<1>5. CASE i # j
  <2>1. ~Current(i)'
    BY <1>1, <1>3, <1>5 DEF Current
  <2> QED
    BY <2>1, NotCurrentData
<1> QED
  BY <1>4, <1>5

LEMMA SealData ==
  ASSUME ControlInv, ControlInv', StartsDoNotOverlap, NEW i \in Starts, DataInv(i),
         NEW j \in Starts, Seal(j)
  PROVE  DataInv(i)'
<1>1. CASE phase' \in {"sealed", "attention"}
  <2>1. calls'[i] \notin Starting
    BY <1>1 DEF ControlInv, CallsInv
  <2>2. ~Current(i)'
    BY <1>1, <2>1 DEF Current, Starting
  <2> QED
    BY <2>2, NotCurrentData
<1>2. CASE phase' \notin {"sealed", "attention"}
  <2>1. /\ UNCHANGED <<phase, held, calls>> /\ UNCHANGED <<stream, gaps>> /\ UNCHANGED pipe
        /\ closer' = [closer EXCEPT ![j].stage = "abandon"] /\ closer \in [Starts -> Closer]
        /\ closer[j].stage = "seal"
    BY <1>2, Types DEF Seal, capture
  <2>2. Working(j)
    BY <2>1 DEF Working
  <2>3. Current(j) /\ LiveInv(j) /\ \A k \in Starts \ {j} : ~Current(k)
    BY <2>2, Stopping
  <2>4. CASE i # j
    <3>1. ~Current(i)'
      BY <2>1, <2>3, <2>4 DEF Current
    <3> QED
      BY <3>1, NotCurrentData
  <2>5. CASE i = j
    <3>1. closer'[i].stage = "abandon"
      BY <2>1, <2>5 DEF Closer
    <3>2. disk'[i] \in {disk[i], SealedSpool(disk[i])}
      <4>1. held.spool = i
        BY <2>3, <2>5 DEF LiveInv
      <4> QED
        BY <4>1 DEF Seal
    <3>3. /\ SealedSpool(disk[i]).recs = disk[i].recs /\ SealedSpool(disk[i]).journal = disk[i].journal
          /\ SealedSpool(disk[i]).torn = disk[i].torn
      BY Types, SealedSpoolIs
    <3>4. disk'[i].recs = disk[i].recs /\ disk'[i].journal = disk[i].journal
          /\ disk'[i].torn = disk[i].torn
      BY <3>2, <3>3
    <3>5. Sound(i) => Sound(i)'
      BY <2>1, <3>4 DEF Sound, OnDisk
    <3>6. calls[i] # "source"
      BY <2>1, <2>2, <2>5, Stopping
    <3> QED
      BY <2>1, <2>3, <2>5, <3>1, <3>5, <3>6 DEF DataInv, SourceUp
  <2> QED
    BY <2>4, <2>5
<1> QED
  BY <1>1, <1>2

LEMMA CrashData ==
  ASSUME NEW i \in Starts, Crash PROVE DataInv(i)'
<1>1. ~Current(i)'
  BY DEF Crash, Current
<1> QED
  BY <1>1, NotCurrentData

(* An event that has no audio in it is nowhere. *)
LEMMA NoticeHit ==
  ASSUME NEW e, e.track = "none", NEW t \in Tracks, NEW n PROVE Hit(e, t, n) = 0
  BY DEF Hit, Hits, Tracks

LEMMA ConsumeData ==
  ASSUME ControlInv, ControlInv', StartsDoNotOverlap, NEW i \in Starts, DataInv(i),
         NEW w \in Starts, ConsumeAudio(w) \/ ConsumeFailure(w)
  PROVE  DataInv(i)'
<1> DEFINE e == Head(stream[w].buf)
<1>1. /\ writer[w] = "running" /\ stream[w].buf # <<>> /\ stream \in [Starts -> Stream]
      /\ stream' = [stream EXCEPT ![w].buf = Tail(@)] /\ UNCHANGED <<calls, gaps>>
      /\ UNCHANGED pipe /\ held \in HeldType /\ held' \in HeldType /\ disk \in [Starts -> Spool]
      /\ closer \in [Starts -> Closer]
  <2>1. held \in HeldType /\ stream \in [Starts -> Stream] /\ disk \in [Starts -> Spool]
        /\ closer \in [Starts -> Closer]
    BY Types
  <2>2. held' \in HeldType
    BY DEF ControlInv, ControlTypeOK, HeldType
  <2> QED
    BY <2>1, <2>2 DEF ConsumeAudio, ConsumeFailure, NextEvent, capture
<1>2. /\ Current(w) /\ LiveInv(w) /\ closer[w].stage \in WriterUp /\ calls[w] # "create"
      /\ \A k \in Starts : Current(k) <=> k = w
  BY <1>1, Writes
<1>3. held'.rec = held.rec
  <2>1. CASE ConsumeAudio(w)
    <3>1. held' = held \/ held' = [held EXCEPT !.failed = TRUE]
      BY <2>1, AudioIs
    <3> QED
      BY <1>1, <3>1 DEF HeldType
  <2>2. CASE ConsumeFailure(w)
    BY <1>1, <2>2 DEF ConsumeFailure, HeldType
  <2> QED
    BY <2>1, <2>2
<1>4. \/ UNCHANGED <<phase, closer>>
      \/ /\ phase = "recording" /\ phase' = "stopping" /\ w = held.rec
         /\ closer'[w].stage = "capture"
  <2>1. UNCHANGED <<phase, closer>> \/ (phase = "recording" /\ Close("fail", w))
    BY DEF ConsumeAudio, ConsumeFailure, FailActive
  <2>2. CASE phase = "recording" /\ Close("fail", w)
    <3>1. w = held.rec
      BY <1>2, <2>2, Recording
    <3>2. closer'[w].stage = "capture" /\ phase' = "stopping"
      BY <1>1, <2>2, <3>1 DEF Close
    <3> QED
      BY <2>2, <3>1, <3>2
  <2> QED
    BY <2>1, <2>2
<1>5. CASE i # w
  <2>1. ~Current(i)
    BY <1>2, <1>5
  <2>2. ~Current(i)'
    BY <1>1, <1>3, <1>4, <1>5, <2>1 DEF Current
  <2> QED
    BY <2>2, NotCurrentData
<1>6. CASE i = w
  <2>1. /\ stream[i].buf \in Seq(Event) /\ stream'[i].buf = Tail(stream[i].buf) /\ disk[i] \in Spool
        /\ e \in Event /\ GapsOK(gaps[i]) /\ stream[i] \in Stream
    <3>1. stream[i] \in Stream /\ stream[i].buf \in Seq(Event) /\ disk[i] \in Spool
      BY <1>1 DEF Stream
    <3>2. e \in Event
      BY <1>1, <1>6, <3>1
    <3>3. stream'[i].buf = Tail(stream[i].buf)
      BY <1>1, <1>6 DEF Stream
    <3> QED
      BY <3>1, <3>2, <3>3 DEF ControlInv, TasksInv
  <2>2. ~disk[i].sealed
    BY <1>2, <1>6 DEF DataInv, WriterUp, StreamUp, SourceUp
  <2>3. calls[i] # "source"
    BY <1>1, <1>6 DEF DataInv
  <2>4. ~disk'[i].sealed
    <3>1. CASE ConsumeAudio(w)
      <4>1. DiskOK(i)
        BY <3>1, NextDisk DEF Step, MachineStep, WriterStep
      <4> QED
        BY <1>2, <1>6, <2>2, <4>1 DEF DiskOK, WriterUp, StreamUp, SourceUp
    <3>2. CASE ConsumeFailure(w)
      BY <2>2, <3>2 DEF ConsumeFailure
    <3> QED
      BY <3>1, <3>2
  <2>5. ASSUME calls[i] # "undo" PROVE Sound(i)'
    <3>0. Sound(i)
      BY <1>2, <1>6, <2>3, <2>5 DEF DataInv
    <3> SUFFICES ASSUME ~pipe'.lost, ~gaps'[i].failed, ~held'.failed
                 PROVE  ~disk'[i].torn /\ Account(disk'[i], stream'[i], gaps'[i], Emitted(pipe'))
      BY DEF Sound, Account
    <3>1. /\ ~held.failed
          /\ \/ /\ ~disk'[i].torn <=> ~disk[i].torn
                /\ \A t \in Tracks, n \in Nat :
                     OnDisk(disk'[i], t, n) = OnDisk(disk[i], t, n) + Hit(e, t, n)
      <4>1. CASE ConsumeAudio(w)
        <5>1. e \in Item /\ disk'[w] = Store(disk[w], e) /\ held' = held
          <6>1. [held EXCEPT !.failed = TRUE].failed = TRUE
            BY <1>1 DEF HeldType
          <6> QED
            BY <4>1, <6>1, AudioIs
        <5>2. RecsOK(disk[w])
          BY StorageRecs
        <5> QED
          BY <1>6, <2>1, <2>2, <5>1, <5>2, StoreIs
      <4>2. CASE ConsumeFailure(w)
        <5>1. e.track = "none" /\ disk' = disk
              /\ held' = [held EXCEPT !.fatal = @ \/ e.reason = "required_tracks"]
          BY <4>2 DEF ConsumeFailure
        <5>2. held'.failed = held.failed
          BY <1>1, <5>1 DEF HeldType
        <5>3. ASSUME NEW t \in Tracks, NEW n \in Nat
              PROVE  OnDisk(disk'[i], t, n) = OnDisk(disk[i], t, n) + Hit(e, t, n)
          <6>1. Hit(e, t, n) = 0
            BY <5>1, NoticeHit
          <6>2. OnDisk(disk[i], t, n) \in Nat
            BY <2>1, CountsNat
          <6> QED
            BY <5>1, <6>1, <6>2
        <5> QED
          BY <5>1, <5>2, <5>3
      <4> QED
        BY <4>1, <4>2
    <3>2. ~disk[i].torn /\ Account(disk[i], stream[i], gaps[i], Emitted(pipe))
      BY <1>1, <3>0, <3>1 DEF Sound, Account
    <3>3. ASSUME NEW t \in Tracks, NEW n \in Nat
          PROVE  OnDisk(disk'[i], t, n) + OnTheWay(stream'[i], gaps'[i], t, n) = Once(Emitted(pipe'), t, n)
      <4>1. InSeq(stream[i].buf, t, n) = InSeq(stream'[i].buf, t, n) + Hit(e, t, n)
        BY <1>1, <1>6, <2>1, InSeqTail
      <4>2. /\ OnDisk(disk[i], t, n) \in Nat /\ InSeq(gaps[i].batch, t, n) \in Nat
            /\ InSet(gaps[i].pending, t, n) \in Nat
        BY <2>1, CountsNat
      <4>3. InSeq(stream'[i].buf, t, n) \in Nat /\ Hit(e, t, n) \in {0, 1}
        <5>1. stream'[i].buf \in Seq(Event)
          BY <1>1, <1>6, <2>1
        <5>2. Len(stream'[i].buf) \in Nat
          BY <5>1, LenProperties
        <5> QED
          BY <5>2, InSeqNat, HitNat
      <4>4. OnDisk(disk[i], t, n) + OnTheWay(stream[i], gaps[i], t, n) = Once(Emitted(pipe), t, n)
        BY <3>2 DEF Account
      <4>5. OnDisk(disk'[i], t, n) = OnDisk(disk[i], t, n) + Hit(e, t, n)
        BY <3>1
      <4>6. gaps' = gaps /\ pipe' = pipe
        BY <1>1
      <4> HIDE DEF e
      <4> QED
        BY <4>1, <4>2, <4>3, <4>4, <4>5, <4>6 DEF OnTheWay
    <3> QED
      BY <3>1, <3>2, <3>3 DEF Account
  <2>6. closer'[i].stage \in WriterUp /\ (closer'[i].stage \notin SourceUp => closer[i].stage \notin SourceUp)
    BY <1>2, <1>4, <1>6 DEF WriterUp, StreamUp, SourceUp
  <2> QED
    BY <1>1, <1>2, <1>6, <2>3, <2>4, <2>5, <2>6 DEF DataInv, WriterUp, StreamUp, SourceUp
<1> QED
  BY <1>5, <1>6

LEMMA GapsData ==
  ASSUME ControlInv, ControlInv', StartsDoNotOverlap, NEW i \in Starts, DataInv(i),
         NEW w \in Starts, TakeGaps(w) \/ WriteGap(w)
  PROVE  DataInv(i)'
<1>1. UNCHANGED <<phase, calls, held, closer>> /\ UNCHANGED <<stream, pipe>>
  BY DEF TakeGaps, WriteGap, coordinator, capture
<1>2. gaps[w].running \/ gaps[w].batch # <<>>
  BY DEF TakeGaps, WriteGap
<1>3. /\ Current(w) /\ closer[w].stage \in GapsUp /\ \A k \in Starts : Current(k) <=> k = w
  BY <1>2, Writes
<1>4. Current(i)' <=> Current(i)
  BY <1>1 DEF Current
<1>5. CASE i # w
  BY <1>3, <1>4, <1>5, NotCurrentData
<1>6. CASE i = w
  <2>1. calls[i] # "source"
    <3>1. ~NoGaps.running /\ NoGaps.batch = <<>>
      BY DEF NoGaps
    <3> QED
      BY <1>2, <1>6, <3>1 DEF DataInv
  <2>2. closer[i].stage # "seal" /\ closer[i].stage # "abandon"
    BY <1>3, <1>6 DEF GapsUp, WriterUp, StreamUp, SourceUp
  <2>3. ~disk[i].sealed
    BY <1>3, <1>6, <2>2 DEF DataInv
  <2>4. ~disk'[i].sealed
    <3>1. CASE TakeGaps(w)
      BY <2>3, <3>1 DEF TakeGaps
    <3>2. CASE WriteGap(w)
      BY <1>6, <2>3, <3>2, WriteGapIs
    <3> QED
      BY <3>1, <3>2
  <2>5. disk[i] \in Spool /\ RecsOK(disk[i]) /\ stream[i] \in Stream /\ GapsOK(gaps[i])
    BY Types, StorageRecs DEF ControlInv, TasksInv
  <2>6. ASSUME calls[i] # "undo" PROVE Sound(i)'
    <3>0. Sound(i)
      BY <1>3, <1>6, <2>1, <2>6 DEF DataInv
    <3> SUFFICES ASSUME ~pipe'.lost, ~gaps'[i].failed, ~held'.failed
                 PROVE  ~disk'[i].torn /\ Account(disk'[i], stream'[i], gaps'[i], Emitted(pipe'))
      BY DEF Sound, Account
    <3>1. CASE TakeGaps(w)
      <4>1. /\ gaps[i].batch = <<>> /\ gaps'[i].batch \in SetToSeqs(gaps[i].pending)
            /\ gaps'[i].pending = {} /\ ~gaps[i].failed /\ disk' = disk
        BY <1>6, <3>1, TakeGapsIs DEF TakeGaps
      <4>2. ~disk[i].torn /\ Account(disk[i], stream[i], gaps[i], Emitted(pipe))
        BY <1>1, <3>0, <4>1 DEF Sound, Account
      <4>3. ASSUME NEW t \in Tracks, NEW n \in Nat
            PROVE  OnTheWay(stream'[i], gaps'[i], t, n) = OnTheWay(stream[i], gaps[i], t, n)
        <5>1. IsFiniteSet(gaps[i].pending)
          BY <2>5 DEF GapsOK
        <5>2. InSeq(gaps'[i].batch, t, n) = InSet(gaps[i].pending, t, n)
          BY <4>1, <5>1, InSeqOfSet
        <5>3. InSeq(gaps[i].batch, t, n) = 0 /\ InSet(gaps'[i].pending, t, n) = 0
          BY <4>1, InSeqEmpty, InSetEmpty
        <5>4. InSeq(stream[i].buf, t, n) \in Nat /\ InSet(gaps[i].pending, t, n) \in Nat
          BY <2>5, CountsNat
        <5> QED
          BY <1>1, <5>2, <5>3, <5>4 DEF OnTheWay
      <4> QED
        BY <1>1, <4>1, <4>2, <4>3 DEF Account
    <3>2. CASE WriteGap(w)
      <4> DEFINE e == Head(gaps[i].batch)
      <4>1. /\ disk'[i] = Store(disk[i], e) /\ gaps'[i].batch = Tail(gaps[i].batch)
            /\ gaps'[i].pending = gaps[i].pending /\ gaps'[i].failed = gaps[i].failed
        BY <1>6, <3>2, WriteGapIs
      <4>2. gaps[i].batch # <<>> /\ gaps[i].batch \in Seq(Item) /\ GapsOK(gaps'[i])
        BY <1>6, <3>2, WriteGapIs
      <4>3. e \in Item
        BY <4>2
      <4>4. disk'[i].torn = disk[i].torn
        BY <2>5, <4>1, <4>3, StoreIs
      <4>5. \A t \in Tracks, n \in Nat : OnDisk(disk'[i], t, n) = OnDisk(disk[i], t, n) + Hit(e, t, n)
        BY <2>3, <2>5, <4>1, <4>3, StoreIs
      <4>6. ~gaps[i].failed
        BY <4>1
      <4>7. ~disk[i].torn /\ Account(disk[i], stream[i], gaps[i], Emitted(pipe))
        BY <1>1, <3>0, <4>6 DEF Sound, Account
      <4>8. ASSUME NEW t \in Tracks, NEW n \in Nat
            PROVE  OnDisk(disk'[i], t, n) + OnTheWay(stream'[i], gaps'[i], t, n) = Once(Emitted(pipe'), t, n)
        <5>1. InSeq(gaps[i].batch, t, n) = InSeq(gaps'[i].batch, t, n) + Hit(e, t, n)
          BY <4>1, <4>2, InSeqTail
        <5>2. /\ OnDisk(disk[i], t, n) \in Nat /\ InSeq(stream[i].buf, t, n) \in Nat
              /\ InSet(gaps[i].pending, t, n) \in Nat
          BY <2>5, CountsNat
        <5>3. InSeq(gaps'[i].batch, t, n) \in Nat
          BY <2>5, <4>2, CountsNat
        <5>4. Hit(e, t, n) \in {0, 1}
          BY HitNat
        <5>5. OnDisk(disk[i], t, n) + OnTheWay(stream[i], gaps[i], t, n) = Once(Emitted(pipe), t, n)
          BY <4>7 DEF Account
        <5>6. OnDisk(disk'[i], t, n) = OnDisk(disk[i], t, n) + Hit(e, t, n)
          BY <4>5
        <5>7. stream' = stream /\ pipe' = pipe /\ gaps'[i].pending = gaps[i].pending
          BY <1>1, <4>1
        <5> HIDE DEF e
        <5> QED
          BY <5>1, <5>2, <5>3, <5>4, <5>5, <5>6, <5>7 DEF OnTheWay
      <4> QED
        BY <4>4, <4>7, <4>8 DEF Account
    <3> QED
      BY <3>1, <3>2
  <2> QED
    BY <1>1, <1>3, <1>6, <2>1, <2>2, <2>4, <2>6 DEF DataInv
<1> QED
  BY <1>5, <1>6

LEMMA InitData ==
  ASSUME Init PROVE (\A i \in Starts : DataInv(i)) /\ SpoolsTile
<1>1. ASSUME NEW i \in Starts PROVE calls[i] = "idle" /\ ~Current(i) /\ disk[i] = NoSpool
  BY DEF Init, Current
<1>2. \A i \in Starts : ~disk[i].sealed
  BY <1>1, FreshUnsealed
<1> QED
  BY <1>1, <1>2 DEF DataInv, SpoolsTile

(* Every step keeps the account of every recording. *)
LEMMA NextData ==
  ASSUME ControlInv, ControlInv', StartsDoNotOverlap, StartsDoNotOverlap', [Step]_vars,
         NEW i \in Starts, DataInv(i)
  PROVE  DataInv(i)'
<1>1. ASSUME NEW j \in Starts, StartStep(j) PROVE DataInv(i)'
  BY <1>1, QuietSteps, CreateData, SourceStartData DEF StartStep
<1>2. ASSUME NEW j \in Starts, CloseStep(j) PROVE DataInv(i)'
  BY <1>2, QuietSteps, FinishPipelineData, SealData DEF CloseStep
<1>3. ASSUME NEW j \in Starts, WriterStep(j) \/ GapStep(j) PROVE DataInv(i)'
  BY <1>3, QuietSteps, ConsumeData, GapsData DEF WriterStep, GapStep
<1>4. CASE RecordDropped \/ StreamStops \/ ProcessItem
  BY <1>4, YieldingData
<1>5. CASE Stop \/ EnvironmentLost
  BY <1>5, StopData
<1>6. CASE TakeBatch \/ UNCHANGED vars \/ \E t \in Tracks : Skip(t) \/ Deliver(t)
  BY <1>6, CaptureData
<1>7. CASE Crash
  BY <1>7, CrashData
<1> QED
  BY <1>1, <1>2, <1>3, <1>4, <1>5, <1>6, <1>7 DEF Step, MachineStep

(* When the spool is sealed every queue is empty: the account is all on disk. *)
LEMMA SealTiles ==
  ASSUME ControlInv, StartsDoNotOverlap, NEW i \in Starts, DataInv(i),
         closer[i].stage = "seal", ~pipe.lost
  PROVE  Tiled(SealedSpool(disk[i]))
<1> DEFINE d == SealedSpool(disk[i])
<1>1. Current(i) /\ LiveInv(i)
  <2>1. Working(i)
    BY DEF Working
  <2> QED
    BY <2>1, Stopping
<1>2. calls[i] \notin {"source", "undo"}
  <2>1. calls[i] # "undo"
    BY <1>1 DEF LiveInv
  <2>2. calls[i] # "source"
    BY DEF ControlInv, CallsInv, NoCloser
  <2> QED
    BY <2>1, <2>2
<1>3. /\ Sound(i) /\ ~gaps[i].failed /\ ~held.failed
      /\ \A t \in Tracks : pipe.pending[t] = {}
  BY <1>1, <1>2 DEF DataInv, SourceUp
<1>4. /\ ~disk[i].torn
      /\ \A t \in Tracks, n \in Nat :
           OnDisk(disk[i], t, n) + OnTheWay(stream[i], gaps[i], t, n) = Once(Emitted(pipe), t, n)
  BY <1>3 DEF Sound
<1>5. stream[i].buf = <<>> /\ gaps[i].batch = <<>> /\ gaps[i].pending = {}
  <2>1. writer[i] \in {"none", "done"} /\ Quiet(gaps[i])
    BY <1>1 DEF LiveInv, GapsUp, WriterUp, StreamUp, SourceUp
  <2> QED
    BY <1>3, <2>1 DEF ControlInv, TasksInv, GapsOK, Quiet
<1>6. disk[i] \in Spool /\ RecsOK(disk[i]) /\ PipeOK(pipe)
  BY Types, StorageRecs
<1>7. d.recs = disk[i].recs /\ d.journal = disk[i].journal /\ d.ends = pipe.ends
  BY <1>6, SealedSpoolIs
<1>8. d.torn = disk[i].torn
  BY <1>6, SealedSpoolIs
<1>9. ASSUME NEW t \in Tracks, NEW n \in 0 .. MaxBuffers
      PROVE  Cardinality(Covering(d, t, n)) + Cardinality(Missing(d, t, n))
               = IF n < d.ends[t] THEN 1 ELSE 0
  <2>1. n \in Nat
    BY CaptureAssumption
  <2>2. OnTheWay(stream[i], gaps[i], t, n) = 0
    BY <1>5, InSeqEmpty, InSetEmpty DEF OnTheWay
  <2>3. OnDisk(disk[i], t, n) \in Nat
    <3>1. stream[i] \in Stream /\ GapsOK(gaps[i])
      BY Types DEF ControlInv, TasksInv
    <3> QED
      BY <1>6, <3>1, CountsNat
  <2>4. OnDisk(disk[i], t, n) = Once(Emitted(pipe), t, n)
    BY <1>4, <2>1, <2>2, <2>3
  <2>5. Emitted(pipe)[t] = pipe.ends[t]
    BY <1>3 DEF Emitted, FrontOf
  <2>6. Covering(d, t, n) = {k \in 1 .. Len(disk[i].recs[t]) : Hits(disk[i].recs[t][k], t, n)}
    BY <1>6, <1>7 DEF Covering, Hits, RecsOK
  <2>7. Missing(d, t, n) = {k \in 1 .. Len(disk[i].journal) : Hits(disk[i].journal[k], t, n)}
    BY <1>7 DEF Missing, Hits
  <2> HIDE DEF d
  <2> QED
    BY <1>7, <2>4, <2>5, <2>6, <2>7 DEF OnDisk, InSeq, Once
<1> HIDE DEF d
<1>10. Tiled(d)
  BY <1>4, <1>8, <1>9 DEF Tiled
<1> QED
  BY <1>10 DEF d

LEMMA NextTiles ==
  ASSUME ControlInv, StartsDoNotOverlap, [Step]_vars, \A i \in Starts : DataInv(i),
         SpoolsTile
  PROVE  SpoolsTile'
<1> SUFFICES ASSUME NEW i \in Starts, disk'[i].sealed, ~disk'[i].lost PROVE Tiled(disk'[i])
  BY DEF SpoolsTile, Tiled, Covering, Missing
<1>1. DiskOK(i)
  BY NextDisk
<1>2. CASE disk[i].sealed
  BY <1>1, <1>2 DEF DiskOK, SpoolsTile
<1>3. CASE ~disk[i].sealed
  <2>1. closer[i].stage = "seal" /\ disk'[i] = SealedSpool(disk[i])
    BY <1>1, <1>3 DEF DiskOK
  <2>2. ~pipe.lost
    BY <2>1, Types, SealedSpoolIs
  <2> QED
    BY <2>1, <2>2, SealTiles
<1> QED
  BY <1>2, <1>3

LEMMA ClosedStep ==
  ASSUME CaptureInv, StartsDoNotOverlap, [Step]_vars
  PROVE  \A i \in Starts : closer[i].stage = "closed" => disk'[i] = disk[i]
<1> SUFFICES ASSUME NEW i \in Starts, closer[i].stage = "closed" PROVE disk'[i] = disk[i]
  OBVIOUS
<1>1. ControlInv /\ DataInv(i)
  BY DEF CaptureInv
<1>2. ~Current(i) /\ calls[i] # "create"
  BY <1>1, ClosedNotCurrent
<1> QED
  BY <1>1, <1>2, NextDisk DEF DiskOK

-----------------------------------------------------------------------------
(* A call that is under way past its pause shows in the phase, so that only a *)
(* call during another's pause is admitted beside it.                         *)
LEMMA ApartStep ==
  ASSUME ControlInv, StartsDoNotOverlap, [Step]_vars, ~Reenters
  PROVE  StartsDoNotOverlap'
<1>0. calls \in [Starts -> Calls] /\ CallsInv
  BY Types DEF ControlInv
<1>1. ASSUME NEW i \in Starts, Start(i) \/ StartPausing(i) PROVE StartsDoNotOverlap'
  <2>1. /\ calls[i] = "idle" /\ ~Active
        /\ calls' = [calls EXCEPT ![i] = "preflight"] \/ calls' = [calls EXCEPT ![i] = "pausing"]
    BY <1>1 DEF Start, StartPausing, Called, EnterPreflight
  <2>2. calls'[i] # "idle" /\ \A j \in Starts : j # i => calls'[j] = calls[j]
    BY <1>0, <2>1
  <2>3. \A j \in Starts : calls[j] # "pausing" /\ calls[j] \notin Starting
    BY <1>0, <2>1, <2>2 DEF Reenters, CallsInv, Active
  <2>4. \A j \in Starts : calls[j] \in {"idle", "done"}
    BY <1>0, <2>3 DEF Calls, Starting
  <2> QED
    BY <2>2, <2>4 DEF StartsDoNotOverlap
<1>2. CASE \A j \in Starts : calls'[j] \in {"idle", "done"} \/ calls[j] \notin {"idle", "done"}
  BY <1>2 DEF StartsDoNotOverlap
<1>3. ASSUME NEW i \in Starts, StartStep(i), ~Start(i), ~StartPausing(i)
      PROVE  \A j \in Starts : calls'[j] \in {"idle", "done"} \/ calls[j] \notin {"idle", "done"}
  <2>1. calls[i] \notin {"idle", "done"} /\ \E c \in Calls : calls' = [calls EXCEPT ![i] = c]
    BY <1>3 DEF StartStep, Paused, EnterPreflight, Blocked, Ready, CreateFails, LinkFails, Undo,
                Create, SourceStart, SourceFails, Begin, Calls
  <2> QED
    BY <1>0, <2>1
<1>4. ASSUME NEW i \in Starts, Discard(i)
      PROVE  \A j \in Starts : calls'[j] \in {"idle", "done"} \/ calls[j] \notin {"idle", "done"}
  BY <1>0, <1>4 DEF Discard
<1>5. CASE Crash
  <2>1. \A j \in Starts : calls'[j] \in {"idle", "done"}
    BY <1>5 DEF Crash
  <2> QED
    BY <2>1, <1>2
<1>6. CASE calls' = calls
  BY <1>6, <1>2
<1>7. ASSUME NEW i \in Starts, CloseStep(i), ~Discard(i) PROVE calls' = calls
  BY <1>7 DEF CloseStep, StopCapture, CloseHandoff, FinishPipeline, FinishStream,
              WriterAwaited, GapsAwaited, Seal, Abandon
<1>8. ASSUME NEW i \in Starts, WriterStep(i) \/ GapStep(i) PROVE calls' = calls
  BY <1>8 DEF WriterStep, ConsumeAudio, ConsumeFailure, WriterEnds, GapStep, TakeGaps,
              WriteGap, coordinator
<1>9. CASE \/ RecordDropped \/ TakeBatch \/ ProcessItem \/ Stop \/ EnvironmentLost
           \/ (\E t \in Tracks : Skip(t) \/ Deliver(t)) \/ StreamStops \/ UNCHANGED vars
  <2>1. calls' = calls
    BY <1>9 DEF RecordDropped, TakeBatch, ProcessItem, Stop, EnvironmentLost, Skip, Deliver,
                StreamStops, coordinator, vars
  <2> QED
    BY <2>1, <1>6
<1> QED
  BY <1>1, <1>2, <1>3, <1>4, <1>5, <1>6, <1>7, <1>8, <1>9 DEF Step, MachineStep

(* The history variable only grows, at a re-entry. *)
LEMMA NotReentered ==
  ASSUME [Next]_allVars, ~reentered'
  PROVE  ~reentered /\ ((Step /\ ~Reenters) \/ UNCHANGED vars)
<1>1. CASE Next
  BY <1>1 DEF Next
<1>2. CASE UNCHANGED allVars
  <2>1. vars' = vars /\ reentered' = reentered
    BY <1>2 DEF allVars
  <2> QED
    BY <2>1
<1> QED
  BY <1>1, <1>2

UntilReentered == ~reentered => CaptureInv /\ StartsDoNotOverlap

(* RecordingCoordinator, the capture queues and PendingGapWrites: until       *)
(* start() is re-entered during its pause, its calls do not overlap, the      *)
(* coordinator's references are those of the one current recording, every     *)
(* stage of close() leaves one more of its tasks finished, and what the       *)
(* pipeline emitted is accounted for position by position.                    *)
THEOREM CaptureInvariant == Spec => []UntilReentered
<1>1. Init => UntilReentered
  <2> SUFFICES ASSUME Init PROVE CaptureInv /\ StartsDoNotOverlap
    BY DEF UntilReentered
  <2>1. CaptureInv
    BY InitControl, InitData DEF CaptureInv
  <2>2. StartsDoNotOverlap
    BY DEF Init, StartsDoNotOverlap
  <2> QED
    BY <2>1, <2>2
<1>2. UntilReentered /\ [Next]_allVars => UntilReentered'
  <2> SUFFICES ASSUME UntilReentered, [Next]_allVars, ~reentered'
               PROVE  CaptureInv' /\ StartsDoNotOverlap'
    BY DEF UntilReentered
  <2>0. [Step]_vars /\ ~reentered /\ ((Step /\ ~Reenters) \/ UNCHANGED vars)
    BY NotReentered
  <2>1. CaptureInv /\ ControlInv /\ StartsDoNotOverlap
    BY <2>0 DEF UntilReentered, CaptureInv
  <2>2. StartsDoNotOverlap'
    <3>1. CASE Step /\ ~Reenters
      BY <2>0, <2>1, <3>1, ApartStep
    <3>2. CASE UNCHANGED vars
      BY <2>1, <3>2 DEF StartsDoNotOverlap, vars
    <3> QED
      BY <2>0, <3>1, <3>2
  <2>3. ControlInv'
    BY <2>0, <2>1, <2>2, NextControl
  <2>4. \A i \in Starts : DataInv(i)'
    BY <2>0, <2>1, <2>2, <2>3, NextData DEF CaptureInv
  <2>5. SpoolsTile'
    BY <2>0, <2>1, NextTiles DEF CaptureInv
  <2> QED
    BY <2>2, <2>3, <2>4, <2>5 DEF CaptureInv
<1> QED
  BY <1>1, <1>2, PTL DEF Spec

(* start(): the guard on the phase keeps two calls from ever being under way  *)
(* together, unless one came in while another awaited the uploads.            *)
THEOREM StartsOverlapByReentryOnly == Spec => []OverlapNeedsReentry
<1>1. UntilReentered => OverlapNeedsReentry
  BY DEF UntilReentered, OverlapNeedsReentry
<1> QED
  BY <1>1, CaptureInvariant, PTL

(* close(), the spool writer and PendingGapWrites: a sealed spool holds every *)
(* position of the timeline exactly once, as audio or as a journalled gap,    *)
(* whatever overflowed and however the recording was stopped, unless the      *)
(* pipeline threw away events it had collected or start() was re-entered.     *)
THEOREM SealedSpoolsTile == Spec => []TilesUnlessThrown
<1>1. UntilReentered => TilesUnlessThrown
  BY DEF UntilReentered, CaptureInv, SpoolsTile, TilesUnlessThrown
<1> QED
  BY <1>1, CaptureInvariant, PTL

(* close() awaits every task that writes before the phase leaves "stopping":  *)
(* after that no step, a crash included, changes the spool, unless start()    *)
(* was re-entered.                                                            *)
THEOREM ClosedSpoolsAreQuiet == Spec => ClosedIsQuiet
<1>1. UntilReentered /\ [Next]_allVars =>
        [~reentered' => \A i \in Starts : closer[i].stage = "closed" => disk'[i] = disk[i]]_vars
  <2> SUFFICES ASSUME UntilReentered, [Next]_allVars, ~reentered'
               PROVE  \A i \in Starts : closer[i].stage = "closed" => disk'[i] = disk[i]
    OBVIOUS
  <2>1. [Step]_vars /\ ~reentered
    BY NotReentered
  <2> QED
    BY <2>1, ClosedStep DEF UntilReentered
<1> QED
  BY <1>1, CaptureInvariant, PTL DEF Spec, ClosedIsQuiet
=============================================================================
