------------------------- MODULE DeliverablesProofs -------------------------
(***************************************************************************)
(* What Deliverables promises for any records, answers, periods, texts,    *)
(* workers, attempts and faults.  Two arguments: a transcript only moves   *)
(* on to later revisions, even when an earlier text comes back, so what a  *)
(* worker reads is at least as recent as what its job was asked for, and   *)
(* the row lock lets one worker at a time answer for it; and every mail    *)
(* spends the claim of an attempt.                                         *)
(***************************************************************************)
EXTENDS Deliverables, FiniteSetTheorems, TLAPS

JobStates == {"none", "queued", "running", "expired", "succeeded", "failed"}
Stages    == {"idle", "claimed", "mail", "composed", "severed", "stored"}

DocTypeOK ==
  /\ now \in 0 .. MaxPeriod
  /\ text \in [Docs -> Seq(Nat)]
  /\ row \in [Docs -> Nat]
  /\ mails \in [Docs -> Nat]
  /\ jobs \in [Keys -> [state : JobStates, attempts : Nat, asked : Nat]]
  /\ asks \in SUBSET (Keys \X Nat)
  /\ work \in [Workers -> [key : Keys \cup {<<>>}, stage : Stages, v : Nat]]
  /\ \A w \in Workers : work[w].stage # "idle" => work[w].key \in Keys
  /\ \A d \in Docs : Rev(d) # 0 => <<d, Current(d)>> \in Keys

\* Requests and jobs are about revisions that exist, workers have a job, and no
\* document is ahead of its transcript.
AskedIsKnown ==
  /\ \A d \in Reports : Rev(d) = 1
  /\ \A d \in Docs : row[d] <= Rev(d)
  /\ \A a \in asks : a[2] <= Rev(a[1][1])
  /\ \A k \in Keys : jobs[k].asked <= Rev(k[1])
  /\ \A w \in Workers : work[w].stage # "idle" => jobs[work[w].key].state # "none"

\* What a worker has in hand: a document as recent as was asked for and as what is
\* stored, then the stored one.
Holding(h) ==
  /\ h.stage = "mail" => h.key[1] \in Reports
  /\ h.stage \in {"mail", "composed"} => /\ jobs[h.key].asked <= h.v /\ h.v <= Rev(h.key[1])
                                         /\ h.key[1] \in Reports => h.v = 1
  /\ h.stage = "composed" => row[h.key[1]] <= h.v
  /\ h.stage = "stored" => jobs[h.key].asked <= row[h.key[1]]

InHand == \A w \in Workers : Holding(work[w])

\* The row lock of a record or an answer.
OneComposes ==
  \A w, u \in Workers :
    /\ work[w].stage = "composed" /\ work[u].stage = "composed"
    /\ work[w].key[1] = work[u].key[1] /\ work[w].key[1] \notin Reports
    => w = u

DocInv == DocTypeOK /\ AskedIsKnown /\ InHand /\ OneComposes /\ SucceededIsStored

(* A key is a document and a digest of its transcript; a report has one text. *)
LEMMA KeyShape ==
  \A k \in Keys : /\ k[1] \in Docs /\ k[2] \in Nat \ {0}
                  /\ k[1] \in Reports => k[2] = 1
BY DeliverablesAssumption DEF Keys, Docs, Reports

(* A report's key. *)
LEMMA ReportKey == \A d \in Reports : d \in Docs /\ <<d, 1>> \in Keys
BY DEF Keys, Docs, Reports

(* Revisions are numbers. *)
LEMMA RevType == ASSUME DocTypeOK PROVE \A d \in Docs : Rev(d) \in Nat
BY DEF DocTypeOK, Rev

(* They move only when a transcript is written. *)
LEMMA RevKept == ASSUME text' = text PROVE \A d : Rev(d)' = Rev(d) /\ Current(d)' = Current(d)
BY DEF Rev, Current

(* Nothing has been asked for at the start. *)
LEMMA DocInitial == Init => DocInv
<1> SUFFICES ASSUME Init PROVE DocInv
  OBVIOUS
<1> USE DeliverablesAssumption
<1>1. \A d \in Docs : /\ d \in Reports => text[d] = <<1>>
                      /\ d \notin Reports => text[d] = <<>>
  BY DEF Init, Docs, Reports
<1>2. \A d \in Docs : Rev(d) \in {0, 1} /\ (d \in Reports <=> Rev(d) = 1)
  <2>1. Len(<<>>) = 0 /\ Len(<<1>>) = 1
    OBVIOUS
  <2>2. ASSUME NEW d \in Docs PROVE Rev(d) \in {0, 1} /\ (d \in Reports <=> Rev(d) = 1)
    <3>1. CASE d \in Reports
      BY <1>1, <2>1, <3>1 DEF Rev
    <3>2. CASE d \notin Reports
      BY <1>1, <2>1, <3>2 DEF Rev
    <3> QED
      BY <3>1, <3>2
  <2> QED
    BY <2>2
<1>3. DocTypeOK
  <2>1. text \in [Docs -> Seq(Nat)]
    BY DEF Init
  <2>2. jobs \in [Keys -> [state : JobStates, attempts : Nat, asked : Nat]]
    BY DEF Init, NoJob, JobStates
  <2>3. work \in [Workers -> [key : Keys \cup {<<>>}, stage : Stages, v : Nat]]
    BY DEF Init, Idle, Stages
  <2>4. \A w \in Workers : work[w].stage = "idle"
    BY DEF Init, Idle
  <2>5. \A d \in Docs : Rev(d) # 0 => <<d, Current(d)>> \in Keys
    BY <1>1, <1>2, ReportKey DEF Current
  <2> QED
    BY <2>1, <2>2, <2>3, <2>4, <2>5 DEF Init, DocTypeOK
<1>4. \A w \in Workers : work[w].stage = "idle"
  BY DEF Init, Idle
<1>5. \A k \in Keys : jobs[k].state = "none" /\ jobs[k].asked = 0
  BY DEF Init, NoJob
<1>6. AskedIsKnown
  <2>1. \A d \in Reports : Rev(d) = 1
    BY <1>2, ReportKey
  <2>2. \A d \in Docs : row[d] = 0 /\ Rev(d) \in Nat
    BY <1>2 DEF Init
  <2>3. \A k \in Keys : jobs[k].asked <= Rev(k[1])
    BY <1>5, <2>2, KeyShape
  <2> QED
    BY <1>4, <2>1, <2>2, <2>3 DEF Init, AskedIsKnown
<1> QED
  BY <1>3, <1>4, <1>5, <1>6 DEF DocInv, InHand, Holding, OneComposes, SucceededIsStored

(* Requests only ask about revisions that exist. *)
LEMMA AskStep ==
  ASSUME DocInv, NEW d \in Docs, NEW t, NEW r \in Nat, Ask(d, t, r),
         <<d, t>> \in Keys, r <= Rev(d)
  PROVE  DocInv'
<1>0. \A x : Rev(x)' = Rev(x) /\ Current(x)' = Current(x)
  BY RevKept DEF Ask
<1>1. DocTypeOK'
  <2>1. asks' \in SUBSET (Keys \X Nat)
    <3>1. <<<<d, t>>, r>> \in Keys \X Nat
      OBVIOUS
    <3>2. asks \subseteq Keys \X Nat /\ asks' = asks \cup {<<<<d, t>>, r>>}
      BY DEF DocInv, DocTypeOK, Ask
    <3> QED
      BY <3>1, <3>2
  <2> QED
    BY <1>0, <2>1 DEF DocInv, DocTypeOK, Ask
<1>2. AskedIsKnown'
  BY <1>0 DEF DocInv, AskedIsKnown, Ask
<1>3. InHand'
  BY <1>0 DEF DocInv, InHand, Holding, Ask
<1> QED
  BY <1>1, <1>2, <1>3 DEF DocInv, OneComposes, SucceededIsStored, Ask

(* request, submit and schedule_due ask about a transcript that exists. *)
LEMMA RequestStep ==
  ASSUME DocInv, NEW d \in Docs,
         RequestAnalysis(d) \/ SubmitAnswer(d) \/ RequestReport(d) \/ ScheduleDue
  PROVE  DocInv'
<1>0. Rev(d) \in Nat /\ Rev(d) <= Rev(d) /\ (Rev(d) # 0 => <<d, Current(d)>> \in Keys)
  BY RevType DEF DocInv, DocTypeOK
<1>1. CASE RequestAnalysis(d)
  BY <1>0, <1>1, AskStep DEF RequestAnalysis
<1>2. CASE SubmitAnswer(d)
  BY <1>0, <1>2, AskStep DEF SubmitAnswer
<1>3. CASE RequestReport(d)
  <2>1. Ask(d, 1, 1) /\ <<d, 1>> \in Keys /\ 1 <= Rev(d)
    BY <1>3, ReportKey DEF RequestReport, DocInv, AskedIsKnown
  <2> QED
    BY <2>1, AskStep
<1>4. CASE ScheduleDue
  <2>1. now \in Reports /\ Ask(now, 1, 1)
    BY <1>4, DeliverablesAssumption DEF ScheduleDue, DocInv, DocTypeOK, Reports
  <2>2. now \in Docs /\ <<now, 1>> \in Keys /\ 1 <= Rev(now)
    BY <2>1, ReportKey DEF DocInv, AskedIsKnown
  <2> QED
    BY <2>1, <2>2, AskStep
<1> QED
  BY <1>1, <1>2, <1>3, <1>4

(* The gate and the calendar touch no document. *)
LEMMA QuietStep ==
  ASSUME DocInv, PeriodEnds \/ GateMoves PROVE DocInv'
<1>0. UNCHANGED <<text, row, mails, jobs, asks, work>> /\ now' \in 0 .. MaxPeriod
  BY DeliverablesAssumption DEF PeriodEnds, GateMoves, DocInv, DocTypeOK
<1>1. \A x : Rev(x)' = Rev(x) /\ Current(x)' = Current(x)
  BY <1>0, RevKept
<1>2. DocTypeOK'
  BY <1>0, <1>1 DEF DocInv, DocTypeOK
<1>3. AskedIsKnown'
  BY <1>0, <1>1 DEF DocInv, AskedIsKnown
<1>4. InHand'
  BY <1>0, <1>1 DEF DocInv, InHand, Holding
<1> QED
  BY <1>0, <1>2, <1>3, <1>4 DEF DocInv, OneComposes, SucceededIsStored

(* A transcript only moves on, so no revision that was known is forgotten. *)
LEMMA WorldStep ==
  ASSUME DocInv, NEW d \in Docs, NEW t \in 1 .. MaxTexts, Transcribe(d, t)
  PROVE  DocInv'
<1>1. /\ text' = [text EXCEPT ![d] = Append(text[d], t)] /\ <<d, t>> \in Keys
      /\ UNCHANGED <<now, row, mails, jobs, asks, work>>
  BY DEF Transcribe
<1>2. d \notin Reports
  BY DeliverablesAssumption DEF Transcribe, Reports
<1>3. text \in [Docs -> Seq(Nat)] /\ t \in Nat /\ text[d] \in Seq(Nat)
  BY DEF DocInv, DocTypeOK
<1>4. Append(text[d], t) \in Seq(Nat) /\ Len(Append(text[d], t)) = Len(text[d]) + 1
      /\ Append(text[d], t)[Len(text[d]) + 1] = t
  BY <1>3
<1>5. text' \in [Docs -> Seq(Nat)] /\ text'[d] = Append(text[d], t)
      /\ \A x \in Docs \ {d} : text'[x] = text[x]
  BY <1>1, <1>3, <1>4
<1>6. /\ Rev(d)' = Rev(d) + 1 /\ Current(d)' = t
      /\ \A x \in Docs \ {d} : Rev(x)' = Rev(x) /\ Current(x)' = Current(x)
  BY <1>4, <1>5 DEF Rev, Current
<1>7. \A x \in Docs : Rev(x) \in Nat /\ Rev(x)' \in Nat /\ Rev(x) <= Rev(x)'
  BY <1>6, RevType DEF DocInv
<1>8. DocTypeOK'
  <2>1. \A x \in Docs : Rev(x)' # 0 => <<x, Current(x)'>> \in Keys
    BY <1>1, <1>6 DEF DocInv, DocTypeOK
  <2> QED
    BY <1>1, <1>5, <2>1 DEF DocInv, DocTypeOK
<1>9. AskedIsKnown'
  <2>1. \A x \in Reports : Rev(x)' = 1
    BY <1>2, <1>6, ReportKey DEF DocInv, AskedIsKnown
  <2>2. \A x \in Docs : row[x] <= Rev(x)'
    BY <1>7 DEF DocInv, DocTypeOK, AskedIsKnown
  <2>3. \A a \in asks : a[2] <= Rev(a[1][1])'
    <3> SUFFICES ASSUME NEW a \in asks PROVE a[2] <= Rev(a[1][1])'
      OBVIOUS
    <3>1. a[1] \in Keys /\ a[2] \in Nat /\ a[2] <= Rev(a[1][1])
      BY DEF DocInv, DocTypeOK, AskedIsKnown
    <3>2. a[1][1] \in Docs
      BY <3>1, KeyShape
    <3> QED
      BY <1>7, <3>1, <3>2
  <2>4. \A k \in Keys : jobs[k].asked <= Rev(k[1])'
    <3> SUFFICES ASSUME NEW k \in Keys PROVE jobs[k].asked <= Rev(k[1])'
      OBVIOUS
    <3>1. jobs[k].asked \in Nat /\ jobs[k].asked <= Rev(k[1]) /\ k[1] \in Docs
      BY KeyShape DEF DocInv, DocTypeOK, AskedIsKnown
    <3> QED
      BY <1>7, <3>1
  <2> QED
    BY <1>1, <2>1, <2>2, <2>3, <2>4 DEF DocInv, AskedIsKnown
<1>10. InHand'
  <2> SUFFICES ASSUME NEW w \in Workers, work[w].stage \in {"mail", "composed"}
               PROVE  work[w].v <= Rev(work[w].key[1])'
    BY <1>1 DEF DocInv, InHand, Holding
  <2>1. work[w].key[1] \in Docs /\ work[w].v \in Nat
    BY KeyShape DEF DocInv, DocTypeOK
  <2>2. work[w].v <= Rev(work[w].key[1])
    BY DEF DocInv, InHand, Holding
  <2> QED
    BY <1>1, <1>7, <2>1, <2>2
<1> QED
  BY <1>1, <1>8, <1>9, <1>10 DEF DocInv, OneComposes, SucceededIsStored

(* Steps that only change the queue: a job that exists keeps what it was asked for. *)
LEMMA QueueStep ==
  ASSUME DocInv, UNCHANGED <<now, text, row, mails, work>>, asks' \in SUBSET asks,
         NEW k \in Keys, jobs' \in [Keys -> [state : JobStates, attempts : Nat, asked : Nat]],
         \A x \in Keys \ {k} : jobs'[x] = jobs[x],
         jobs'[k] = jobs[k] \/ jobs'[k].state # "succeeded",
         jobs[k].state # "none" => jobs'[k].state # "none" /\ jobs'[k].asked = jobs[k].asked,
         jobs'[k].asked <= Rev(k[1])
  PROVE  DocInv'
<1>0. \A x : Rev(x)' = Rev(x) /\ Current(x)' = Current(x)
  BY RevKept
<1>1. DocTypeOK'
  BY <1>0 DEF DocInv, DocTypeOK
<1>2. \A w \in Workers : work[w].stage # "idle" =>
        /\ work[w].key \in Keys /\ jobs'[work[w].key].state # "none"
        /\ jobs'[work[w].key].asked = jobs[work[w].key].asked
  BY DEF DocInv, DocTypeOK, AskedIsKnown
<1>3. AskedIsKnown'
  BY <1>0, <1>2 DEF DocInv, AskedIsKnown
<1>4. InHand' /\ OneComposes'
  BY <1>0, <1>2 DEF DocInv, InHand, Holding, OneComposes
<1>5. SucceededIsStored'
  BY DEF DocInv, SucceededIsStored
<1> QED
  BY <1>1, <1>3, <1>4, <1>5 DEF DocInv

(* Enqueue, Expire and Reclaim change one job; an enqueued one was asked for. *)
LEMMA MachineryStep ==
  ASSUME DocInv, \/ \E a \in asks : Enqueue(a)
                 \/ \E k \in Keys : Expire(k) \/ Reclaim(k)
  PROVE  DocInv'
<1>0. jobs \in [Keys -> [state : JobStates, attempts : Nat, asked : Nat]]
  BY DEF DocInv, DocTypeOK
<1>1. ASSUME NEW a \in asks, Enqueue(a) PROVE DocInv'
  <2>1. a[1] \in Keys /\ a[2] \in Nat /\ a[2] <= Rev(a[1][1]) /\ jobs[a[1]].asked <= Rev(a[1][1])
    BY DEF DocInv, DocTypeOK, AskedIsKnown
  <2>2. CASE jobs[a[1]].state = "none"
    <3>1. jobs' = [jobs EXCEPT ![a[1]].state = "queued", ![a[1]].asked = a[2]]
      BY <1>1, <2>2 DEF Enqueue
    <3>2. /\ jobs' \in [Keys -> [state : JobStates, attempts : Nat, asked : Nat]]
          /\ \A x \in Keys \ {a[1]} : jobs'[x] = jobs[x]
          /\ jobs'[a[1]].state = "queued" /\ jobs'[a[1]].asked = a[2]
      BY <1>0, <2>1, <3>1 DEF JobStates
    <3> QED
      BY <1>1, <2>1, <2>2, <3>2, QueueStep DEF Enqueue
  <2>3. CASE jobs[a[1]].state # "none"
    <3>1. jobs' = jobs
      BY <1>1, <2>3 DEF Enqueue
    <3> QED
      BY <1>0, <1>1, <2>1, <3>1, QueueStep DEF Enqueue
  <2> QED
    BY <2>2, <2>3
<1>2. ASSUME NEW k \in Keys, Expire(k) PROVE DocInv'
  <2>1. jobs[k].asked <= Rev(k[1])
    BY DEF DocInv, AskedIsKnown
  <2>2. /\ jobs' \in [Keys -> [state : JobStates, attempts : Nat, asked : Nat]]
        /\ \A x \in Keys \ {k} : jobs'[x] = jobs[x]
        /\ jobs'[k].state = "expired" /\ jobs'[k].asked = jobs[k].asked
    BY <1>0, <1>2 DEF Expire, JobStates
  <2> QED
    BY <1>2, <2>1, <2>2, QueueStep DEF Expire
<1>3. ASSUME NEW k \in Keys, Reclaim(k) PROVE DocInv'
  <2>1. jobs[k].asked <= Rev(k[1])
    BY DEF DocInv, AskedIsKnown
  <2>2. /\ jobs' \in [Keys -> [state : JobStates, attempts : Nat, asked : Nat]]
        /\ \A x \in Keys \ {k} : jobs'[x] = jobs[x]
        /\ jobs'[k].state \in {"queued", "failed"} /\ jobs'[k].asked = jobs[k].asked
    BY <1>0, <1>3 DEF Reclaim, Given, JobStates
  <2> QED
    BY <1>3, <2>1, <2>2, QueueStep DEF Reclaim
<1> QED
  BY <1>1, <1>2, <1>3

\* What a worker's step may make of w: it stays on its key or becomes idle.
Moves(w) ==
  /\ UNCHANGED <<now, text, mails, asks>>
  /\ work' \in [Workers -> [key : Keys \cup {<<>>}, stage : Stages, v : Nat]]
  /\ \A u \in Workers \ {w} : work'[u] = work[u]
  /\ jobs' \in [Keys -> [state : JobStates, attempts : Nat, asked : Nat]]
  /\ \A k \in Keys : /\ jobs'[k].asked = jobs[k].asked
                     /\ jobs[k].state # "none" => jobs'[k].state # "none"

\* The requirements on the worker that moved.
Sound(w) ==
  /\ work[w].stage # "idle" => work[w].key \in Keys /\ jobs[work[w].key].state # "none"
  /\ Holding(work[w])
  /\ work[w].stage = "composed" =>
       \A u \in Workers : /\ work[u].stage = "composed" /\ work[u].key[1] = work[w].key[1]
                          /\ work[w].key[1] \notin Reports
                          => u = w

(* A worker's step that stores nothing has only itself, and its job, to answer for. *)
LEMMA MoveStep ==
  ASSUME DocInv, NEW w \in Workers, Moves(w), row' = row, Sound(w)', SucceededIsStored'
  PROVE  DocInv'
<1>0. \A x : Rev(x)' = Rev(x) /\ Current(x)' = Current(x)
  BY RevKept DEF Moves
<1>1. DocTypeOK'
  BY <1>0 DEF DocInv, DocTypeOK, Moves, Sound
<1>2. \A u \in Workers \ {w} : /\ work'[u] = work[u]
                               /\ work[u].stage # "idle" => work[u].key \in Keys
                               /\ work[u].stage # "idle" => jobs[work[u].key].state # "none"
  BY DEF DocInv, DocTypeOK, AskedIsKnown, Moves
<1>3. AskedIsKnown'
  <2>1. \A k \in Keys : jobs'[k].asked <= Rev(k[1])
    BY DEF DocInv, AskedIsKnown, Moves
  <2>2. \A u \in Workers : work'[u].stage # "idle" => jobs'[work'[u].key].state # "none"
    BY <1>2 DEF Moves, Sound
  <2> QED
    BY <1>0, <2>1, <2>2 DEF DocInv, AskedIsKnown, Moves
<1>4. InHand'
  <2> SUFFICES ASSUME NEW u \in Workers PROVE Holding(work[u])'
    BY DEF InHand
  <2>1. CASE u = w
    BY <2>1 DEF Sound
  <2>2. CASE u # w
    <3>1. work[u].stage # "idle" => jobs'[work[u].key].asked = jobs[work[u].key].asked
      BY <1>2, <2>2 DEF Moves
    <3>2. Holding(work[u]) /\ work'[u] = work[u]
      BY <1>2, <2>2 DEF DocInv, InHand
    <3> QED
      BY <1>0, <3>1, <3>2 DEF Holding
  <2> QED
    BY <2>1, <2>2
<1>5. OneComposes'
  <2> SUFFICES ASSUME NEW x \in Workers, NEW u \in Workers,
                      work'[x].stage = "composed", work'[u].stage = "composed",
                      work'[x].key[1] = work'[u].key[1], work'[x].key[1] \notin Reports
               PROVE  x = u
    BY DEF OneComposes
  <2>1. CASE x = w \/ u = w
    BY <2>1 DEF Sound
  <2>2. CASE x # w /\ u # w
    BY <2>2 DEF DocInv, OneComposes, Moves
  <2> QED
    BY <2>1, <2>2
<1> QED
  BY <1>1, <1>3, <1>4, <1>5 DEF DocInv

(* Claim: the job exists, so its transcript does. *)
LEMMA ClaimStep ==
  ASSUME DocInv, NEW w \in Workers, NEW k \in Keys, Claim(w, k) PROVE DocInv'
<1>0. /\ jobs \in [Keys -> [state : JobStates, attempts : Nat, asked : Nat]]
      /\ work \in [Workers -> [key : Keys \cup {<<>>}, stage : Stages, v : Nat]]
  BY DEF DocInv, DocTypeOK
<1>1. work' = [work EXCEPT ![w] = [key |-> k, stage |-> "claimed", v |-> 0]]
  BY DEF Claim
<1>2. /\ jobs' \in [Keys -> [state : JobStates, attempts : Nat, asked : Nat]]
      /\ \A x \in Keys \ {k} : jobs'[x] = jobs[x]
      /\ jobs'[k].state = "running" /\ jobs'[k].asked = jobs[k].asked
  BY <1>0 DEF Claim, JobStates
<1>3. Moves(w)
  <2>1. work' \in [Workers -> [key : Keys \cup {<<>>}, stage : Stages, v : Nat]]
    BY <1>0, <1>1 DEF Stages
  <2> QED
    BY <1>0, <1>1, <1>2, <2>1 DEF Moves, Claim
<1>4. work'[w].stage = "claimed" /\ work'[w].key = k
  BY <1>0, <1>1
<1>5. Sound(w)'
  BY <1>2, <1>4 DEF Sound, Holding
<1>6. SucceededIsStored'
  BY <1>2 DEF Claim, DocInv, SucceededIsStored
<1> QED
  BY <1>3, <1>5, <1>6, MoveStep DEF Claim

(* process up to the agent's answer: the lock admits one worker, and what it reads is *)
(* at least as recent as the document and as what the job was asked for.              *)
LEMMA OpenStep ==
  ASSUME DocInv, NEW w \in Workers, Open(w) PROVE DocInv'
<1> DEFINE k == work[w].key
           to == IF k[1] \in Reports THEN "mail" ELSE "composed"
<1>0. /\ jobs \in [Keys -> [state : JobStates, attempts : Nat, asked : Nat]]
      /\ work \in [Workers -> [key : Keys \cup {<<>>}, stage : Stages, v : Nat]]
      /\ row \in [Docs -> Nat]
  BY DEF DocInv, DocTypeOK
<1>1. k \in Keys /\ jobs[k].state # "none" /\ jobs[k].asked <= Rev(k[1])
  BY DEF Open, DocInv, DocTypeOK, AskedIsKnown
<1>2. k[1] \in Docs /\ Rev(k[1]) \in Nat /\ row[k[1]] <= Rev(k[1])
      /\ (k[1] \in Reports => Rev(k[1]) = 1)
  BY <1>1, KeyShape, RevType DEF DocInv, AskedIsKnown
<1>3. /\ work'[w].key = k /\ work'[w].stage = to /\ work'[w].v = Rev(k[1])
      /\ \A u \in Workers \ {w} : work'[u] = work[u]
      /\ work' \in [Workers -> [key : Keys \cup {<<>>}, stage : Stages, v : Nat]]
  BY <1>0, <1>2, ZenonT(40) DEF Open, Stages
<1>4. UNCHANGED <<text, row, jobs>> /\ \A x : Rev(x)' = Rev(x)
  BY RevKept DEF Open
<1>5. Moves(w)
  BY <1>0, <1>3, <1>4 DEF Moves, Open
<1>6. ASSUME to = "composed", NEW u \in Workers, work'[u].stage = "composed",
             work'[u].key[1] = k[1]
      PROVE  u = w
  <2>1. k[1] \notin Reports
    BY <1>6
  <2>2. ~Locked(k[1])
    BY DEF Open
  <2> QED
    BY <1>3, <1>6, <2>1, <2>2 DEF Locked
<1>7. Sound(w)'
  <2>1. to = "mail" => k[1] \in Reports
    OBVIOUS
  <2>2. Rev(k[1]) <= Rev(k[1])
    BY <1>2
  <2>3. Holding(work[w])'
    BY <1>1, <1>2, <1>3, <1>4, <2>1, <2>2 DEF Holding
  <2> QED
    BY <1>1, <1>3, <1>4, <1>6, <2>3 DEF Sound
<1>8. SucceededIsStored'
  BY <1>4 DEF DocInv, SucceededIsStored
<1> QED
  BY <1>4, <1>5, <1>7, <1>8, MoveStep

(* The database ends an idle transaction: the lock is gone, and so is the document. *)
LEMMA SeverStep ==
  ASSUME DocInv, NEW w \in Workers, Sever(w) PROVE DocInv'
<1>0. /\ jobs \in [Keys -> [state : JobStates, attempts : Nat, asked : Nat]]
      /\ work \in [Workers -> [key : Keys \cup {<<>>}, stage : Stages, v : Nat]]
  BY DEF DocInv, DocTypeOK
<1>1. work[w].key \in Keys /\ jobs[work[w].key].state # "none"
  BY DEF Sever, DocInv, DocTypeOK, AskedIsKnown
<1>2. /\ work'[w].key = work[w].key /\ work'[w].stage = "severed"
      /\ \A u \in Workers \ {w} : work'[u] = work[u]
      /\ work' \in [Workers -> [key : Keys \cup {<<>>}, stage : Stages, v : Nat]]
  BY <1>0, ZenonT(40) DEF Sever, Stages
<1>3. Moves(w)
  BY <1>0, <1>2 DEF Moves, Sever
<1>4. Sound(w)'
  BY <1>1, <1>2 DEF Sound, Holding, Sever
<1> QED
  BY <1>3, <1>4, MoveStep DEF Sever, DocInv, SucceededIsStored

(* A worker that lets go: whatever becomes of the job it held, it owes nothing more. *)
LEMMA LeaveStep ==
  ASSUME DocInv, NEW w \in Workers, work[w].stage # "idle",
         UNCHANGED <<now, text, row, mails, asks>>,
         work' = [work EXCEPT ![w] = Idle],
         jobs' \in [Keys -> [state : JobStates, attempts : Nat, asked : Nat]],
         \A x \in Keys : \/ jobs'[x] = jobs[x]
                         \/ /\ x = work[w].key /\ jobs[x].state = "running"
                            /\ jobs'[x].state # "none" /\ jobs'[x].asked = jobs[x].asked
                            /\ jobs'[x].state = "succeeded" => work[w].stage = "stored"
  PROVE  DocInv'
<1>0. work \in [Workers -> [key : Keys \cup {<<>>}, stage : Stages, v : Nat]]
  BY DEF DocInv, DocTypeOK
<1>1. Moves(w)
  <2>1. Idle \in [key : Keys \cup {<<>>}, stage : Stages, v : Nat]
    BY DEF Idle, Stages
  <2> QED
    BY <1>0, <2>1 DEF Moves
<1>2. Sound(w)'
  <2>1. work'[w].stage = "idle"
    BY <1>0 DEF Idle
  <2> QED
    BY <2>1 DEF Sound, Holding
<1>3. SucceededIsStored'
  <2> SUFFICES ASSUME NEW x \in Keys, jobs'[x].state = "succeeded"
               PROVE  row[x[1]] >= jobs'[x].asked
    BY DEF SucceededIsStored
  <2>1. CASE jobs'[x] = jobs[x]
    BY <2>1 DEF DocInv, SucceededIsStored
  <2>2. CASE x = work[w].key /\ work[w].stage = "stored" /\ jobs'[x].asked = jobs[x].asked
    <3>1. jobs[x].asked <= row[x[1]]
      BY <2>2 DEF DocInv, InHand, Holding
    <3>2. row[x[1]] \in Nat /\ jobs[x].asked \in Nat
      BY KeyShape DEF DocInv, DocTypeOK
    <3> QED
      BY <2>2, <3>1, <3>2
  <2> QED
    BY <2>1, <2>2
<1> QED
  BY <1>1, <1>2, <1>3, MoveStep

(* Complete, Fail, StoreRaises and Crash let go. *)
LEMMA EndStep ==
  ASSUME DocInv, NEW w \in Workers, Complete(w) \/ Fail(w) \/ StoreRaises(w) \/ Crash(w)
  PROVE  DocInv'
<1>0. jobs \in [Keys -> [state : JobStates, attempts : Nat, asked : Nat]]
  BY DEF DocInv, DocTypeOK
<1>1. work[w].stage # "idle" /\ UNCHANGED <<now, text, row, mails, asks>>
      /\ work' = [work EXCEPT ![w] = Idle]
  BY DEF Complete, Fail, StoreRaises, Raise, Crash
<1>2. work[w].key \in Keys
  BY <1>1 DEF DocInv, DocTypeOK
<1>3. CASE Complete(w)
  <2>1. /\ jobs' \in [Keys -> [state : JobStates, attempts : Nat, asked : Nat]]
        /\ \A x \in Keys : \/ jobs'[x] = jobs[x]
                           \/ /\ x = work[w].key /\ jobs[x].state = "running"
                              /\ jobs'[x].state # "none" /\ jobs'[x].asked = jobs[x].asked
    BY <1>0, <1>2, <1>3 DEF Complete, Holds, JobStates
  <2>2. work[w].stage = "stored"
    BY <1>3 DEF Complete
  <2> QED
    BY <1>1, <2>1, <2>2, LeaveStep
<1>4. CASE Fail(w) \/ StoreRaises(w)
  <2>0. Raise(w)
    BY <1>4 DEF Fail, StoreRaises
  <2>1. /\ jobs' \in [Keys -> [state : JobStates, attempts : Nat, asked : Nat]]
        /\ \A x \in Keys : \/ jobs'[x] = jobs[x]
                           \/ /\ x = work[w].key /\ jobs[x].state = "running"
                              /\ jobs'[x].state \in {"queued", "failed"}
                              /\ jobs'[x].asked = jobs[x].asked
    BY <1>0, <1>2, <2>0, SMTT(30) DEF Raise, Holds, Given, JobStates
  <2> QED
    BY <1>1, <2>1, LeaveStep
<1>5. CASE Crash(w)
  BY <1>0, <1>1, <1>5, LeaveStep DEF Crash
<1> QED
  BY <1>3, <1>4, <1>5

(* ReportSender.send is between the agent's answer and the row. *)
LEMMA MailStep ==
  ASSUME DocInv, NEW w \in Workers, Mail(w) PROVE DocInv'
<1> DEFINE k == work[w].key
<1>0. /\ work \in [Workers -> [key : Keys \cup {<<>>}, stage : Stages, v : Nat]]
      /\ row \in [Docs -> Nat] /\ mails \in [Docs -> Nat]
  BY DEF DocInv, DocTypeOK
<1>1. k \in Keys /\ k[1] \in Reports /\ k[1] \in Docs
  BY KeyShape DEF Mail, DocInv, DocTypeOK, InHand, Holding
<1>2. /\ work'[w].key = k /\ work'[w].stage = "composed" /\ work'[w].v = work[w].v
      /\ \A u \in Workers \ {w} : work'[u] = work[u]
      /\ work' \in [Workers -> [key : Keys \cup {<<>>}, stage : Stages, v : Nat]]
  BY <1>0, ZenonT(40) DEF Mail, Stages
<1>3. mails' \in [Docs -> Nat]
  <2>1. mails' = mails \/ mails' = [mails EXCEPT ![k[1]] = mails[k[1]] + 1]
    BY DEF Mail
  <2>2. mails[k[1]] + 1 \in Nat
    BY <1>0, <1>1
  <2> QED
    BY <1>0, <1>1, <2>1, <2>2
<1>4. work[w].v = 1 /\ Rev(k[1]) = 1 /\ row[k[1]] <= 1 /\ jobs[k].asked <= 1
      /\ jobs[k].state # "none"
  BY <1>0, <1>1 DEF Mail, DocInv, InHand, Holding, AskedIsKnown
<1>5. UNCHANGED <<now, text, row, jobs, asks>> /\ \A x : Rev(x)' = Rev(x) /\ Current(x)' = Current(x)
  BY RevKept DEF Mail
<1>6. DocTypeOK'
  BY <1>1, <1>2, <1>3, <1>5 DEF DocInv, DocTypeOK
<1>7. AskedIsKnown'
  BY <1>1, <1>2, <1>4, <1>5 DEF DocInv, AskedIsKnown
<1>8. InHand'
  <2>1. Holding(work[w])'
    BY <1>1, <1>2, <1>4, <1>5 DEF Holding
  <2>2. ASSUME NEW u \in Workers \ {w} PROVE Holding(work[u])'
    BY <1>2, <1>5, <2>2 DEF DocInv, InHand, Holding
  <2> QED
    BY <2>1, <2>2 DEF InHand
<1>9. OneComposes'
  BY <1>1, <1>2 DEF DocInv, OneComposes
<1>10. SucceededIsStored'
  BY <1>5 DEF DocInv, SucceededIsStored
<1> QED
  BY <1>6, <1>7, <1>8, <1>9, <1>10 DEF DocInv

(* The transaction that writes the document.  Only the lock holder of a record or
   an answer writes, and a report has one text, so nobody else holds an older one. *)
LEMMA StoreStep ==
  ASSUME DocInv, NEW w \in Workers, Store(w) PROVE DocInv' /\ \A d \in Docs : row[d] <= row'[d]
<1> DEFINE k == work[w].key
<1>0. /\ work \in [Workers -> [key : Keys \cup {<<>>}, stage : Stages, v : Nat]]
      /\ row \in [Docs -> Nat] /\ jobs \in [Keys -> [state : JobStates, attempts : Nat, asked : Nat]]
  BY DEF DocInv, DocTypeOK
<1>1. k \in Keys /\ k[1] \in Docs /\ jobs[k].state # "none" /\ jobs[k].asked \in Nat
      /\ Rev(k[1]) \in Nat
  BY <1>0, KeyShape, RevType DEF Store, DocInv, DocTypeOK, AskedIsKnown
<1>2. /\ work'[w].key = k /\ work'[w].stage = "stored"
      /\ \A u \in Workers \ {w} : work'[u] = work[u]
      /\ work' \in [Workers -> [key : Keys \cup {<<>>}, stage : Stages, v : Nat]]
  BY <1>0 DEF Store, Stages
<1>3. /\ work[w].v \in Nat /\ jobs[k].asked <= work[w].v /\ work[w].v <= Rev(k[1])
      /\ row[k[1]] <= work[w].v /\ (k[1] \in Reports => work[w].v = 1)
  BY <1>0 DEF Store, DocInv, InHand, Holding
<1>4. row' \in [Docs -> Nat] /\ row'[k[1]] = work[w].v /\ \A d \in Docs \ {k[1]} : row'[d] = row[d]
  BY <1>0, <1>1, <1>3 DEF Store
<1>5. \A d \in Docs : row'[d] \in Nat /\ row[d] \in Nat /\ row[d] <= row'[d]
  BY <1>0, <1>3, <1>4
<1>6. UNCHANGED <<now, text, mails, jobs, asks>> /\ \A x : Rev(x)' = Rev(x) /\ Current(x)' = Current(x)
  BY RevKept DEF Store
<1>7. DocTypeOK'
  BY <1>1, <1>2, <1>4, <1>6 DEF DocInv, DocTypeOK
<1>8. AskedIsKnown'
  <2>1. \A d \in Docs : row'[d] <= Rev(d)
    BY <1>3, <1>4 DEF DocInv, AskedIsKnown
  <2> QED
    BY <1>1, <1>2, <1>6, <2>1 DEF DocInv, AskedIsKnown
<1>9. InHand'
  <2> SUFFICES ASSUME NEW u \in Workers PROVE Holding(work[u])'
    BY DEF InHand
  <2>1. CASE u = w
    BY <1>2, <1>3, <1>4, <1>6, <2>1 DEF Holding
  <2>2. CASE u # w
    <3>1. work'[u] = work[u] /\ Holding(work[u])
      BY <1>2, <2>2 DEF DocInv, InHand
    <3>2. work[u].stage # "idle" =>
            work[u].key \in Keys /\ work[u].key[1] \in Docs /\ jobs[work[u].key].asked \in Nat
      BY <1>0, KeyShape DEF DocInv, DocTypeOK
    <3>3. work[u].stage = "composed" => row'[work[u].key[1]] <= work[u].v
      <4> SUFFICES ASSUME work[u].stage = "composed" PROVE row'[work[u].key[1]] <= work[u].v
        OBVIOUS
      <4>1. row[work[u].key[1]] <= work[u].v /\ work[u].v \in Nat /\ work[u].key[1] \in Docs
            /\ (work[u].key[1] \in Reports => work[u].v = 1)
        BY <1>0, <3>1, <3>2 DEF Holding
      <4>2. CASE work[u].key[1] # k[1]
        BY <1>4, <4>1, <4>2
      <4>3. CASE work[u].key[1] = k[1]
        <5>1. k[1] \in Reports
          BY <2>2, <4>3 DEF Store, DocInv, OneComposes
        <5> QED
          BY <1>3, <1>4, <4>1, <4>3, <5>1
      <4> QED
        BY <4>2, <4>3
    <3>4. work[u].stage = "stored" => jobs[work[u].key].asked <= row'[work[u].key[1]]
      BY <1>5, <3>1, <3>2 DEF Holding
    <3> QED
      BY <1>6, <3>1, <3>3, <3>4 DEF Holding
  <2> QED
    BY <2>1, <2>2
<1>10. OneComposes'
  BY <1>2 DEF DocInv, OneComposes
<1>11. SucceededIsStored'
  <2> SUFFICES ASSUME NEW x \in Keys, jobs[x].state = "succeeded"
               PROVE  row'[x[1]] >= jobs[x].asked
    BY <1>6 DEF SucceededIsStored
  <2>1. row[x[1]] >= jobs[x].asked /\ x[1] \in Docs /\ jobs[x].asked \in Nat
    BY <1>0, KeyShape DEF DocInv, SucceededIsStored
  <2> QED
    BY <1>5, <2>1
<1> QED
  BY <1>5, <1>7, <1>8, <1>9, <1>10, <1>11 DEF DocInv

(* Every step preserves the invariant, and Store alone touches a document. *)
LEMMA DocStep ==
  DocInv /\ [Next]_vars => DocInv' /\ \A d \in Docs : row[d] <= row'[d]
<1> SUFFICES ASSUME DocInv, [Next]_vars PROVE DocInv' /\ \A d \in Docs : row[d] <= row'[d]
  OBVIOUS
<1>0. \A d \in Docs : row[d] <= row[d]
  BY DEF DocInv, DocTypeOK
<1>1. ASSUME NEW d \in Docs, NEW t \in 1 .. MaxTexts, Transcribe(d, t) PROVE DocInv' /\ row' = row
  <2>1. row' = row
    BY <1>1 DEF Transcribe
  <2> QED
    BY <1>1, <2>1, WorldStep
<1>2. ASSUME NEW d \in Docs, RequestAnalysis(d) \/ SubmitAnswer(d) \/ RequestReport(d)
      PROVE  DocInv' /\ row' = row
  <2>1. row' = row
    BY <1>2 DEF RequestAnalysis, SubmitAnswer, RequestReport, Ask
  <2> QED
    BY <1>2, <2>1, RequestStep
<1>3. CASE ScheduleDue
  <2>1. row' = row
    BY <1>3 DEF ScheduleDue, Ask
  <2>2. now \in Reports
    BY <1>3, DeliverablesAssumption DEF ScheduleDue, DocInv, DocTypeOK, Reports
  <2> QED
    BY <1>0, <1>3, <2>1, <2>2, RequestStep, ReportKey
<1>4. CASE PeriodEnds \/ GateMoves
  <2>1. row' = row
    BY <1>4 DEF PeriodEnds, GateMoves
  <2> QED
    BY <1>0, <1>4, <2>1, QuietStep
<1>5. CASE (\E a \in asks : Enqueue(a)) \/ \E k \in Keys : Expire(k) \/ Reclaim(k)
  <2>1. row' = row
    BY <1>5 DEF Enqueue, Expire, Reclaim
  <2> QED
    BY <1>0, <1>5, <2>1, MachineryStep
<1>6. ASSUME NEW w \in Workers, NEW k \in Keys, Claim(w, k) PROVE DocInv' /\ row' = row
  <2>1. row' = row
    BY <1>6 DEF Claim
  <2> QED
    BY <1>6, <2>1, ClaimStep
<1>7. ASSUME NEW w \in Workers, Open(w) PROVE DocInv' /\ row' = row
  <2>1. row' = row
    BY <1>7 DEF Open
  <2> QED
    BY <1>7, <2>1, OpenStep
<1>8. ASSUME NEW w \in Workers, Mail(w) \/ Sever(w) PROVE DocInv' /\ row' = row
  <2>1. row' = row
    BY <1>8 DEF Mail, Sever
  <2> QED
    BY <1>8, <2>1, MailStep, SeverStep
<1>9. ASSUME NEW w \in Workers, Complete(w) \/ Fail(w) \/ StoreRaises(w) \/ Crash(w)
      PROVE  DocInv' /\ row' = row
  <2>1. row' = row
    BY <1>9 DEF Complete, Fail, StoreRaises, Raise, Crash
  <2> QED
    BY <1>9, <2>1, EndStep
<1>10. CASE UNCHANGED vars
  <2>0. \A x : Rev(x)' = Rev(x) /\ Current(x)' = Current(x)
    BY <1>10, RevKept DEF vars
  <2>1. DocTypeOK' /\ OneComposes'
    BY <1>10, <2>0 DEF vars, DocInv, DocTypeOK, OneComposes
  <2>2. AskedIsKnown'
    BY <1>10, <2>0 DEF vars, DocInv, AskedIsKnown
  <2>3. InHand' /\ SucceededIsStored'
    BY <1>10, <2>0 DEF vars, DocInv, InHand, Holding, SucceededIsStored
  <2> QED
    BY <1>0, <1>10, <2>1, <2>2, <2>3 DEF vars, DocInv
<1>11. CASE \E d \in Docs : RequestAnalysis(d) \/ SubmitAnswer(d) \/ RequestReport(d)
  BY <1>0, <1>2, <1>11
<1>12. CASE \E d \in Docs, t \in 1 .. MaxTexts : Transcribe(d, t)
  BY <1>0, <1>1, <1>12
<1>13. CASE \E w \in Workers : WorkerStep(w) \/ Sever(w) \/ Fail(w) \/ Crash(w)
  BY <1>0, <1>6, <1>7, <1>8, <1>9, <1>13, StoreStep DEF WorkerStep
<1> QED
  BY <1>3, <1>4, <1>5, <1>10, <1>11, <1>12, <1>13 DEF Next

(* The inductive invariant of the documents holds throughout. *)
LEMMA DocInvariant == Spec => []DocInv
<1>1. DocInv /\ [Next]_vars => DocInv'
  BY DocStep
<1> QED
  BY <1>1, DocInitial, PTL DEF Spec

(* A job that succeeded left a document written from a transcript at least as recent
   as the one the request that queued it saw: InterviewDebriefService.process and its
   siblings, with any number of overlapping workers and of texts that come back. *)
THEOREM SucceededJobsAreStored == Spec => []SucceededIsStored
<1>1. DocInv => SucceededIsStored
  BY DEF DocInv
<1> QED
  BY <1>1, DocInvariant, PTL

(* No step replaces a stored document by one written from an earlier revision. *)
THEOREM RowsNeverRegress == Spec => RowNeverRegresses
<1>1. DocInv /\ [Next]_vars => [\A d \in Docs : row'[d] >= row[d]]_vars
  <2> SUFFICES ASSUME DocInv, [Next]_vars PROVE \A d \in Docs : row'[d] >= row[d]
    OBVIOUS
  <2>1. DocInv' /\ \A d \in Docs : row[d] <= row'[d]
    BY DocStep
  <2>2. \A d \in Docs : row[d] \in Nat /\ row'[d] \in Nat
    BY <2>1 DEF DocInv, DocTypeOK
  <2> QED
    BY <2>1, <2>2
<1> QED
  BY <1>1, DocInvariant, PTL DEF Spec, RowNeverRegresses

-----------------------------------------------------------------------------
\* The workers that may still mail report d: each holds an attempt it has not spent.
Unspent(d) == {w \in Workers : work[w].key = <<d, 1>> /\ work[w].stage \in {"claimed", "mail"}}

\* Mails sent and mails still to come are within the attempts.
MailBudget == \A d \in Reports : mails[d] + Cardinality(Unspent(d)) <= jobs[<<d, 1>>].attempts

(* The workers in hand are finitely many, and counting them gives a number. *)
LEMMA UnspentFinite ==
  \A d \in Reports : IsFiniteSet(Unspent(d)) /\ Cardinality(Unspent(d)) \in Nat
<1> SUFFICES ASSUME NEW d \in Reports
             PROVE  IsFiniteSet(Unspent(d)) /\ Cardinality(Unspent(d)) \in Nat
  OBVIOUS
<1>1. IsFiniteSet(Workers) /\ Unspent(d) \subseteq Workers
  BY DeliverablesAssumption DEF Unspent
<1>2. IsFiniteSet(Unspent(d))
  BY <1>1, FS_Subset
<1> QED
  BY <1>2, FS_CardinalityType

(* A step that mails nothing and gives nobody an attempt keeps within the budget. *)
LEMMA QuietMails ==
  ASSUME DocInv, DocInv', MailBudget, mails' = mails,
         \A k \in Keys : jobs'[k].attempts = jobs[k].attempts,
         \A w \in Workers : work'[w].stage \in {"claimed", "mail"} =>
           work'[w].key = work[w].key /\ work[w].stage \in {"claimed", "mail"}
  PROVE  MailBudget'
<1> SUFFICES ASSUME NEW d \in Reports
             PROVE  mails'[d] + Cardinality(Unspent(d)') <= jobs'[<<d, 1>>].attempts
  BY DEF MailBudget
<1>1. Unspent(d)' \subseteq Unspent(d)
  BY DEF Unspent
<1>2. IsFiniteSet(Unspent(d)) /\ Cardinality(Unspent(d)) \in Nat
  BY UnspentFinite
<1>3. Cardinality(Unspent(d)') <= Cardinality(Unspent(d)) /\ Cardinality(Unspent(d)') \in Nat
  <2>1. IsFiniteSet(Unspent(d)')
    BY <1>1, <1>2, FS_Subset
  <2> QED
    BY <1>1, <1>2, <2>1, FS_Subset, FS_CardinalityType
<1>4. <<d, 1>> \in Keys /\ mails[d] \in Nat /\ jobs[<<d, 1>>].attempts \in Nat
  BY ReportKey DEF DocInv, DocTypeOK
<1> QED
  BY <1>2, <1>3, <1>4 DEF MailBudget

(* Claim pays for one mail. *)
LEMMA ClaimMails ==
  ASSUME DocInv, MailBudget, NEW w \in Workers, NEW k \in Keys, Claim(w, k)
  PROVE  MailBudget'
<1>0. /\ jobs \in [Keys -> [state : JobStates, attempts : Nat, asked : Nat]]
      /\ work \in [Workers -> [key : Keys \cup {<<>>}, stage : Stages, v : Nat]]
      /\ mails' = mails
  BY DEF DocInv, DocTypeOK, Claim
<1>1. /\ jobs'[k].attempts = jobs[k].attempts + 1
      /\ \A x \in Keys \ {k} : jobs'[x] = jobs[x]
  BY <1>0 DEF Claim
<1>2. /\ work[w].stage = "idle" /\ work'[w].key = k
      /\ \A u \in Workers \ {w} : work'[u] = work[u]
  BY <1>0 DEF Claim
<1> SUFFICES ASSUME NEW d \in Reports
             PROVE  mails'[d] + Cardinality(Unspent(d)') <= jobs'[<<d, 1>>].attempts
  BY DEF MailBudget
<1>3. <<d, 1>> \in Keys /\ mails[d] \in Nat /\ jobs[<<d, 1>>].attempts \in Nat
      /\ mails[d] + Cardinality(Unspent(d)) <= jobs[<<d, 1>>].attempts
  BY ReportKey DEF DocInv, DocTypeOK, MailBudget
<1>4. IsFiniteSet(Unspent(d)) /\ Cardinality(Unspent(d)) \in Nat
  BY UnspentFinite
<1>5. w \notin Unspent(d)
  BY <1>2 DEF Unspent
<1>6. CASE k = <<d, 1>>
  <2>1. Unspent(d)' \subseteq Unspent(d) \cup {w}
    BY <1>2 DEF Unspent
  <2>2. /\ IsFiniteSet(Unspent(d) \cup {w})
        /\ Cardinality(Unspent(d) \cup {w}) = Cardinality(Unspent(d)) + 1
    BY <1>4, <1>5, FS_AddElement
  <2>3. IsFiniteSet(Unspent(d)') /\ Cardinality(Unspent(d)') <= Cardinality(Unspent(d) \cup {w})
    BY <2>1, <2>2, FS_Subset
  <2>4. Cardinality(Unspent(d)') \in Nat
    BY <2>3, FS_CardinalityType
  <2> QED
    BY <1>0, <1>1, <1>3, <1>4, <1>6, <2>2, <2>3, <2>4
<1>7. CASE k # <<d, 1>>
  <2>1. Unspent(d)' = Unspent(d)
    BY <1>2, <1>5, <1>7 DEF Unspent
  <2> QED
    BY <1>0, <1>1, <1>3, <1>7, <2>1
<1> QED
  BY <1>6, <1>7

(* Mail spends it. *)
LEMMA MailMails ==
  ASSUME DocInv, MailBudget, NEW w \in Workers, Mail(w)
  PROVE  MailBudget'
<1> DEFINE r == work[w].key[1]
<1>0. /\ work \in [Workers -> [key : Keys \cup {<<>>}, stage : Stages, v : Nat]]
      /\ mails \in [Docs -> Nat] /\ jobs' = jobs
  BY DEF DocInv, DocTypeOK, Mail
<1>1. work[w].key \in Keys /\ r \in Reports /\ r \in Docs
  BY KeyShape DEF Mail, DocInv, DocTypeOK, InHand, Holding
<1>2. work[w].key = <<r, 1>>
  BY <1>1, KeyShape DEF Keys
<1>3. /\ work[w].stage = "mail" /\ work'[w].stage = "composed"
      /\ \A u \in Workers \ {w} : work'[u] = work[u]
  BY <1>0 DEF Mail
<1>4. mails' = mails \/ mails' = [mails EXCEPT ![r] = mails[r] + 1]
  BY DEF Mail
<1> HIDE DEF r
<1>5. mails'[r] \in {mails[r], mails[r] + 1} /\ \A d \in Docs \ {r} : mails'[d] = mails[d]
  BY <1>0, <1>1, <1>4
<1> SUFFICES ASSUME NEW d \in Reports
             PROVE  mails'[d] + Cardinality(Unspent(d)') <= jobs'[<<d, 1>>].attempts
  BY DEF MailBudget
<1>6. d \in Docs /\ mails[d] \in Nat /\ jobs[<<d, 1>>].attempts \in Nat
      /\ mails[d] + Cardinality(Unspent(d)) <= jobs[<<d, 1>>].attempts
  BY ReportKey DEF DocInv, DocTypeOK, MailBudget
<1>7. IsFiniteSet(Unspent(d)) /\ Cardinality(Unspent(d)) \in Nat
  BY UnspentFinite
<1>8. CASE d = r
  <2>1. w \in Unspent(d) /\ Unspent(d)' = Unspent(d) \ {w}
    BY <1>2, <1>3, <1>8 DEF Unspent
  <2>2. Cardinality(Unspent(d) \ {w}) = Cardinality(Unspent(d)) - 1
    BY <1>7, <2>1, FS_RemoveElement
  <2> QED
    BY <1>0, <1>5, <1>6, <1>7, <1>8, <2>1, <2>2
<1>9. CASE d # r
  <2>1. Unspent(d)' = Unspent(d)
    BY <1>2, <1>3, <1>9 DEF Unspent
  <2> QED
    BY <1>0, <1>5, <1>6, <1>9, <2>1
<1> QED
  BY <1>8, <1>9

(* No step overdraws. *)
LEMMA MailStepBudget == DocInv /\ DocInv' /\ MailBudget /\ [Next]_vars => MailBudget'
<1> SUFFICES ASSUME DocInv, DocInv', MailBudget, [Next]_vars PROVE MailBudget'
  OBVIOUS
<1>0. /\ jobs \in [Keys -> [state : JobStates, attempts : Nat, asked : Nat]]
      /\ work \in [Workers -> [key : Keys \cup {<<>>}, stage : Stages, v : Nat]]
  BY DEF DocInv, DocTypeOK
<1>1. CASE UNCHANGED <<mails, jobs, work>>
  BY <1>1, QuietMails
<1>2. CASE (\E a \in asks : Enqueue(a)) \/ \E k \in Keys : Expire(k) \/ Reclaim(k)
  <2>1. UNCHANGED <<mails, work>>
    BY <1>2 DEF Enqueue, Expire, Reclaim
  <2>2. \A x \in Keys : jobs'[x].attempts = jobs[x].attempts
    <3>1. ASSUME NEW a \in asks, Enqueue(a) PROVE \A x \in Keys : jobs'[x].attempts = jobs[x].attempts
      BY <1>0, <3>1 DEF Enqueue
    <3>2. ASSUME NEW k \in Keys, Expire(k) PROVE \A x \in Keys : jobs'[x].attempts = jobs[x].attempts
      BY <1>0, <3>2 DEF Expire
    <3>3. ASSUME NEW k \in Keys, Reclaim(k) PROVE \A x \in Keys : jobs'[x].attempts = jobs[x].attempts
      BY <1>0, <3>3 DEF Reclaim, Given
    <3> QED
      BY <1>2, <3>1, <3>2, <3>3
  <2> QED
    BY <2>1, <2>2, QuietMails
<1>3. ASSUME NEW w \in Workers, Complete(w) \/ Fail(w) \/ StoreRaises(w) \/ Crash(w)
      PROVE  MailBudget'
  <2>1. mails' = mails /\ work' = [work EXCEPT ![w] = Idle]
    BY <1>3 DEF Complete, Fail, StoreRaises, Raise, Crash
  <2>2. \A x \in Keys : jobs'[x].attempts = jobs[x].attempts
    <3>1. CASE Complete(w)
      BY <1>0, <3>1 DEF Complete
    <3>2. CASE Fail(w) \/ StoreRaises(w)
      <4>1. Raise(w)
        BY <3>2 DEF Fail, StoreRaises
      <4> QED
        BY <1>0, <4>1 DEF Raise, Given
    <3>3. CASE Crash(w)
      BY <3>3 DEF Crash
    <3> QED
      BY <1>3, <3>1, <3>2, <3>3
  <2>3. \A u \in Workers : work'[u] = work[u] \/ work'[u].stage = "idle"
    BY <1>0, <2>1 DEF Idle
  <2> QED
    BY <2>1, <2>2, <2>3, QuietMails
<1>4. ASSUME NEW w \in Workers, Open(w) \/ Store(w) \/ Sever(w) PROVE MailBudget'
  <2>1. UNCHANGED <<mails, jobs>>
    BY <1>4 DEF Open, Store, Sever
  <2>2. \A u \in Workers \ {w} : work'[u] = work[u]
    BY <1>0, <1>4 DEF Open, Store, Sever
  <2>3. /\ work'[w].key = work[w].key
        /\ work[w].stage = "claimed" \/ work'[w].stage \in {"stored", "severed"}
    BY <1>0, <1>4 DEF Open, Store, Sever
  <2> QED
    BY <2>1, <2>2, <2>3, QuietMails
<1>5. CASE \/ \E d \in Docs : RequestAnalysis(d) \/ SubmitAnswer(d) \/ RequestReport(d)
           \/ \E d \in Docs, t \in 1 .. MaxTexts : Transcribe(d, t)
  BY <1>1, <1>5 DEF Transcribe, RequestAnalysis, SubmitAnswer, RequestReport, Ask
<1>6. CASE PeriodEnds \/ ScheduleDue \/ GateMoves \/ UNCHANGED vars
  BY <1>1, <1>6 DEF PeriodEnds, ScheduleDue, GateMoves, Ask, vars
<1>7. CASE \E w \in Workers : WorkerStep(w) \/ Sever(w) \/ Fail(w) \/ Crash(w)
  BY <1>3, <1>4, <1>7, ClaimMails, MailMails DEF WorkerStep
<1> QED
  BY <1>2, <1>5, <1>6, <1>7 DEF Next

(* Nothing is mailed and nobody works at the start. *)
LEMMA MailInitial == Init => MailBudget
<1> SUFFICES ASSUME Init, NEW d \in Reports
             PROVE  mails[d] + Cardinality(Unspent(d)) <= jobs[<<d, 1>>].attempts
  BY DEF MailBudget
<1>1. mails[d] = 0 /\ jobs[<<d, 1>>].attempts = 0
  BY ReportKey DEF Init, NoJob
<1>2. Unspent(d) = {}
  BY DEF Init, Idle, Unspent
<1>3. Cardinality(Unspent(d)) = 0
  BY <1>2, FS_EmptySet
<1> QED
  BY <1>1, <1>3

(* A report is mailed at most once per attempt of its job: WeeklyReportService sends
   before it stores, and neither a crash in between nor two workers that overlap
   exceed the attempts. *)
THEOREM MailedOncePerAttempt == Spec => []MailedPerAttempt
<1>1. DocInv /\ MailBudget => MailedPerAttempt
  <2> SUFFICES ASSUME DocInv, MailBudget, NEW d \in Reports
               PROVE  mails[d] <= jobs[<<d, 1>>].attempts
    BY DEF MailedPerAttempt
  <2>1. mails[d] \in Nat /\ jobs[<<d, 1>>].attempts \in Nat
    BY ReportKey DEF DocInv, DocTypeOK
  <2> QED
    BY <2>1, UnspentFinite DEF MailBudget
<1>2. DocInv /\ DocInv' /\ MailBudget /\ [Next]_vars => MailBudget'
  BY MailStepBudget
<1> QED
  BY <1>1, <1>2, MailInitial, DocInvariant, PTL DEF Spec

=============================================================================
