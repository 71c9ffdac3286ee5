--------------------------- MODULE RoadmapsProofs ---------------------------
(***************************************************************************)
(* What Roadmaps promises for any requests, packages, dates and faults.    *)
(* Four arguments: a request owns the import it is validating, and an      *)
(* import it approves keeps the parse that was previewed; the branch only  *)
(* grows, because a commit follows the head or is refused; the lock of the *)
(* version rows is held from the check of a version to its activation; and *)
(* an activation starts after every day that is planned.                   *)
(***************************************************************************)
EXTENDS Roadmaps, SequenceTheorems, WellFoundedInduction, TLAPS

Stages == {"idle", "create", "begin", "check", "finish", "approve", "begin_mirror",
           "read", "push", "finish_mirror", "fail_mirror", "lock", "activate", "plan"}

Request == [at : Stages, pkg : Packages \cup {"none"}, key : IdKeys \cup {"none"},
            id : Nat, parse : Nat, seen : Nat]
Import  == [pkg : Packages, key : IdKeys, parse : Nat,
            status : {"staged", "validating", "validated", "imported", "rejected"}]
Version == [import : Nat, pkg : Packages, parse : Nat, number : Nat, activated : Nat,
            state : {"approved", "active", "superseded"}, starts : Nat, ref : Nat,
            mirror : {"pending", "not_required", "syncing", "synced", "failed"}]

RoadTypeOK ==
  /\ reqs \in [Requests -> Request]
  /\ parser \in Nat \ {0}
  /\ imports \in Seq(Import)
  /\ versions \in Seq(Version)
  /\ setting \in [active : Nat, start : Nat]
  /\ days \in [Dates -> Nat]
  /\ branch \in Seq(SUBSET Nat)
  /\ locks \in [versions : SUBSET Requests, setting : SUBSET Requests]
  /\ faults \in Nat

Validating == {"begin", "check", "finish"}
Mirroring  == {"begin_mirror", "read", "push", "finish_mirror", "fail_mirror"}

\* What a request holds is still true: the import it validates is in the status of its
\* stage, the import it approves has the parse that the preview showed, the commit it
\* pushed holds its version, the version it activates is approved.
Sound(q) ==
  /\ q.at = "create" => q.pkg \in Packages /\ q.key \in IdKeys
  /\ q.at \in Validating =>
       /\ q.id \in DOMAIN imports
       /\ imports[q.id].status = IF q.at = "begin" THEN "staged" ELSE "validating"
  /\ q.at = "approve" =>
       /\ q.id \in DOMAIN imports
       /\ imports[q.id].status \in {"validated", "imported"}
       /\ imports[q.id].parse = q.parse
  /\ q.at \in Mirroring \cup {"lock", "activate"} => q.id \in DOMAIN versions
  /\ q.at = "finish_mirror" => q.seen \in DOMAIN branch /\ q.id \in branch[q.seen]
  /\ q.at = "activate" => versions[q.id].state = "approved"
  /\ q.at = "plan" => setting.active # 0 /\ q.id \in Dates

\* One request validates an import.
OneValidates ==
  \A r, s \in Requests :
    reqs[r].at \in Validating /\ reqs[s].at \in Validating /\ reqs[r].id = reqs[s].id => r = s

\* The row locks are held by the requests of those stages, one at a time.
LocksInv ==
  /\ \A r \in Requests : /\ r \in locks.versions <=> reqs[r].at = "activate"
                         /\ r \in locks.setting <=> reqs[r].at = "plan"
  /\ \A r, s \in locks.versions : r = s
  /\ \A r, s \in locks.setting : r = s

RequestsInv == (\A r \in Requests : Sound(reqs[r])) /\ OneValidates /\ LocksInv

\* VersionsAreOneChain, and a version has the package of its import.
ChainInv ==
  /\ VersionsAreOneChain
  /\ \A v \in DOMAIN versions : /\ versions[v].import \in DOMAIN imports
                                /\ versions[v].pkg = imports[versions[v].import].pkg

\* The branch only grows, and a version that is synced names a commit that holds it.
BranchInv ==
  /\ \A a, b \in DOMAIN branch : a <= b => branch[a] \subseteq branch[b]
  /\ \A v \in DOMAIN versions : versions[v].mirror = "synced" =>
       versions[v].ref \in DOMAIN branch /\ v \in branch[versions[v].ref]

\* The active version was activated last, and starts after every day that another
\* version has planned.
ActiveInv ==
  /\ ActiveIsSelected
  /\ \A v \in DOMAIN versions : versions[v].activated = 0 <=> versions[v].state = "approved"
  /\ \A d \in Dates : days[d] # 0 => /\ days[d] \in DOMAIN versions
                                     /\ versions[days[d]].state # "approved"
  /\ setting.active = 0 => \A v \in DOMAIN versions : versions[v].state = "approved"
  /\ setting.active # 0 =>
       /\ setting.active \in DOMAIN versions
       /\ \A v \in DOMAIN versions :
            versions[v].activated <= versions[setting.active].activated
       /\ \A d \in Dates : days[d] \notin {0, setting.active}
            => d < versions[setting.active].starts
  /\ DaysFollowActivation

RoadInv == RoadTypeOK /\ RequestsInv /\ ChainInv /\ BranchInv /\ ActiveInv

-----------------------------------------------------------------------------
(* A set of numbers has a least one: from the library's theorem that < is well founded. *)
LEMMA LeastExists ==
  ASSUME NEW S, S \subseteq Nat, S # {}
  PROVE  \E x \in S : \A y \in S : x <= y
<1> DEFINE Less == {ss \in Nat \X Nat : ss[1] < ss[2]}
<1>1. IsWellFoundedOn(Less, Nat)
  BY NatLessThanWellFounded DEF OpToRel
<1>2. PICK x \in S : \A y \in S : ~(<<y, x>> \in Less)
  <2> HIDE DEF Less
  <2> QED
    BY <1>1, WFMin
<1>3. ASSUME NEW y \in S PROVE x <= y
  <2>1. x \in Nat /\ y \in Nat
    OBVIOUS
  <2>2. ~(y < x)
    BY <1>2, <2>1
  <2> QED
    BY <2>1, <2>2
<1> QED
  BY <1>3

(* Min, of a set that has an element. *)
LEMMA MinIsLeast ==
  ASSUME NEW S, S \subseteq Nat, S # {}
  PROVE  Min(S) \in S /\ \A y \in S : Min(S) <= y
BY LeastExists DEF Min

(* Max, of a set that has an element and a bound. *)
LEMMA MaxIsGreatest ==
  ASSUME NEW S, S \subseteq Nat, S # {}, NEW n \in Nat, \A x \in S : x <= n
  PROVE  Max(S) \in S /\ \A y \in S : y <= Max(S)
<1> DEFINE U == {n - y : y \in S}
<1>1. PICK u \in U : \A y \in U : u <= y
  <2>1. U # {}
    OBVIOUS
  <2>2. \A y \in S : y \in Nat /\ y <= n
    OBVIOUS
  <2>3. U \subseteq Nat
    BY <2>2
  <2> HIDE DEF U
  <2> QED
    BY <2>1, <2>3, LeastExists
<1>2. PICK x \in S : u = n - x
  OBVIOUS
<1>3. \A y \in S : n - y \in U
  OBVIOUS
<1>4. \A y \in S : x >= y
  BY <1>1, <1>2, <1>3
<1> QED
  BY <1>4 DEF Max

(* The rows of a table are numbered from 1. *)
LEMMA Rows ==
  ASSUME NEW S, NEW s \in Seq(S)
  PROVE  /\ Len(s) \in Nat /\ DOMAIN s = 1 .. Len(s)
         /\ \A i \in DOMAIN s : s[i] \in S
OBVIOUS

(* A row that is added, and a row that is written. *)
LEMMA RowAdded ==
  ASSUME NEW S, NEW s \in Seq(S), NEW e \in S, NEW t, t = Append(s, e)
  PROVE  /\ t \in Seq(S) /\ Len(t) = Len(s) + 1
         /\ DOMAIN t = DOMAIN s \cup {Len(s) + 1}
         /\ Len(s) + 1 \notin DOMAIN s
         /\ \A i \in DOMAIN s : t[i] = s[i]
         /\ t[Len(s) + 1] = e
OBVIOUS

LEMMA RowWritten ==
  ASSUME NEW S, NEW s \in Seq(S), NEW i \in DOMAIN s, NEW e \in S,
         NEW t, t = [s EXCEPT ![i] = e]
  PROVE  /\ t \in Seq(S) /\ Len(t) = Len(s) /\ DOMAIN t = DOMAIN s
         /\ \A j \in DOMAIN s : j # i => t[j] = s[j]
         /\ t[i] = e
BY ExceptSeq

(* The request that has ended. *)
LEMMA IdleIsRequest == Idle \in Request /\ Idle.at = "idle"
BY DEF Idle, Request, Stages

(* Nothing has been uploaded at the start. *)
LEMMA RoadInitial == Init => RoadInv
<1> SUFFICES ASSUME Init PROVE RoadInv
  OBVIOUS
<1> USE RoadmapsAssumption, IdleIsRequest
<1>1. RoadTypeOK
  BY DEF Init, RoadTypeOK, Dates
<1>2. \A r \in Requests : reqs[r].at = "idle"
  BY DEF Init
<1>3. DOMAIN imports = {} /\ DOMAIN versions = {} /\ DOMAIN branch = {}
  BY DEF Init
<1>4. ChainInv
  BY <1>3 DEF ChainInv, VersionsAreOneChain
<1>5. BranchInv
  BY <1>3 DEF BranchInv
<1>6. RequestsInv
  BY <1>2 DEF RequestsInv, Sound, OneValidates, LocksInv, Validating, Mirroring, Init
<1>7. ActiveInv
  BY <1>3 DEF ActiveInv, ActiveIsSelected, DaysFollowActivation, Init
<1> QED
  BY <1>1, <1>4, <1>5, <1>6, <1>7 DEF RoadInv

(* A request that only moves itself: what it holds is true, it has taken and released *)
(* its locks, and no other request validates its import.                               *)
LEMMA Moves ==
  ASSUME RoadInv, NEW r \in Requests, NEW q \in Request, reqs' = [reqs EXCEPT ![r] = q],
         UNCHANGED <<imports, versions, setting, days, branch>>,
         parser' \in Nat \ {0}, faults' \in Nat,
         locks' \in [versions : SUBSET Requests, setting : SUBSET Requests],
         Sound(q),
         q.at \in Validating => reqs[r].at \in Validating /\ reqs[r].id = q.id,
         LocksInv'
  PROVE  RoadInv'
<1>1. RoadTypeOK'
  BY DEF RoadInv, RoadTypeOK
<1>2. \A s \in Requests : Sound(reqs'[s])
  BY DEF RoadInv, RoadTypeOK, RequestsInv
<1>3. \A x : Sound(x)' <=> Sound(x)
  BY DEF Sound
<1>4. OneValidates'
  BY DEF RoadInv, RoadTypeOK, RequestsInv, OneValidates
<1>5. ChainInv' /\ BranchInv'
  BY DEF RoadInv, ChainInv, VersionsAreOneChain, BranchInv
<1>6. ActiveInv'
  BY DEF RoadInv, ActiveInv, ActiveIsSelected, DaysFollowActivation
<1> QED
  BY <1>1, <1>2, <1>3, <1>4, <1>5, <1>6 DEF RoadInv, RequestsInv

(* A request that neither takes nor releases a lock. *)
LEMMA LocksStay ==
  ASSUME RoadInv, NEW r \in Requests, NEW q \in Request, reqs' = [reqs EXCEPT ![r] = q],
         UNCHANGED locks, reqs[r].at \notin {"activate", "plan"}, q.at \notin {"activate", "plan"}
  PROVE  LocksInv'
BY DEF RoadInv, RoadTypeOK, RequestsInv, LocksInv

(* The steps that read and decide, and change no row: a request is taken up, a read   *)
(* between two transactions, the end of a request, a deployment.                       *)
LEMMA ReadSteps ==
  ASSUME RoadInv, NEW r \in Requests,
         \/ Preview(r) \/ MirrorRead(r)
         \/ \E p \in Packages, k \in IdKeys : StageFind(r, p, k)
         \/ \E i \in DOMAIN imports : ApproveRead(r, i)
         \/ \E v \in DOMAIN versions : RetryMirror(r, v) \/ ActivateBegin(r, v)
  PROVE  RoadInv'
<1> DEFINE q == reqs'[r]
           Moved ==
        /\ reqs' = [reqs EXCEPT ![r] = q] /\ q \in Request
        /\ reqs[r].at \notin {"activate", "plan"} /\ q.at \notin {"activate", "plan"}
        /\ q.at \in Validating => reqs[r].at \in Validating /\ reqs[r].id = q.id
        /\ UNCHANGED <<parser, imports, versions, setting, days, branch, locks, faults>>
        /\ Sound(q)
<1>0. /\ reqs \in [Requests -> Request] /\ parser \in Nat \ {0} /\ faults \in Nat
      /\ imports \in Seq(Import) /\ versions \in Seq(Version) /\ branch \in Seq(SUBSET Nat)
      /\ locks \in [versions : SUBSET Requests, setting : SUBSET Requests]
      /\ Sound(reqs[r])
  BY DEF RoadInv, RoadTypeOK, RequestsInv
<1>a. /\ \A i \in DOMAIN imports \cup DOMAIN versions : i \in Nat
      /\ Len(branch) \in Nat /\ Len(versions) \in Nat /\ reqs[r] \in Request /\ parser \in Nat
  BY <1>0, Rows
<1>1. Moved
  <2>1. ASSUME NEW p \in Packages, NEW k \in IdKeys, StageFind(r, p, k) PROVE Moved
    <3>1. PICK n \in Nat :
            q = [Idle EXCEPT !.at = "create", !.pkg = p, !.key = k, !.parse = n]
      <4> DEFINE n == IF p \in Bad THEN 0 ELSE parser
      <4>1. n \in Nat
        BY <1>a
      <4>2. q = [Idle EXCEPT !.at = "create", !.pkg = p, !.key = k, !.parse = n]
        BY <1>0, <2>1 DEF StageFind
      <4> QED
        BY <4>1, <4>2
    <3>2. q \in Request
      BY <3>1, IdleIsRequest DEF Request, Stages
    <3> QED
      BY <1>0, <2>1, <3>1, <3>2 DEF StageFind, At, Idle, Validating, Mirroring, Sound
  <2>2. CASE Preview(r)
    <3>1. q = [reqs[r] EXCEPT !.at = "finish"] /\ reqs[r].at = "check"
      BY <1>0, <2>2 DEF Preview, Goto, At
    <3>2. q \in Request
      BY <1>a, <3>1, IdleIsRequest DEF Request, Stages
    <3> QED
      BY <1>0, <2>2, <3>1, <3>2 DEF Preview, Goto, At, Idle, Validating, Mirroring, Sound
  <2>3. CASE MirrorRead(r)
    <3>1. q = [reqs[r] EXCEPT !.at = "push", !.seen = Len(branch)] /\ reqs[r].at = "read"
      BY <1>0, <2>3 DEF MirrorRead, At
    <3>2. q \in Request
      BY <1>a, <3>1, IdleIsRequest DEF Request, Stages
    <3> QED
      <4>1. reqs' = [reqs EXCEPT ![r] = q]
        BY <1>0, <2>3 DEF MirrorRead
      <4>2. q.at = "push" /\ q.id = reqs[r].id
        BY <3>1, <1>a DEF Request
      <4>3. Sound(q)
        BY <1>0, <3>1, <4>2 DEF Sound, Validating, Mirroring
      <4> QED
        BY <2>3, <3>1, <3>2, <4>1, <4>2, <4>3 DEF MirrorRead, Validating
  <2>4. ASSUME NEW i \in DOMAIN imports, ApproveRead(r, i) PROVE Moved
    <3>1. q = [Idle EXCEPT !.at = "approve", !.id = i, !.parse = parser]
      BY <1>0, <2>4 DEF ApproveRead, At
    <3>2. q \in Request
      BY <1>a, <3>1, IdleIsRequest DEF Request, Stages
    <3> QED
      BY <1>0, <2>4, <3>1, <3>2 DEF ApproveRead, At, Idle, Validating, Mirroring, Sound
  <2>5. ASSUME NEW i \in DOMAIN versions, RetryMirror(r, i) PROVE Moved
    <3>1. q = [Idle EXCEPT !.at = "begin_mirror", !.id = i]
      BY <1>0, <2>5 DEF RetryMirror, At
    <3>2. q \in Request
      BY <1>a, <3>1, IdleIsRequest DEF Request, Stages
    <3> QED
      BY <1>0, <2>5, <3>1, <3>2 DEF RetryMirror, At, Idle, Validating, Mirroring, Sound
  <2>6. ASSUME NEW i \in DOMAIN versions, ActivateBegin(r, i) PROVE Moved
    <3>1. q = [Idle EXCEPT !.at = "lock", !.id = i, !.seen = Len(versions)]
      BY <1>0, <2>6 DEF ActivateBegin, At
    <3>2. q \in Request
      BY <1>a, <3>1, IdleIsRequest DEF Request, Stages
    <3> QED
      BY <1>0, <2>6, <3>1, <3>2 DEF ActivateBegin, At, Idle, Validating, Mirroring, Sound
  <2> QED
    BY <2>1, <2>2, <2>3, <2>4, <2>5, <2>6
<1> HIDE DEF q
<1>3. LocksInv'
  BY <1>0, <1>1, LocksStay
<1> QED
  BY <1>0, <1>1, <1>3, Moves

(* The locks that a request leaves. *)
LEMMA ReleasedLocks ==
  ASSUME RoadInv, NEW r
  PROVE  Released(r) = [versions |-> locks.versions \ {r}, setting |-> locks.setting \ {r}]
<1>1. locks \in [versions : SUBSET Requests, setting : SUBSET Requests]
  BY DEF RoadInv, RoadTypeOK
<1> QED
  BY <1>1 DEF Released

(* A request that ends, whether it finds nothing to do, fails or dies: its locks go with it. *)
LEMMA EndStep ==
  ASSUME RoadInv, NEW r \in Requests, End(r), locks' = Released(r), faults' \in Nat,
         UNCHANGED <<parser, imports, versions, setting, days, branch>>
  PROVE  RoadInv'
<1>0. /\ reqs \in [Requests -> Request] /\ parser \in Nat \ {0}
      /\ locks \in [versions : SUBSET Requests, setting : SUBSET Requests]
  BY DEF RoadInv, RoadTypeOK
<1>1. locks' = [versions |-> locks.versions \ {r}, setting |-> locks.setting \ {r}]
  BY ReleasedLocks
<1>2. \A s \in Requests : reqs'[s] = IF s = r THEN Idle ELSE reqs[s]
  BY <1>0 DEF End
<1>3. LocksInv'
  BY <1>0, <1>1, <1>2, IdleIsRequest DEF RoadInv, RequestsInv, LocksInv
<1>4. Sound(Idle)
  BY DEF Sound, Idle, Validating, Mirroring
<1>5. locks' \in [versions : SUBSET Requests, setting : SUBSET Requests]
  BY <1>0, <1>1
<1> QED
  BY <1>0, <1>3, <1>4, <1>5, IdleIsRequest, Moves DEF End, Validating

(* A request that holds no lock releases none. *)
LEMMA NothingReleased ==
  ASSUME RoadInv, NEW r \in Requests, reqs[r].at \notin {"activate", "plan"}, UNCHANGED locks
  PROVE  locks' = Released(r)
<1>1. locks \in [versions : SUBSET Requests, setting : SUBSET Requests]
  BY DEF RoadInv, RoadTypeOK
<1>2. locks.versions \ {r} = locks.versions /\ locks.setting \ {r} = locks.setting
  BY DEF RoadInv, RequestsInv, LocksInv
<1>3. Released(r) = [versions |-> locks.versions \ {r}, setting |-> locks.setting \ {r}]
  BY ReleasedLocks
<1> QED
  BY <1>1, <1>2, <1>3

(* FOR UPDATE on the versions, and on the setting. *)
LEMMA LockSteps ==
  ASSUME RoadInv, NEW r \in Requests,
         ActivateLock(r) \/ \E d \in Dates : PlanLock(r, d)
  PROVE  RoadInv'
<1>0. /\ reqs \in [Requests -> Request] /\ parser \in Nat \ {0} /\ faults \in Nat
      /\ locks \in [versions : SUBSET Requests, setting : SUBSET Requests]
      /\ Sound(reqs[r]) /\ reqs[r] \in Request
  BY DEF RoadInv, RoadTypeOK, RequestsInv
<1>1. CASE ActivateLock(r) /\ versions[reqs[r].id].state = "approved"
  <2> DEFINE q == [reqs[r] EXCEPT !.at = "activate"]
  <2>1. /\ reqs' = [reqs EXCEPT ![r] = q] /\ q \in Request /\ q.at = "activate"
        /\ q.id = reqs[r].id /\ reqs[r].at = "lock" /\ locks.versions = {}
    BY <1>0, <1>1 DEF ActivateLock, Goto, At, Request, Stages
  <2>2. locks' = [versions |-> {r}, setting |-> locks.setting]
    BY <1>0, <1>1 DEF ActivateLock
  <2>3. Sound(q)
    BY <1>0, <1>1, <2>1 DEF Sound, Validating, Mirroring
  <2> HIDE DEF q
  <2>4. LocksInv'
    BY <1>0, <2>1, <2>2 DEF RoadInv, RequestsInv, LocksInv
  <2>5. locks' \in [versions : SUBSET Requests, setting : SUBSET Requests]
    BY <1>0, <2>2
  <2> QED
    BY <1>0, <1>1, <2>1, <2>3, <2>4, <2>5, Moves DEF ActivateLock, Validating
<1>2. CASE ActivateLock(r) /\ versions[reqs[r].id].state # "approved"
  <2>1. locks' = Released(r)
    BY <1>2, NothingReleased DEF ActivateLock, At
  <2> QED
    BY <1>0, <1>2, <2>1, EndStep DEF ActivateLock
<1>3. ASSUME NEW d \in Dates, PlanLock(r, d) PROVE RoadInv'
  <2> DEFINE q == [Idle EXCEPT !.at = "plan", !.id = d]
  <2>1. /\ reqs' = [reqs EXCEPT ![r] = q] /\ q.at = "plan" /\ q.id = d
        /\ reqs[r].at = "idle" /\ locks.setting = {} /\ setting.active # 0
    BY <1>0, <1>3 DEF PlanLock, At, Idle
  <2>2. q \in Request
    <3>1. d \in Nat
      BY RoadmapsAssumption DEF Dates
    <3> QED
      BY <3>1, IdleIsRequest DEF Request, Stages
  <2>3. locks' = [versions |-> locks.versions, setting |-> {r}]
    BY <1>0, <1>3 DEF PlanLock
  <2>4. Sound(q)
    BY <2>1 DEF Sound, Validating, Mirroring
  <2> HIDE DEF q
  <2>5. LocksInv'
    BY <1>0, <2>1, <2>3 DEF RoadInv, RequestsInv, LocksInv
  <2>6. locks' \in [versions : SUBSET Requests, setting : SUBSET Requests]
    BY <1>0, <2>3
  <2> QED
    BY <1>0, <1>3, <2>1, <2>2, <2>4, <2>5, <2>6, Moves DEF PlanLock, Validating
<1> QED
  BY <1>1, <1>2, <1>3

(* PostgreSQL breaks a deadlock, a request dies, a parser is deployed. *)
LEMMA FaultSteps ==
  ASSUME RoadInv, NEW r \in Requests, BreakDeadlock(r) \/ Die(r)
  PROVE  RoadInv'
<1>1. faults' \in Nat
  BY DEF RoadInv, RoadTypeOK, BreakDeadlock, Die, Fault
<1> QED
  BY <1>1, EndStep DEF BreakDeadlock, Die

LEMMA DeployStep ==
  ASSUME RoadInv, Deploy
  PROVE  RoadInv'
<1>1. RoadTypeOK'
  BY DEF RoadInv, RoadTypeOK, Deploy
<1>2. RequestsInv'
  BY DEF RoadInv, RequestsInv, Sound, OneValidates, LocksInv, Deploy
<1>3. ChainInv' /\ BranchInv'
  BY DEF RoadInv, ChainInv, VersionsAreOneChain, BranchInv, Deploy
<1>4. ActiveInv'
  BY DEF RoadInv, ActiveInv, ActiveIsSelected, DaysFollowActivation, Deploy
<1> QED
  BY <1>1, <1>2, <1>3, <1>4 DEF RoadInv

-----------------------------------------------------------------------------
(* Staging.  Nobody else sees an import that is being validated. *)

(* What the rest of the invariant says does not depend on the imports and the requests. *)
LEMMA RestStays ==
  ASSUME RoadInv, UNCHANGED <<versions, setting, days, branch>>
  PROVE  BranchInv' /\ ActiveInv'
BY DEF RoadInv, BranchInv, ActiveInv, ActiveIsSelected, DaysFollowActivation

(* begin_validation, reject_validation and finish_validation write the row they own. *)
LEMMA ImportWritten ==
  ASSUME RoadInv, NEW r \in Requests, NEW q \in Request, NEW e \in Import,
         reqs[r].at \in Validating, reqs' = [reqs EXCEPT ![r] = q],
         imports' = [imports EXCEPT ![reqs[r].id] = e],
         e.pkg = imports[reqs[r].id].pkg, e.status # "imported",
         Sound(reqs[r])', q.at \in Validating => q.id = reqs[r].id, q.at \notin {"activate", "plan"},
         UNCHANGED <<parser, versions, setting, days, branch, locks, faults>>
  PROVE  RoadInv'
<1> DEFINE i == reqs[r].id
<1>0. /\ reqs \in [Requests -> Request] /\ imports \in Seq(Import)
      /\ i \in DOMAIN imports /\ imports[i].status \in {"staged", "validating"}
  BY DEF RoadInv, RoadTypeOK, RequestsInv, Sound
<1>1. /\ imports' \in Seq(Import) /\ DOMAIN imports' = DOMAIN imports
      /\ \A j \in DOMAIN imports : j # i => imports'[j] = imports[j]
      /\ imports'[i] = e
  BY <1>0, RowWritten
<1>2. RoadTypeOK'
  BY <1>1 DEF RoadInv, RoadTypeOK
<1>3. ASSUME NEW s \in Requests PROVE Sound(reqs[s])'
  <2>1. CASE s = r
    BY <1>0, <2>1
  <2>2. CASE s # r
    <3>1. reqs'[s] = reqs[s] /\ Sound(reqs[s])
      BY <2>2 DEF RoadInv, RequestsInv
    <3>2. reqs[s].at \in Validating \cup {"approve"} => reqs[s].id # i
      BY <1>0, <2>2, <3>1 DEF RoadInv, RequestsInv, OneValidates, Sound, Validating
    <3> HIDE DEF i
    <3> QED
      BY <1>1, <3>1, <3>2 DEF Sound
  <2> QED
    BY <2>1, <2>2
<1>4. OneValidates'
  BY <1>0 DEF RoadInv, RequestsInv, OneValidates
<1>5. LocksInv'
  BY LocksStay DEF Validating
<1>6. ChainInv'
  <2>1. \A v \in DOMAIN versions : versions[v].import # i
    BY <1>0 DEF RoadInv, ChainInv, VersionsAreOneChain
  <2> HIDE DEF i
  <2> QED
    BY <1>0, <1>1, <2>1 DEF RoadInv, ChainInv, VersionsAreOneChain
<1> QED
  BY <1>2, <1>3, <1>4, <1>5, <1>6, RestStays DEF RoadInv, RequestsInv

LEMMA ValidationSteps ==
  ASSUME RoadInv, NEW r \in Requests,
         BeginValidation(r) \/ Reject(r) \/ FinishValidation(r)
  PROVE  RoadInv'
<1> DEFINE i == reqs[r].id
<1>0. /\ reqs \in [Requests -> Request] /\ imports \in Seq(Import)
      /\ reqs[r].at \in Validating /\ reqs[r] \in Request
  BY DEF RoadInv, RoadTypeOK, BeginValidation, Reject, FinishValidation, At, Validating
<1>1. i \in DOMAIN imports /\ imports[i] \in Import
  BY <1>0 DEF RoadInv, RequestsInv, Sound
<1>2. CASE BeginValidation(r)
  <2> DEFINE e == [imports[i] EXCEPT !.status = "validating"]
             q == [reqs[r] EXCEPT !.at = "check"]
  <2>1. e \in Import /\ e.pkg = imports[i].pkg /\ e.status = "validating"
    BY <1>1 DEF Import
  <2>2. q \in Request /\ q.at = "check" /\ q.id = i
    BY <1>0 DEF Request, Stages
  <2>3. imports' = [imports EXCEPT ![i] = e] /\ reqs' = [reqs EXCEPT ![r] = q]
    BY <1>0, <1>1, <1>2 DEF BeginValidation, Goto
  <2> HIDE DEF e, q
  <2>4. imports'[i] = e /\ DOMAIN imports' = DOMAIN imports /\ reqs'[r] = q
    BY <1>0, <1>1, <2>1, <2>3, RowWritten
  <2>5. Sound(reqs[r])'
    BY <1>1, <2>1, <2>2, <2>4 DEF Sound, Validating, Mirroring
  <2> QED
    BY <1>0, <1>2, <2>1, <2>2, <2>3, <2>5, ImportWritten DEF BeginValidation
<1>3. CASE Reject(r)
  <2> DEFINE e == [imports[i] EXCEPT !.status = "rejected"]
  <2>1. e \in Import /\ e.pkg = imports[i].pkg /\ e.status = "rejected"
    BY <1>1 DEF Import
  <2>2. imports' = [imports EXCEPT ![i] = e] /\ reqs' = [reqs EXCEPT ![r] = Idle]
    BY <1>0, <1>1, <1>3 DEF Reject, End
  <2> HIDE DEF e
  <2>3. Sound(reqs[r])'
    BY <1>0, <2>2 DEF Sound, Idle, Validating, Mirroring
  <2> QED
    BY <1>0, <1>3, <2>1, <2>2, <2>3, IdleIsRequest, ImportWritten DEF Reject, Validating
<1>4. CASE FinishValidation(r)
  <2> DEFINE e == [imports[i] EXCEPT !.status = "validated", !.parse = reqs[r].parse]
  <2>1. e \in Import /\ e.pkg = imports[i].pkg /\ e.status = "validated"
    BY <1>0, <1>1 DEF Import, Request
  <2>2. imports' = [imports EXCEPT ![i] = e] /\ reqs' = [reqs EXCEPT ![r] = Idle]
    BY <1>0, <1>1, <1>4 DEF FinishValidation, End
  <2> HIDE DEF e
  <2>3. Sound(reqs[r])'
    BY <1>0, <2>2 DEF Sound, Idle, Validating, Mirroring
  <2> QED
    BY <1>0, <1>4, <2>1, <2>2, <2>3, IdleIsRequest, ImportWritten
       DEF FinishValidation, Validating
<1> QED
  BY <1>2, <1>3, <1>4

(* create_staged_import: the new row is nobody else's. *)
LEMMA CreateStep ==
  ASSUME RoadInv, NEW r \in Requests, Create(r)
  PROVE  RoadInv'
<1>0. /\ reqs \in [Requests -> Request] /\ imports \in Seq(Import)
      /\ reqs[r].at = "create" /\ reqs[r] \in Request /\ Sound(reqs[r]) /\ faults \in Nat
  BY DEF RoadInv, RoadTypeOK, RequestsInv, Create, At
<1>1. CASE Known(reqs[r].pkg, reqs[r].key, reqs[r].parse)
  <2>1. locks' = Released(r)
    BY <1>0, NothingReleased DEF Create
  <2> QED
    BY <1>0, <1>1, <2>1, EndStep DEF Create
<1>2. CASE ~Known(reqs[r].pkg, reqs[r].key, reqs[r].parse)
  <2> DEFINE n == Len(imports) + 1
             e == NewImport(reqs[r].pkg, reqs[r].key)
             q == [reqs[r] EXCEPT !.at = "begin", !.id = n]
  <2>1. e \in Import /\ e.status = "staged"
    BY <1>0 DEF Sound, NewImport, Import
  <2>2. imports' = Append(imports, e) /\ reqs' = [reqs EXCEPT ![r] = q]
    BY <1>0, <1>2 DEF Create
  <2>3. n \in Nat
    BY <1>0
  <2>4. q \in Request /\ q.at = "begin" /\ q.id = n
    BY <1>0, <2>3 DEF Request, Stages
  <2> HIDE DEF e, q
  <2>5. /\ imports' \in Seq(Import) /\ DOMAIN imports' = DOMAIN imports \cup {n}
        /\ n \notin DOMAIN imports /\ imports'[n] = e
        /\ \A j \in DOMAIN imports : imports'[j] = imports[j]
    BY <1>0, <2>1, <2>2, RowAdded
  <2> HIDE DEF n
  <2>6. RoadTypeOK'
    BY <2>2, <2>4, <2>5 DEF RoadInv, RoadTypeOK, Create
  <2>7. ASSUME NEW s \in Requests PROVE Sound(reqs[s])'
    <3>1. CASE s = r
      <4>1. reqs'[s] = q
        BY <1>0, <2>2, <3>1
      <4> QED
        BY <2>1, <2>4, <2>5, <4>1 DEF Sound, Validating, Mirroring
    <3>2. CASE s # r
      <4>1. reqs'[s] = reqs[s] /\ Sound(reqs[s])
        BY <1>0, <2>2, <3>2 DEF RoadInv, RequestsInv
      <4> QED
        BY <2>5, <4>1 DEF Sound, Create
    <3> QED
      BY <3>1, <3>2
  <2>8. OneValidates'
    BY <1>0, <2>2, <2>4, <2>5 DEF RoadInv, RequestsInv, OneValidates, Sound
  <2>9. LocksInv'
    BY <1>0, <2>2, <2>4, LocksStay DEF Create
  <2>10. ChainInv'
    BY <2>1, <2>5 DEF RoadInv, ChainInv, VersionsAreOneChain, Create
  <2> QED
    BY <2>6, <2>7, <2>8, <2>9, <2>10, RestStays DEF RoadInv, RequestsInv, Create
<1> QED
  BY <1>1, <1>2

(* approve_import: the new version is the next of the chain. *)
LEMMA ApproveStep ==
  ASSUME RoadInv, NEW r \in Requests, Approve(r)
  PROVE  RoadInv'
<1> DEFINE i == reqs[r].id
<1>0. /\ reqs \in [Requests -> Request] /\ imports \in Seq(Import) /\ versions \in Seq(Version)
      /\ reqs[r].at = "approve" /\ reqs[r] \in Request /\ Sound(reqs[r]) /\ faults \in Nat
      /\ MirrorEnabled \in BOOLEAN
  BY RoadmapsAssumption DEF RoadInv, RoadTypeOK, RequestsInv, Approve, At
<1>1. /\ i \in DOMAIN imports /\ imports[i] \in Import /\ imports[i].parse = reqs[r].parse
      /\ i \in Nat
  BY <1>0 DEF Sound
<1>2. CASE imports[i].status # "validated" \/ KeyTaken(imports[i].pkg)
  <2>1. locks' = Released(r)
    BY <1>0, NothingReleased DEF Approve
  <2> QED
    BY <1>0, <1>2, <2>1, EndStep DEF Approve
<1>3. CASE imports[i].status = "validated" /\ ~KeyTaken(imports[i].pkg)
  <2> DEFINE n == Len(versions) + 1
             e == [imports[i] EXCEPT !.status = "imported"]
             w == NewVersion(i, reqs[r].parse)
             q == IF MirrorEnabled THEN [reqs[r] EXCEPT !.at = "begin_mirror", !.id = n] ELSE Idle
  <2>1. e \in Import /\ e.status = "imported" /\ e.pkg = imports[i].pkg
        /\ e.parse = imports[i].parse
    BY <1>1 DEF Import
  <2>2. n \in Nat /\ (versions = <<>> => n = 1) /\ (versions # <<>> => n - 1 \in DOMAIN versions)
    BY <1>0
  <2>3. w.number = n
    <3>1. versions # <<>> => versions[n - 1].number = n - 1 /\ Last(versions) = versions[n - 1]
      BY <1>0, <2>2 DEF RoadInv, ChainInv, VersionsAreOneChain, Last
    <3> QED
      BY <2>2, <3>1 DEF NewVersion
  <2>4. /\ w.import = i /\ w.pkg = imports[i].pkg /\ w.parse = imports[i].parse
        /\ w.state = "approved" /\ w.activated = 0 /\ w.mirror \in {"pending", "not_required"}
    BY <1>0, <1>1 DEF NewVersion
  <2>5. w \in Version
    <3>1. w = [import |-> i, pkg |-> imports[i].pkg, parse |-> reqs[r].parse, number |-> n,
               state |-> "approved", activated |-> 0, starts |-> 0,
               mirror |-> IF MirrorEnabled THEN "pending" ELSE "not_required", ref |-> 0]
      BY <2>3 DEF NewVersion
    <3>2. imports[i].pkg \in Packages /\ reqs[r].parse \in Nat
      BY <1>0, <1>1 DEF Import, Request
    <3> HIDE DEF w
    <3> QED
      BY <1>0, <1>1, <2>2, <3>1, <3>2 DEF Version
  <2>6. q \in Request /\ ~(q.at \in Validating) /\ q.at \in {"begin_mirror", "idle"}
        /\ (q.at = "begin_mirror" => q.id = n)
    BY <1>0, <2>2, IdleIsRequest DEF Request, Stages, Validating
  <2>7. /\ imports' = [imports EXCEPT ![i] = e] /\ versions' = Append(versions, w)
        /\ reqs' = [reqs EXCEPT ![r] = q]
    BY <1>0, <1>1, <1>3 DEF Approve, End
  <2>8. \A u \in DOMAIN versions : ProgramKey[versions[u].pkg] # ProgramKey[imports[i].pkg]
    BY <1>3 DEF KeyTaken
  <2> HIDE DEF e, q, w
  <2>9. /\ imports' \in Seq(Import) /\ DOMAIN imports' = DOMAIN imports /\ imports'[i] = e
        /\ \A j \in DOMAIN imports : j # i => imports'[j] = imports[j]
    BY <1>0, <1>1, <2>1, <2>7, RowWritten
  <2>10. /\ versions' \in Seq(Version) /\ DOMAIN versions' = DOMAIN versions \cup {n}
         /\ n \notin DOMAIN versions /\ versions'[n] = w
         /\ \A v \in DOMAIN versions : versions'[v] = versions[v]
    BY <1>0, <2>5, <2>7, RowAdded
  <2> HIDE DEF n, i
  <2>11. RoadTypeOK'
    BY <2>6, <2>7, <2>9, <2>10 DEF RoadInv, RoadTypeOK, Approve
  <2>12. ASSUME NEW s \in Requests PROVE Sound(reqs[s])'
    <3>1. CASE s = r
      <4>1. reqs'[s] = q
        BY <1>0, <2>7, <3>1
      <4> QED
        BY <2>6, <2>10, <4>1 DEF Sound, Validating, Mirroring
    <3>2. CASE s # r
      <4>1. reqs'[s] = reqs[s] /\ Sound(reqs[s])
        BY <1>0, <2>7, <3>2 DEF RoadInv, RequestsInv
      <4> QED
        BY <1>3, <2>1, <2>9, <2>10, <4>1 DEF Sound, Approve, Mirroring
    <3> QED
      BY <3>1, <3>2
  <2>13. OneValidates'
    BY <1>0, <2>6, <2>7 DEF RoadInv, RequestsInv, OneValidates
  <2>14. LocksInv'
    BY <1>0, <2>6, <2>7, LocksStay DEF Approve
  <2>15. ChainInv'
    <3>1. \A v \in DOMAIN versions : versions[v].import # i
      BY <1>1, <1>3 DEF RoadInv, ChainInv, VersionsAreOneChain
    <3>2. \A v \in DOMAIN versions' : /\ versions'[v].number = v
                                      /\ versions'[v].import \in DOMAIN imports'
                                      /\ versions'[v].parse = imports'[versions'[v].import].parse
                                      /\ versions'[v].pkg = imports'[versions'[v].import].pkg
      BY <1>1, <2>1, <2>3, <2>4, <2>9, <2>10, <3>1 DEF RoadInv, ChainInv, VersionsAreOneChain
    <3>3. \A v, u \in DOMAIN versions' :
            (ProgramKey[versions'[v].pkg] = ProgramKey[versions'[u].pkg]
               \/ versions'[v].import = versions'[u].import) => v = u
      BY <2>4, <2>8, <2>10, <3>1 DEF RoadInv, ChainInv, VersionsAreOneChain
    <3>4. \A j \in DOMAIN imports' : imports'[j].status = "imported"
            <=> \E v \in DOMAIN versions' : versions'[v].import = j
      BY <1>1, <2>1, <2>4, <2>9, <2>10, <3>1 DEF RoadInv, ChainInv, VersionsAreOneChain
    <3> QED
      BY <3>2, <3>3, <3>4 DEF ChainInv, VersionsAreOneChain
  <2>16. BranchInv'
    BY <2>4, <2>10 DEF RoadInv, BranchInv, Approve
  <2>17. ActiveInv'
    <3>1. ActiveIsSelected'
      BY <2>4, <2>10 DEF RoadInv, ActiveInv, ActiveIsSelected, Approve
    <3>2. DaysFollowActivation'
      BY <2>10 DEF RoadInv, ActiveInv, DaysFollowActivation, Approve
    <3>3. \A v \in DOMAIN versions : versions[v].activated \in Nat
      <4>1. \A v \in DOMAIN versions : versions[v] \in Version
        BY <1>0, Rows
      <4> QED
        BY <4>1 DEF Version
    <3> QED
      BY <2>4, <2>10, <3>1, <3>2, <3>3 DEF RoadInv, ActiveInv, Approve
  <2> QED
    BY <2>11, <2>12, <2>13, <2>14, <2>15, <2>16, <2>17 DEF RoadInv, RequestsInv
<1> QED
  BY <1>2, <1>3

-----------------------------------------------------------------------------
(* The mirror.  begin_mirror, finish_mirror and fail_mirror write the mirror columns. *)
LEMMA MirrorWritten ==
  ASSUME RoadInv, NEW r \in Requests, NEW q \in Request, NEW e \in Version,
         reqs[r].at \in Mirroring, reqs' = [reqs EXCEPT ![r] = q],
         versions' = [versions EXCEPT ![reqs[r].id] = e],
         \E m, n : e = [versions[reqs[r].id] EXCEPT !.mirror = m, !.ref = n],
         e.mirror = "synced" => e.ref \in DOMAIN branch /\ reqs[r].id \in branch[e.ref],
         q.at \in {"idle", "read"}, q.at = "read" => q.id = reqs[r].id,
         UNCHANGED <<parser, imports, setting, days, branch, locks, faults>>
  PROVE  RoadInv'
<1> DEFINE i == reqs[r].id
<1>0. /\ reqs \in [Requests -> Request] /\ versions \in Seq(Version)
      /\ i \in DOMAIN versions /\ versions[i] \in Version
  BY DEF RoadInv, RoadTypeOK, RequestsInv, Sound
<1>1. /\ versions' \in Seq(Version) /\ DOMAIN versions' = DOMAIN versions
      /\ \A v \in DOMAIN versions : v # i => versions'[v] = versions[v]
      /\ versions'[i] = e
  BY <1>0, RowWritten
<1>2. /\ e.import = versions[i].import /\ e.pkg = versions[i].pkg /\ e.parse = versions[i].parse
      /\ e.number = versions[i].number /\ e.state = versions[i].state
      /\ e.activated = versions[i].activated /\ e.starts = versions[i].starts
  BY <1>0 DEF Version
<1>3. \A v \in DOMAIN versions :
        /\ versions'[v].import = versions[v].import /\ versions'[v].pkg = versions[v].pkg
        /\ versions'[v].parse = versions[v].parse /\ versions'[v].number = versions[v].number
        /\ versions'[v].state = versions[v].state /\ versions'[v].starts = versions[v].starts
        /\ versions'[v].activated = versions[v].activated
  BY <1>1, <1>2
<1>4. RoadTypeOK'
  BY <1>1 DEF RoadInv, RoadTypeOK
<1>5. ASSUME NEW s \in Requests PROVE Sound(reqs[s])'
  <2>1. CASE s = r
    <3>1. reqs'[s] = q
      BY <1>0, <2>1
    <3> QED
      BY <1>0, <1>1, <3>1 DEF Sound, Validating, Mirroring
  <2>2. CASE s # r
    <3>1. reqs'[s] = reqs[s] /\ Sound(reqs[s])
      BY <1>0, <2>2 DEF RoadInv, RequestsInv
    <3> QED
      BY <1>1, <1>3, <3>1 DEF Sound
  <2> QED
    BY <2>1, <2>2
<1>6. OneValidates'
  BY <1>0 DEF RoadInv, RequestsInv, OneValidates, Validating
<1>7. LocksInv'
  BY LocksStay DEF Mirroring
<1>8. ChainInv'
  <2>0. VersionsAreOneChain /\ ChainInv /\ imports' = imports /\ DOMAIN versions' = DOMAIN versions
    BY <1>1 DEF RoadInv, ChainInv
  <2>1. \A v \in DOMAIN versions' :
          /\ versions'[v].import \in DOMAIN imports
          /\ versions'[v].pkg = imports[versions'[v].import].pkg
          /\ versions'[v].number = v
          /\ versions'[v].parse = imports[versions'[v].import].parse
    BY <1>3, <2>0 DEF ChainInv, VersionsAreOneChain
  <2>2. \A v, u \in DOMAIN versions' :
          (ProgramKey[versions'[v].pkg] = ProgramKey[versions'[u].pkg]
             \/ versions'[v].import = versions'[u].import) => v = u
    BY <1>3, <2>0 DEF VersionsAreOneChain
  <2>3. \A k \in DOMAIN imports : imports[k].status = "imported"
          <=> \E v \in DOMAIN versions' : versions'[v].import = k
    BY <1>3, <2>0 DEF VersionsAreOneChain
  <2>4. VersionsAreOneChain'
    BY <2>1, <2>2, <2>3 DEF VersionsAreOneChain
  <2> QED
    BY <2>1, <2>4 DEF ChainInv
<1>9. BranchInv'
  BY <1>1 DEF RoadInv, BranchInv
<1>10. ActiveInv'
  <2>1. ActiveIsSelected'
    BY <1>1, <1>3 DEF RoadInv, ActiveInv, ActiveIsSelected
  <2>2. DaysFollowActivation'
    BY <1>1, <1>3 DEF RoadInv, ActiveInv, DaysFollowActivation
  <2> QED
    BY <1>1, <1>3, <2>1, <2>2 DEF RoadInv, ActiveInv
<1> QED
  BY <1>4, <1>5, <1>6, <1>7, <1>8, <1>9, <1>10 DEF RoadInv, RequestsInv

LEMMA MirrorSteps ==
  ASSUME RoadInv, NEW r \in Requests,
         BeginMirror(r) \/ FinishMirror(r) \/ FailMirror(r)
  PROVE  RoadInv'
<1> DEFINE i == reqs[r].id
<1>0. /\ reqs \in [Requests -> Request] /\ versions \in Seq(Version) /\ faults \in Nat
      /\ reqs[r].at \in Mirroring /\ reqs[r] \in Request /\ Sound(reqs[r])
  BY DEF RoadInv, RoadTypeOK, RequestsInv, BeginMirror, FinishMirror, FailMirror, At, Mirroring
<1>1. i \in DOMAIN versions /\ versions[i] \in Version
  BY <1>0 DEF Sound
<1>2. UNCHANGED <<parser, imports, setting, days, branch, locks, faults>>
  BY DEF BeginMirror, FinishMirror, FailMirror, SetMirror
<1>3. CASE End(r) /\ UNCHANGED versions
  <2>1. locks' = Released(r)
    BY <1>0, <1>2, NothingReleased DEF Mirroring
  <2> QED
    BY <1>0, <1>2, <1>3, <2>1, EndStep
<1>4. ASSUME NEW m, NEW n \in Nat, m \in {"syncing", "synced", "failed"},
             versions' = [versions EXCEPT ![i].mirror = m, ![i].ref = n],
             m = "synced" => n \in DOMAIN branch /\ i \in branch[n],
             Goto(r, "read") \/ End(r)
      PROVE  RoadInv'
  <2> DEFINE e == [versions[i] EXCEPT !.mirror = m, !.ref = n]
  <2>1. e \in Version /\ e.mirror = m /\ e.ref = n
    BY <1>1, <1>4 DEF Version
  <2>2. versions' = [versions EXCEPT ![i] = e]
    BY <1>0, <1>1, <1>4
  <2>3. PICK q \in Request : /\ reqs' = [reqs EXCEPT ![r] = q] /\ q.at \in {"idle", "read"}
                             /\ q.at = "read" => q.id = i
    <3>1. CASE Goto(r, "read")
      <4> DEFINE q == [reqs[r] EXCEPT !.at = "read"]
      <4>1. q \in Request /\ q.at = "read" /\ q.id = i /\ reqs' = [reqs EXCEPT ![r] = q]
        BY <1>0, <3>1 DEF Goto, Request, Stages
      <4> QED
        BY <4>1
    <3>2. CASE End(r)
      BY <3>2, IdleIsRequest DEF End
    <3> QED
      BY <1>4, <3>1, <3>2
  <2>4. \E x, y : e = [versions[i] EXCEPT !.mirror = x, !.ref = y]
    OBVIOUS
  <2> HIDE DEF e
  <2> QED
    BY <1>0, <1>2, <1>4, <2>1, <2>2, <2>3, <2>4, MirrorWritten
<1>5. CASE BeginMirror(r)
  BY <1>3, <1>4, <1>5 DEF BeginMirror, SetMirror
<1>6. CASE FailMirror(r)
  BY <1>3, <1>4, <1>6 DEF FailMirror, SetMirror
<1>7. CASE FinishMirror(r)
  <2>1. reqs[r].seen \in Nat /\ reqs[r].seen \in DOMAIN branch /\ i \in branch[reqs[r].seen]
    BY <1>0, <1>7 DEF FinishMirror, At, Sound, Request
  <2> QED
    BY <1>3, <1>4, <1>7, <2>1 DEF FinishMirror, SetMirror
<1> QED
  BY <1>5, <1>6, <1>7

(* update_branch without force: a commit that is taken follows the head. *)
LEMMA PushStep ==
  ASSUME RoadInv, NEW r \in Requests, Push(r)
  PROVE  RoadInv'
<1> DEFINE i == reqs[r].id
<1>0. /\ reqs \in [Requests -> Request] /\ branch \in Seq(SUBSET Nat) /\ faults \in Nat
      /\ reqs[r].at = "push" /\ reqs[r] \in Request /\ Sound(reqs[r]) /\ parser \in Nat \ {0}
      /\ locks \in [versions : SUBSET Requests, setting : SUBSET Requests]
  BY DEF RoadInv, RoadTypeOK, RequestsInv, Push, At
<1>1. faults' \in Nat /\ UNCHANGED <<parser, imports, versions, setting, days, locks>>
  BY <1>0 DEF Push, Fault
<1>2. PICK q \in Request :
        /\ reqs' = [reqs EXCEPT ![r] = q] /\ q.id = i
        /\ \/ q.at = "fail_mirror"
           \/ q.at = "finish_mirror" /\ q.seen = Len(branch) + 1 /\ branch' # branch
  <2>1. CASE Goto(r, "fail_mirror")
    <3> DEFINE q == [reqs[r] EXCEPT !.at = "fail_mirror"]
    <3>1. q \in Request /\ q.at = "fail_mirror" /\ q.id = i /\ reqs' = [reqs EXCEPT ![r] = q]
      BY <1>0, <2>1 DEF Goto, Request, Stages
    <3> QED
      BY <3>1
  <2>2. CASE /\ reqs' = [reqs EXCEPT ![r].at = "finish_mirror", ![r].seen = Len(branch) + 1]
             /\ \E b : branch' = Append(branch, b)
    <3> DEFINE q == [reqs[r] EXCEPT !.at = "finish_mirror", !.seen = Len(branch) + 1]
    <3>1. Len(branch) + 1 \in Nat /\ branch' # branch
      BY <1>0, <2>2
    <3>2. q \in Request /\ q.at = "finish_mirror" /\ q.id = i /\ q.seen = Len(branch) + 1
      BY <1>0, <3>1 DEF Request, Stages
    <3>3. reqs' = [reqs EXCEPT ![r] = q]
      BY <1>0, <2>2
    <3> QED
      BY <3>1, <3>2, <3>3
  <2> QED
    BY <2>1, <2>2 DEF Push
<1>3. i \in DOMAIN versions /\ i \in Nat
  BY <1>0 DEF Sound, Mirroring, Request
<1>4. LocksInv'
  BY <1>0, <1>1, <1>2, LocksStay
<1>5. CASE UNCHANGED branch
  <2>1. Sound(q)
    BY <1>2, <1>3, <1>5 DEF Sound, Validating, Mirroring
  <2> QED
    BY <1>0, <1>1, <1>2, <1>4, <1>5, <2>1, Moves DEF Validating
<1>6. CASE /\ reqs[r].seen = Len(branch)
           /\ branch' = Append(branch, (IF reqs[r].seen = 0 THEN {} ELSE branch[reqs[r].seen])
                                         \cup {i})
  <2> DEFINE n == Len(branch) + 1
             b == (IF reqs[r].seen = 0 THEN {} ELSE branch[reqs[r].seen]) \cup {i}
  <2>1. b \in SUBSET Nat /\ n \in Nat
        /\ \A c \in DOMAIN branch : Len(branch) \in DOMAIN branch /\ c <= Len(branch) /\ c # n
    BY <1>0, <1>3, <1>6
  <2>2. \A c \in DOMAIN branch : branch[c] \subseteq b
    BY <1>0, <1>6, <2>1 DEF RoadInv, BranchInv
  <2>3. i \in b
    OBVIOUS
  <2> HIDE DEF b
  <2>4. /\ branch' \in Seq(SUBSET Nat) /\ DOMAIN branch' = DOMAIN branch \cup {n}
        /\ n \notin DOMAIN branch /\ branch'[n] = b
        /\ \A c \in DOMAIN branch : branch'[c] = branch[c]
    BY <1>0, <1>6, <2>1, RowAdded DEF b
  <2>5. \A c \in DOMAIN branch : c \in Nat /\ c < n
    BY <1>0, <2>1
  <2> HIDE DEF n
  <2>6. RoadTypeOK'
    BY <1>1, <1>2, <2>4 DEF RoadInv, RoadTypeOK
  <2>7. ASSUME NEW s \in Requests PROVE Sound(reqs[s])'
    <3>1. CASE s = r
      <4>1. reqs'[s] = q
        BY <1>0, <1>2, <3>1
      <4> QED
        BY <1>1, <1>2, <1>3, <2>3, <2>4, <4>1 DEF Sound, Validating, Mirroring, n
    <3>2. CASE s # r
      <4>1. reqs'[s] = reqs[s] /\ Sound(reqs[s])
        BY <1>0, <1>2, <3>2 DEF RoadInv, RequestsInv
      <4> QED
        BY <1>1, <2>4, <4>1 DEF Sound
    <3> QED
      BY <3>1, <3>2
  <2>8. OneValidates'
    BY <1>0, <1>2 DEF RoadInv, RequestsInv, OneValidates, Validating
  <2>9. ChainInv'
    BY <1>1 DEF RoadInv, ChainInv, VersionsAreOneChain
  <2>10. BranchInv'
    BY <1>1, <2>1, <2>2, <2>4, <2>5 DEF RoadInv, BranchInv
  <2>11. ActiveInv'
    BY <1>1 DEF RoadInv, ActiveInv, ActiveIsSelected, DaysFollowActivation
  <2> QED
    BY <1>4, <2>6, <2>7, <2>8, <2>9, <2>10, <2>11 DEF RoadInv, RequestsInv
<1> QED
  BY <1>5, <1>6 DEF Push

-----------------------------------------------------------------------------
(* Activation.  first_open_study_date: the first date that is not a rest day, from the *)
(* learner's date on and after every day that is planned.                              *)
LEMMA FirstOpenIsLater ==
  ASSUME RoadInv, NEW local \in Dates, NEW p \in Packages
  PROVE  /\ FirstOpen(local, Rest[p]) \in Nat \ {0}
         /\ \A d \in Dates : days[d] # 0 => d < FirstOpen(local, Rest[p])
<1> USE RoadmapsAssumption
<1> DEFINE N == {local} \cup {d + 1 : d \in {d \in Dates : days[d] # 0}}
           c == Max(N)
           F == {d \in c .. (MaxDate + 1) : d \notin Rest[p]}
<1>1. N \subseteq Nat /\ N # {} /\ \A x \in N : x <= MaxDate + 1 /\ x >= 1
  BY DEF Dates
<1>2. MaxDate + 1 \in Nat /\ MaxDate + 1 \notin Rest[p]
  BY DEF Dates
<1>3. c \in N /\ \A x \in N : x <= c
  <2> HIDE DEF N
  <2> QED
    BY <1>1, <1>2, MaxIsGreatest
<1>4. \A d \in Dates : days[d] # 0 => d + 1 <= c
  BY <1>3
<1>5. c \in Nat /\ c >= 1 /\ c <= MaxDate + 1
  <2> HIDE DEF c, N
  <2> QED
    BY <1>1, <1>3
<1> HIDE DEF c
<1>6. F \subseteq Nat /\ F # {} /\ \A x \in F : x >= c
  BY <1>2, <1>5
<1>7. Min(F) \in F
  <2> HIDE DEF F
  <2> QED
    BY <1>6, MinIsLeast
<1>8. FirstOpen(local, Rest[p]) = Min(F)
  BY DEF FirstOpen, c
<1>9. Min(F) \in Nat /\ Min(F) >= c
  <2> HIDE DEF F
  <2> QED
    BY <1>6, <1>7
<1> HIDE DEF F
<1> QED
  BY <1>4, <1>5, <1>8, <1>9 DEF Dates

(* activate_version: the next activation is later than every one before it. *)
LEMMA ActivationsIsLatest ==
  ASSUME RoadInv, NEW v \in DOMAIN versions
  PROVE  /\ Activations \in Nat
         /\ \A u \in DOMAIN versions : versions[u].activated <= Activations
<1>1. \A u \in DOMAIN versions : versions[u].activated \in Nat
  <2>1. \A u \in DOMAIN versions : versions[u] \in Version
    BY Rows DEF RoadInv, RoadTypeOK
  <2> QED
    BY <2>1 DEF Version
<1> DEFINE N == {versions[u].activated : u \in DOMAIN versions}
<1>2. PICK n \in Nat : \A x \in N : x <= n
  <2>1. CASE setting.active = 0
    BY <1>1, <2>1 DEF RoadInv, ActiveInv
  <2>2. CASE setting.active # 0
    BY <1>1, <2>2 DEF RoadInv, ActiveInv
  <2> QED
    BY <2>1, <2>2
<1>3. N \subseteq Nat /\ N # {}
  BY <1>1
<1>4. Max(N) \in N /\ \A x \in N : x <= Max(N)
  <2> HIDE DEF N
  <2> QED
    BY <1>2, <1>3, MaxIsGreatest
<1> QED
  BY <1>1, <1>4 DEF Activations

LEMMA ActivateStep ==
  ASSUME RoadInv, NEW r \in Requests, Activate(r)
  PROVE  RoadInv'
<1> DEFINE v == reqs[r].id
           active == {u \in 1 .. reqs[r].seen : versions[u].state = "active"}
           second == \E u \in DOMAIN versions \ active : versions[u].state = "active"
<1>0. /\ reqs \in [Requests -> Request] /\ versions \in Seq(Version) /\ faults \in Nat
      /\ reqs[r].at = "activate" /\ reqs[r] \in Request /\ Sound(reqs[r])
      /\ locks \in [versions : SUBSET Requests, setting : SUBSET Requests]
      /\ setting \in [active : Nat, start : Nat]
  BY DEF RoadInv, RoadTypeOK, RequestsInv, Activate, At
<1>1. /\ v \in DOMAIN versions /\ versions[v].state = "approved" /\ v \in Nat \ {0}
      /\ \A u \in DOMAIN versions : versions[u] \in Version
  BY <1>0, Rows DEF Sound
<1>2. /\ UNCHANGED <<parser, imports, days, branch, faults>>
      /\ reqs' = [reqs EXCEPT ![r] = Idle]
      /\ locks' = [versions |-> {}, setting |-> locks.setting]
  BY <1>0 DEF Activate, End
<1>3. \A s \in Requests : reqs[s].at = "activate" => s = r
  BY <1>0 DEF RoadInv, RequestsInv, LocksInv
<1>4. CASE UNCHANGED <<versions, setting>>
  <2>1. locks.versions = {r} /\ r \notin locks.setting
    BY <1>0 DEF RoadInv, RequestsInv, LocksInv
  <2>2. locks' = Released(r)
    <3>1. Released(r) = [versions |-> locks.versions \ {r}, setting |-> locks.setting \ {r}]
      BY ReleasedLocks
    <3>2. locks.versions \ {r} = {} /\ locks.setting \ {r} = locks.setting
      BY <2>1
    <3> QED
      BY <1>2, <3>1, <3>2
  <2> QED
    BY <1>0, <1>2, <1>4, <2>2, EndStep DEF End
<1>5. ASSUME NEW local \in Dates, ~second,
             versions' = [u \in DOMAIN versions |->
                  IF u = v
                  THEN [versions[u] EXCEPT !.state = "active", !.activated = Activations + 1,
                            !.starts = IF setting.active = 0 THEN 0
                                       ELSE FirstOpen(local, Rest[versions[v].pkg])]
                  ELSE IF u \in active THEN [versions[u] EXCEPT !.state = "superseded"]
                  ELSE versions[u]],
             setting' = [active |-> v,
                         start  |-> IF setting.active = 0 THEN local ELSE setting.start]
      PROVE  RoadInv'
  <2> DEFINE a  == Activations + 1
             st == IF setting.active = 0 THEN 0 ELSE FirstOpen(local, Rest[versions[v].pkg])
  <2>1. /\ a \in Nat /\ a # 0
        /\ \A u \in DOMAIN versions : versions[u].activated \in Nat /\ versions[u].activated < a
    <3>1. \A u \in DOMAIN versions : versions[u].activated \in Nat
      BY <1>1 DEF Version
    <3> QED
      BY <1>1, <3>1, ActivationsIsLatest
  <2>2. st \in Nat /\ \A d \in Dates : days[d] # 0 => d < st
    <3>1. versions[v].pkg \in Packages
      BY <1>1 DEF Version
    <3>2. setting.active = 0 => \A d \in Dates : days[d] = 0
      BY DEF RoadInv, ActiveInv
    <3> QED
      BY <3>1, <3>2, FirstOpenIsLater
  <2> HIDE DEF a, st
  <2>3. \A u \in DOMAIN versions : u \in active <=> versions[u].state = "active"
    BY <1>5
  <2>4. /\ DOMAIN versions' = DOMAIN versions
        /\ versions'[v] = [versions[v] EXCEPT !.state = "active", !.activated = a, !.starts = st]
        /\ \A u \in DOMAIN versions : u # v =>
             versions'[u] = IF versions[u].state = "active"
                            THEN [versions[u] EXCEPT !.state = "superseded"] ELSE versions[u]
    BY <1>1, <1>5, <2>3 DEF a, st
  <2> HIDE DEF active, second
  <2>5. \A u \in DOMAIN versions :
          /\ versions'[u] \in Version
          /\ versions'[u].import = versions[u].import /\ versions'[u].pkg = versions[u].pkg
          /\ versions'[u].parse = versions[u].parse /\ versions'[u].number = versions[u].number
          /\ versions'[u].mirror = versions[u].mirror /\ versions'[u].ref = versions[u].ref
          /\ u # v => versions'[u].activated = versions[u].activated
    <3>1. ASSUME NEW u \in DOMAIN versions
          PROVE  /\ versions'[u] \in Version
                 /\ versions'[u].import = versions[u].import
                 /\ versions'[u].pkg = versions[u].pkg
                 /\ versions'[u].parse = versions[u].parse
                 /\ versions'[u].number = versions[u].number
                 /\ versions'[u].mirror = versions[u].mirror
                 /\ versions'[u].ref = versions[u].ref
                 /\ u # v => versions'[u].activated = versions[u].activated
      <4>1. versions[u] \in Version
        BY <1>1
      <4>2. CASE u = v
        BY <2>1, <2>2, <2>4, <4>1, <4>2 DEF Version
      <4>3. CASE u # v
        BY <2>4, <4>1, <4>3 DEF Version
      <4> QED
        BY <4>2, <4>3
    <3> QED
      BY <3>1
  <2>6. /\ versions'[v].state = "active" /\ versions'[v].activated = a
        /\ versions'[v].starts = st
    BY <1>1, <2>4 DEF Version
  <2>7. \A u \in DOMAIN versions : u # v =>
          /\ versions'[u].state # "active"
          /\ versions'[u].state = "approved" <=> versions[u].state = "approved"
    BY <1>1, <2>4 DEF Version
  <2>8. RoadTypeOK'
    <3>1. versions' \in Seq(Version)
      <4>1. Len(versions) \in Nat /\ DOMAIN versions = 1 .. Len(versions)
        BY <1>0, Rows
      <4>2. versions' \in [1 .. Len(versions) -> Version]
        BY <1>5, <2>5, <4>1, ZenonT(30)
      <4> QED
        BY <4>1, <4>2, SeqDef
    <3>2. setting' \in [active : Nat, start : Nat]
      <4>1. local \in Nat
        BY RoadmapsAssumption DEF Dates
      <4> QED
        BY <1>0, <1>1, <1>5, <4>1
    <3>3. locks' \in [versions : SUBSET Requests, setting : SUBSET Requests]
      BY <1>0, <1>2
    <3> QED
      BY <1>0, <1>2, <3>1, <3>2, <3>3, IdleIsRequest DEF RoadInv, RoadTypeOK
  <2>9. ASSUME NEW s \in Requests PROVE Sound(reqs[s])'
    <3>1. CASE s = r
      BY <1>0, <1>2, <3>1 DEF Sound, Idle, Validating, Mirroring
    <3>2. CASE s # r
      <4>1. reqs'[s] = reqs[s] /\ Sound(reqs[s]) /\ reqs[s].at # "activate"
        BY <1>0, <1>2, <1>3, <3>2 DEF RoadInv, RequestsInv
      <4> QED
        BY <1>1, <1>2, <1>5, <2>4, <4>1 DEF Sound
    <3> QED
      BY <3>1, <3>2
  <2>10. OneValidates'
    BY <1>0, <1>2, IdleIsRequest DEF RoadInv, RequestsInv, OneValidates, Validating
  <2>11. LocksInv'
    BY <1>0, <1>2, <1>3, IdleIsRequest DEF RoadInv, RequestsInv, LocksInv
  <2>12. ChainInv'
    BY <1>2, <2>4, <2>5 DEF RoadInv, ChainInv, VersionsAreOneChain
  <2>13. BranchInv'
    BY <1>2, <2>4, <2>5 DEF RoadInv, BranchInv
  <2>14. ActiveInv'
    <3>0. setting'.active = v /\ v # 0
      BY <1>1, <1>5
    <3>1. \A d \in Dates : days[d] # 0 => days[d] \in DOMAIN versions /\ days[d] # v
      BY <1>1 DEF RoadInv, ActiveInv
    <3> HIDE DEF v
    <3>2. ActiveIsSelected'
      <4>1. {u \in DOMAIN versions' : versions'[u].state = "active"} = {v}
        BY <1>1, <2>4, <2>6, <2>7
      <4> QED
        BY <3>0, <4>1 DEF ActiveIsSelected
    <3>3. DaysFollowActivation'
      BY <1>2, <2>5, <3>1 DEF RoadInv, ActiveInv, DaysFollowActivation
    <3>4. \A u \in DOMAIN versions : versions'[u].activated <= a
      BY <2>1, <2>5, <2>6
    <3>5. \A u \in DOMAIN versions' :
            versions'[u].activated = 0 <=> versions'[u].state = "approved"
      <4>1. ASSUME NEW u \in DOMAIN versions, u # v
            PROVE  versions'[u].activated = 0 <=> versions'[u].state = "approved"
        BY <2>5, <2>7, <4>1 DEF RoadInv, ActiveInv
      <4>2. versions'[v].activated # 0 /\ versions'[v].state # "approved"
        BY <2>1, <2>6
      <4> QED
        BY <2>4, <4>1, <4>2
    <3>6. \A d \in Dates : days[d] # 0 => versions'[days[d]].state # "approved"
      BY <2>7, <3>1 DEF RoadInv, ActiveInv
    <3> QED
      BY <1>1, <1>2, <2>2, <2>4, <2>6, <3>0, <3>1, <3>2, <3>3, <3>4, <3>5, <3>6 DEF ActiveInv
  <2> QED
    BY <2>8, <2>9, <2>10, <2>11, <2>12, <2>13, <2>14 DEF RoadInv, RequestsInv
<1> HIDE DEF v
<1> QED
  BY <1>4, <1>5 DEF Activate, v

(* ensure_current_day: a date that is planned is the active version's, and no date of   *)
(* another version lies after it.                                                       *)
LEMMA PlanStep ==
  ASSUME RoadInv, NEW r \in Requests, Plan(r)
  PROVE  RoadInv'
<1> DEFINE d == reqs[r].id
           v == setting.active
<1>0. /\ reqs \in [Requests -> Request] /\ versions \in Seq(Version) /\ faults \in Nat
      /\ reqs[r].at = "plan" /\ reqs[r] \in Request /\ Sound(reqs[r])
      /\ locks \in [versions : SUBSET Requests, setting : SUBSET Requests]
      /\ days \in [Dates -> Nat] /\ setting \in [active : Nat, start : Nat]
  BY DEF RoadInv, RoadTypeOK, RequestsInv, Plan, At
<1>1. v # 0 /\ v \in Nat /\ d \in Dates /\ v \in DOMAIN versions
  BY <1>0 DEF Sound, RoadInv, ActiveInv
<1>2. /\ UNCHANGED <<parser, imports, versions, setting, branch, faults>>
      /\ reqs' = [reqs EXCEPT ![r] = Idle]
      /\ locks' = [versions |-> locks.versions, setting |-> {}]
  BY <1>0 DEF Plan, End
<1>3. locks.setting = {r} /\ r \notin locks.versions
  BY <1>0 DEF RoadInv, RequestsInv, LocksInv
<1>4. CASE UNCHANGED days
  <2>1. locks' = Released(r)
    <3>1. Released(r) = [versions |-> locks.versions \ {r}, setting |-> locks.setting \ {r}]
      BY ReleasedLocks
    <3>2. locks.versions \ {r} = locks.versions /\ locks.setting \ {r} = {}
      BY <1>3
    <3> QED
      BY <1>2, <3>1, <3>2
  <2> QED
    BY <1>0, <1>2, <1>4, <2>1, EndStep DEF End
<1>5. CASE Plannable(d) /\ days' = [days EXCEPT ![d] = v]
  <2>1. RoadTypeOK'
    BY <1>0, <1>1, <1>2, <1>5, IdleIsRequest DEF RoadInv, RoadTypeOK
  <2>2. ASSUME NEW s \in Requests PROVE Sound(reqs[s])'
    <3>1. CASE s = r
      BY <1>0, <1>2, <3>1 DEF Sound, Idle, Validating, Mirroring
    <3>2. CASE s # r
      <4>1. reqs'[s] = reqs[s] /\ Sound(reqs[s])
        BY <1>0, <1>2, <3>2 DEF RoadInv, RequestsInv
      <4> QED
        BY <1>2, <4>1 DEF Sound
    <3> QED
      BY <3>1, <3>2
  <2>3. OneValidates'
    BY <1>0, <1>2, IdleIsRequest DEF RoadInv, RequestsInv, OneValidates, Validating
  <2>4. LocksInv'
    BY <1>0, <1>2, <1>3, IdleIsRequest DEF RoadInv, RequestsInv, LocksInv
  <2>5. ChainInv' /\ BranchInv'
    BY <1>2 DEF RoadInv, ChainInv, VersionsAreOneChain, BranchInv
  <2>6. ActiveInv'
    <3>1. ActiveIsSelected'
      BY <1>2 DEF RoadInv, ActiveInv, ActiveIsSelected
    <3>2. \A e \in Dates : days'[e] = IF e = d THEN v ELSE days[e]
      BY <1>0, <1>5
    <3>3. \A e \in Dates : d < e /\ days[e] # 0 => days[e] = v
      <4>1. \A u \in DOMAIN versions : versions[u].starts \in Nat
        <5>1. \A u \in DOMAIN versions : versions[u] \in Version
          BY <1>0, Rows
        <5> QED
          BY <5>1 DEF Version
      <4>2. \A e \in Dates : e \in Nat
        BY RoadmapsAssumption DEF Dates
      <4>3. \A e \in Dates : days[e] # 0 /\ days[e] # v => e < versions[v].starts
        BY <1>1 DEF RoadInv, ActiveInv
      <4>4. versions[v].starts # 0 => d >= versions[v].starts
        BY <1>5 DEF Plannable, Anchor
      <4> QED
        BY <1>1, <4>1, <4>2, <4>3, <4>4
    <3>4. \A u \in DOMAIN versions : versions[u].activated <= versions[v].activated
      BY <1>1 DEF RoadInv, ActiveInv
    <3>5. versions[v].activated <= versions[v].activated
      BY <1>1, <3>4
    <3>6. \A e \in Dates : days[e] # 0 => days[e] \in DOMAIN versions
      BY DEF RoadInv, ActiveInv
    <3>7. DaysFollowActivation'
      BY <1>1, <1>2, <3>2, <3>3, <3>4, <3>5, <3>6 DEF RoadInv, ActiveInv, DaysFollowActivation
    <3>8. versions[v].state # "approved"
      BY <1>1 DEF RoadInv, ActiveInv, ActiveIsSelected
    <3> QED
      BY <1>1, <1>2, <3>1, <3>2, <3>7, <3>8 DEF RoadInv, ActiveInv
  <2> QED
    BY <2>1, <2>2, <2>3, <2>4, <2>5, <2>6 DEF RoadInv, RequestsInv
<1> QED
  BY <1>4, <1>5 DEF Plan

-----------------------------------------------------------------------------
(* Every step keeps the invariant. *)
LEMMA RoadInductive ==
  ASSUME RoadInv, [Next]_vars
  PROVE  RoadInv'
<1>1. CASE UNCHANGED vars
  <2> USE <1>1 DEF vars
  <2>1. RoadTypeOK' /\ RequestsInv'
    BY DEF RoadInv, RoadTypeOK, RequestsInv, Sound, OneValidates, LocksInv
  <2>2. ChainInv'
    BY DEF RoadInv, ChainInv, VersionsAreOneChain
  <2> QED
    BY <2>1, <2>2, RestStays DEF RoadInv
<1>2. CASE Deploy
  BY <1>2, DeployStep
<1>3. ASSUME NEW r \in Requests, Step(r) PROVE RoadInv'
  BY <1>3, CreateStep, ValidationSteps, ReadSteps, ApproveStep, MirrorSteps, PushStep,
     LockSteps, ActivateStep, PlanStep, FaultSteps DEF Step
<1>4. ASSUME NEW r \in Requests, Die(r) PROVE RoadInv'
  BY <1>4, FaultSteps
<1>5. ASSUME NEW r \in Requests, NEW p \in Packages, NEW k \in IdKeys, StageFind(r, p, k)
      PROVE  RoadInv'
  BY <1>5, ReadSteps
<1>6. ASSUME NEW r \in Requests, NEW i \in DOMAIN imports, ApproveRead(r, i) PROVE RoadInv'
  BY <1>6, ReadSteps
<1>7. ASSUME NEW r \in Requests, NEW v \in DOMAIN versions,
             RetryMirror(r, v) \/ ActivateBegin(r, v)
      PROVE  RoadInv'
  BY <1>7, ReadSteps
<1>8. ASSUME NEW r \in Requests, NEW d \in Dates, PlanLock(r, d) PROVE RoadInv'
  BY <1>8, LockSteps
<1> QED
  BY <1>1, <1>2, <1>3, <1>4, <1>5, <1>6, <1>7, <1>8 DEF Next

(* What the requests, the imports, the versions, the branch, the locks and the days look *)
(* like in every state that RoadmapService and ensure_current_day reach.                 *)
THEOREM RoadInvariant == Spec => []RoadInv
<1>1. Init => RoadInv
  BY RoadInitial
<1>2. RoadInv /\ [Next]_vars => RoadInv'
  BY RoadInductive
<1> QED
  BY <1>1, <1>2, PTL DEF Spec

(* approve_import: two imports with one version key, a parser that changes between the   *)
(* preview and the approval and a request that dies never break the chain of versions.   *)
THEOREM VersionsAreOneChainHolds == Spec => []VersionsAreOneChain
<1>1. RoadInv => VersionsAreOneChain
  BY DEF RoadInv, ChainInv
<1> QED
  BY <1>1, RoadInvariant, PTL

(* activate_version: whichever activations and approvals overlap, the setting selects    *)
(* the one active version.                                                               *)
THEOREM ActiveIsSelectedHolds == Spec => []ActiveIsSelected
<1>1. RoadInv => ActiveIsSelected
  BY DEF RoadInv, ActiveInv
<1> QED
  BY <1>1, RoadInvariant, PTL

(* first_open_study_date and ensure_current_day: versions own dates in the order of      *)
(* their activation.                                                                     *)
THEOREM DaysFollowActivationHolds == Spec => []DaysFollowActivation
<1>1. RoadInv => DaysFollowActivation
  BY DEF RoadInv, ActiveInv
<1> QED
  BY <1>1, RoadInvariant, PTL

(* finish_mirror and the ref update without force: a version that says "synced" is in    *)
(* the commit it names and in the branch's head.                                         *)
THEOREM SyncedIsMirroredHolds == Spec => []SyncedIsMirrored
<1>1. RoadInv => SyncedIsMirrored
  <2> SUFFICES ASSUME RoadInv, NEW v \in DOMAIN versions, versions[v].mirror = "synced"
               PROVE  v \in branch[versions[v].ref] /\ v \in Last(branch)
    BY DEF SyncedIsMirrored
  <2>1. versions[v].ref \in DOMAIN branch /\ v \in branch[versions[v].ref]
    BY DEF RoadInv, BranchInv
  <2>2. branch \in Seq(SUBSET Nat)
    BY DEF RoadInv, RoadTypeOK
  <2>3. Len(branch) \in DOMAIN branch /\ versions[v].ref <= Len(branch)
    BY <2>1, <2>2
  <2>4. branch[versions[v].ref] \subseteq branch[Len(branch)]
    BY <2>1, <2>3 DEF RoadInv, BranchInv
  <2> QED
    BY <2>1, <2>4 DEF Last
<1> QED
  BY <1>1, RoadInvariant, PTL

=============================================================================
