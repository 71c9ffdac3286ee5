------------------------------ MODULE Roadmaps ------------------------------
(***************************************************************************)
(* How a package becomes the roadmap that Today plans from: staged and     *)
(* validated, approved as a version, mirrored to GitHub, activated; and    *)
(* how Today freezes a study day under the active version.                 *)
(*                                                                         *)
(* A request is a handler that runs several transactions, one after the    *)
(* other, and may die between any two of them.  A package is a model value;*)
(* its normalized hash is the version of the parser that read it, 0 for a  *)
(* package that does not validate.  Its stored archive is put before the   *)
(* import is created and is never deleted, so it is always there.  Dates   *)
(* are numbers, and the learner's local date is any of them, since the     *)
(* time zone may change.  A GitHub branch is a sequence of commits, each   *)
(* the set of version snapshots in its tree.                               *)
(*                                                                         *)
(* A transaction is one action, but for the two that take row locks in     *)
(* opposite orders: activation locks the versions and then the learner's   *)
(* setting, planning a day locks the setting and then, by its foreign key, *)
(* a version.  MaxCommits bounds the branch because two retries that       *)
(* overlap can fail each other again and again.                            *)
(***************************************************************************)
EXTENDS Naturals, FiniteSetsExt, SequencesExt

CONSTANTS
    Requests,     \* request handlers that may overlap
    Packages,     \* packages a learner may upload
    Bad,          \* the ones that do not validate
    ProgramKey,   \* ProgramKey[p]: program.key, the version key of package p
    Rest,         \* Rest[p]: dates that are rest days under the scheme of p
    MirrorEnabled,\* a GitHub token and a repository are configured
    IdKeys,       \* Idempotency-Key values
    MaxImports,   \* imports that may be created
    MaxParser,    \* releases of the parser
    MaxDate,      \* dates
    MaxCommits,   \* commits on the mirror branch after which nobody retries
    MaxFaults     \* crashes, failed transactions and lost answers of GitHub

Dates == 1 .. MaxDate

ASSUME RoadmapsAssumption ==
    /\ Bad \subseteq Packages
    /\ Rest \in [Packages -> SUBSET Dates]
    /\ MaxImports \in Nat /\ MaxParser \in Nat \ {0} /\ MaxFaults \in Nat
    /\ MaxCommits \in Nat
    /\ MaxDate \in Nat \ {0} /\ MirrorEnabled \in BOOLEAN

VARIABLES
    reqs,      \* reqs[r]: where request r is
    parser,    \* the parser that is deployed
    imports,   \* roadmap_imports, in order of id
    versions,  \* roadmap_versions, in order of id
    setting,   \* learner_settings: the active version (0: no row) and the first date
    days,      \* days[d]: the version under which date d was planned, 0 = none
    branch,    \* the mirror branch
    locks,     \* who holds the version rows and the setting row
    faults

vars == <<reqs, parser, imports, versions, setting, days, branch,
          locks, faults>>

Idle == [at |-> "idle", pkg |-> "none", key |-> "none", id |-> 0, parse |-> 0, seen |-> 0]

Init ==
    /\ reqs = [r \in Requests |-> Idle]
    /\ parser = 1
    /\ imports = <<>> /\ versions = <<>>
    /\ setting = [active |-> 0, start |-> 0]
    /\ days = [d \in Dates |-> 0]
    /\ branch = <<>>
    /\ locks = [versions |-> {}, setting |-> {}]
    /\ faults = 0

Fault == faults < MaxFaults /\ faults' = faults + 1

At(r, stage)  == reqs[r].at = stage
Goto(r, stage) == reqs' = [reqs EXCEPT ![r].at = stage]
End(r)        == reqs' = [reqs EXCEPT ![r] = Idle]

-----------------------------------------------------------------------------
(***************************************************************************)
(* RoadmapService.stage_package                                            *)
(***************************************************************************)
Finished == {"validated", "imported", "rejected"}

\* _holds_parse
HoldsParse(i, p, parse) ==
    imports[i].pkg = p /\ imports[i].status \in Finished /\ imports[i].parse = parse

\* The import that answers a request instead of a new one: find_duplicate_import,
\* and again under the locks of create_staged_import.
Known(p, k, parse) ==
    \E i \in DOMAIN imports : imports[i].key = k \/ HoldsParse(i, p, parse)

KeyTaken(p) == \E v \in DOMAIN versions : ProgramKey[versions[v].pkg] = ProgramKey[p]

StageFind(r, p, k) ==
    LET parse == IF p \in Bad THEN 0 ELSE parser
    IN  /\ At(r, "idle") /\ ~Known(p, k, parse) /\ Len(imports) < MaxImports
        /\ reqs' = [reqs EXCEPT ![r] = [Idle EXCEPT !.at = "create", !.pkg = p, !.key = k,
                                                    !.parse = parse]]
        /\ UNCHANGED <<parser, imports, versions, setting, days, branch,
                       locks, faults>>

NewImport(p, k) == [pkg |-> p, key |-> k, status |-> "staged", parse |-> 0]

\* put_immutable, whose object nothing deletes, and create_staged_import
Create(r) ==
    /\ At(r, "create")
    /\ IF Known(reqs[r].pkg, reqs[r].key, reqs[r].parse)
       THEN End(r) /\ UNCHANGED imports
       ELSE /\ Len(imports) < MaxImports
            /\ imports' = Append(imports, NewImport(reqs[r].pkg, reqs[r].key))
            /\ reqs' = [reqs EXCEPT ![r].at = "begin", ![r].id = Len(imports) + 1]
    /\ UNCHANGED <<parser, versions, setting, days, branch, locks, faults>>

\* begin_validation
BeginValidation(r) ==
    /\ At(r, "begin")
    /\ imports' = [imports EXCEPT ![reqs[r].id].status = "validating"]
    /\ Goto(r, "check")
    /\ UNCHANGED <<parser, versions, setting, days, branch, locks, faults>>

\* reject_validation: the package does not validate, or its version key is taken
Reject(r) ==
    /\ At(r, "check") /\ (reqs[r].parse = 0 \/ KeyTaken(reqs[r].pkg))
    /\ imports' = [imports EXCEPT ![reqs[r].id].status = "rejected"]
    /\ End(r)
    /\ UNCHANGED <<parser, versions, setting, days, branch, locks, faults>>

\* version_key_exists and latest_normalized_payload: reads of their own
Preview(r) ==
    /\ At(r, "check") /\ reqs[r].parse # 0 /\ ~KeyTaken(reqs[r].pkg)
    /\ Goto(r, "finish")
    /\ UNCHANGED <<parser, imports, versions, setting, days, branch, locks, faults>>

\* finish_validation
FinishValidation(r) ==
    /\ At(r, "finish")
    /\ imports' = [imports EXCEPT ![reqs[r].id].status = "validated",
                                  ![reqs[r].id].parse = reqs[r].parse]
    /\ End(r)
    /\ UNCHANGED <<parser, versions, setting, days, branch, locks, faults>>

-----------------------------------------------------------------------------
(***************************************************************************)
(* RoadmapService.approve_import and retry_mirror                          *)
(***************************************************************************)
\* The reads before the transaction: the snapshot is parsed again and compared
ApproveRead(r, i) ==
    /\ At(r, "idle")
    /\ imports[i].status = "validated"
    /\ imports[i].parse = parser
    /\ reqs' = [reqs EXCEPT ![r] = [Idle EXCEPT !.at = "approve", !.id = i, !.parse = parser]]
    /\ UNCHANGED <<parser, imports, versions, setting, days, branch,
                   locks, faults>>

NewVersion(i, parse) ==
    [import |-> i, pkg |-> imports[i].pkg, parse |-> parse,
     number |-> IF versions = <<>> THEN 1 ELSE Last(versions).number + 1,
     state |-> "approved", activated |-> 0, starts |-> 0,
     mirror |-> IF MirrorEnabled THEN "pending" ELSE "not_required", ref |-> 0]

\* Mutant: the key is left to the check at staging.
ApproveUnchecked(r) ==
    /\ At(r, "approve") /\ (versions = <<>> \/ locks.versions = {})
    /\ IF imports[reqs[r].id].status # "validated"
       THEN End(r) /\ UNCHANGED <<imports, versions>>
       ELSE /\ versions' = Append(versions, NewVersion(reqs[r].id, reqs[r].parse))
            /\ imports' = [imports EXCEPT ![reqs[r].id].status = "imported"]
            /\ IF MirrorEnabled
               THEN reqs' = [reqs EXCEPT ![r].at = "begin_mirror", ![r].id = Len(versions) + 1]
               ELSE End(r)
    /\ UNCHANGED <<parser, setting, days, branch, locks, faults>>

\* approve_import: locks the import, the source and the latest version
Approve(r) ==
    /\ At(r, "approve") /\ (versions = <<>> \/ locks.versions = {})
    /\ IF imports[reqs[r].id].status # "validated" \/ KeyTaken(imports[reqs[r].id].pkg)
       THEN End(r) /\ UNCHANGED <<imports, versions>>
       ELSE /\ versions' = Append(versions, NewVersion(reqs[r].id, reqs[r].parse))
            /\ imports' = [imports EXCEPT ![reqs[r].id].status = "imported"]
            /\ IF MirrorEnabled
               THEN reqs' = [reqs EXCEPT ![r].at = "begin_mirror", ![r].id = Len(versions) + 1]
               ELSE End(r)
    /\ UNCHANGED <<parser, setting, days, branch, locks, faults>>

RetryMirror(r, v) ==
    /\ At(r, "idle") /\ versions[v].mirror = "failed" /\ MirrorEnabled
    /\ Len(branch) < MaxCommits
    /\ reqs' = [reqs EXCEPT ![r] = [Idle EXCEPT !.at = "begin_mirror", !.id = v]]
    /\ UNCHANGED <<parser, imports, versions, setting, days, branch,
                   locks, faults>>

\* MIRROR_TRANSITIONS, and the listeners that let a synced mirror be
MirrorMay(v, status) ==
    CASE status = "syncing" -> versions[v].mirror \in {"pending", "failed", "syncing"}
      [] status = "synced"  -> versions[v].mirror = "syncing"
      [] status = "failed"  -> versions[v].mirror \in {"syncing", "failed"}

\* begin_mirror, finish_mirror, fail_mirror: a listener that raises ends the request
SetMirror(r, status, ref, then) ==
    LET v == reqs[r].id
    IN  /\ locks.versions = {}
        /\ IF MirrorMay(v, status)
           THEN /\ versions' = [versions EXCEPT ![v].mirror = status, ![v].ref = ref]
                /\ then
           ELSE End(r) /\ UNCHANGED versions
        /\ UNCHANGED <<parser, imports, setting, days, branch, locks, faults>>

BeginMirror(r)  == At(r, "begin_mirror") /\ SetMirror(r, "syncing", 0, Goto(r, "read"))
FinishMirror(r) == At(r, "finish_mirror") /\ SetMirror(r, "synced", reqs[r].seen, End(r))
FailMirror(r)   == At(r, "fail_mirror") /\ SetMirror(r, "failed", 0, End(r))

\* _branch_ref: the commit that the new one will follow
MirrorRead(r) ==
    /\ At(r, "read")
    /\ reqs' = [reqs EXCEPT ![r].at = "push", ![r].seen = Len(branch)]
    /\ UNCHANGED <<parser, imports, versions, setting, days, branch,
                   locks, faults>>

\* Mutant: the ref is moved with force.
PushForced(r) ==
    /\ At(r, "push")
    /\ LET base == IF reqs[r].seen = 0 THEN {} ELSE branch[reqs[r].seen]
       IN  branch' = Append(branch, base \cup {reqs[r].id})
    /\ reqs' = [reqs EXCEPT ![r].at = "finish_mirror", ![r].seen = Len(branch) + 1]
    /\ UNCHANGED <<parser, imports, versions, setting, days, locks, faults>>

\* The blobs, the tree over the parent's, the commit, and the ref without force:
\* GitHub refuses when the branch has moved.  An answer may be lost.
Push(r) ==
    /\ At(r, "push")
    /\ LET base == IF reqs[r].seen = 0 THEN {} ELSE branch[reqs[r].seen]
       IN  \/ /\ reqs[r].seen = Len(branch)
              /\ branch' = Append(branch, base \cup {reqs[r].id})
              /\ \/ /\ reqs' = [reqs EXCEPT ![r].at = "finish_mirror",
                                            ![r].seen = Len(branch) + 1]
                    /\ UNCHANGED faults
                 \/ Goto(r, "fail_mirror") /\ Fault
           \/ /\ reqs[r].seen # Len(branch)
              /\ Goto(r, "fail_mirror") /\ UNCHANGED <<branch, faults>>
           \/ Goto(r, "fail_mirror") /\ Fault /\ UNCHANGED branch
    /\ UNCHANGED <<parser, imports, versions, setting, days, locks>>

-----------------------------------------------------------------------------
(***************************************************************************)
(* Activation, and the days that Today plans                               *)
(***************************************************************************)
\* The statement's snapshot names the rows it will lock.
ActivateBegin(r, v) ==
    /\ At(r, "idle") /\ v \in DOMAIN versions
    /\ reqs' = [reqs EXCEPT ![r] = [Idle EXCEPT !.at = "lock", !.id = v,
                                                !.seen = Len(versions)]]
    /\ UNCHANGED <<parser, imports, versions, setting, days, branch,
                   locks, faults>>

\* FOR UPDATE; a version that is not approved is refused.  The exit review a later month
\* waits for is not asked for: the parser puts every task into month 1.
ActivateLock(r) ==
    /\ At(r, "lock") /\ locks.versions = {}
    /\ IF versions[reqs[r].id].state = "approved"
       THEN Goto(r, "activate") /\ locks' = [locks EXCEPT !.versions = {r}]
       ELSE End(r) /\ UNCHANGED locks
    /\ UNCHANGED <<parser, imports, versions, setting, days, branch, faults>>

\* Mutant: a later version starts today.
FirstOpenToday(local, rest) ==
    Min({d \in local .. (MaxDate + 1) : d \notin rest})

\* first_open_study_date
FirstOpen(local, rest) ==
    LET planned   == {d \in Dates : days[d] # 0}
        candidate == Max({local} \cup {d + 1 : d \in planned})
    IN  Min({d \in candidate .. (MaxDate + 1) : d \notin rest})

Activations == Max({versions[v].activated : v \in DOMAIN versions})

\* Mutant: no unique index on the active version.
ActivateUnguarded(r) ==
    LET v      == reqs[r].id
        active == {u \in 1 .. reqs[r].seen : versions[u].state = "active"}
    IN  /\ At(r, "activate") /\ locks.setting = {}
        /\ \E local \in Dates :
             /\ versions' = [u \in DOMAIN versions |->
                  IF u = v
                  THEN [versions[u] EXCEPT !.state = "active", !.activated = Activations + 1,
                            !.starts = IF setting.active = 0 THEN 0
                                       ELSE FirstOpen(local, Rest[versions[v].pkg])]
                  ELSE IF u \in active THEN [versions[u] EXCEPT !.state = "superseded"]
                  ELSE versions[u]]
             /\ setting' = [active |-> v,
                            start  |-> IF setting.active = 0 THEN local
                                       ELSE setting.start]
        /\ End(r) /\ locks' = [locks EXCEPT !.versions = {}]
        /\ UNCHANGED <<parser, imports, days, branch, faults>>

\* activate_version: supersede, activate, select in the setting.  The active version is
\* looked for among the rows of the snapshot; the unique index refuses a second one.
\* A first activation that does not name the learner's time zone is rolled back.
Activate(r) ==
    LET v      == reqs[r].id
        active == {u \in 1 .. reqs[r].seen : versions[u].state = "active"}
        second == \E u \in DOMAIN versions \ active : versions[u].state = "active"
    IN  /\ At(r, "activate") /\ locks.setting = {}
        /\ \E local \in Dates, zoned \in BOOLEAN :
           IF second \/ (setting.active = 0 /\ ~zoned) THEN UNCHANGED <<versions, setting>>
           ELSE
             /\ versions' = [u \in DOMAIN versions |->
                  IF u = v
                  THEN [versions[u] EXCEPT !.state = "active", !.activated = Activations + 1,
                            !.starts = IF setting.active = 0 THEN 0
                                       ELSE FirstOpen(local, Rest[versions[v].pkg])]
                  ELSE IF u \in active THEN [versions[u] EXCEPT !.state = "superseded"]
                  ELSE versions[u]]
             /\ setting' = [active |-> v,
                            start  |-> IF setting.active = 0 THEN local
                                       ELSE setting.start]
        /\ End(r) /\ locks' = [locks EXCEPT !.versions = {}]
        /\ UNCHANGED <<parser, imports, days, branch, faults>>

\* study_anchor
Anchor(v) == IF versions[v].starts = 0 THEN setting.start ELSE versions[v].starts

\* load_today for any date, and the lock of ensure_current_day
PlanLock(r, d) ==
    /\ At(r, "idle") /\ setting.active # 0 /\ d >= setting.start /\ locks.setting = {}
    /\ reqs' = [reqs EXCEPT ![r] = [Idle EXCEPT !.at = "plan", !.id = d]]
    /\ locks' = [locks EXCEPT !.setting = {r}]
    /\ UNCHANGED <<parser, imports, versions, setting, days, branch, faults>>

\* A day that is planned stays; a rest day and a date before the anchor are not planned.
Plannable(d) ==
    days[d] = 0 /\ d >= Anchor(setting.active) /\ d \notin Rest[versions[setting.active].pkg]

\* The rest of ensure_current_day: the new row's foreign key locks its version.
Plan(r) ==
    LET d == reqs[r].id
    IN  /\ At(r, "plan")
        /\ IF Plannable(d)
           THEN locks.versions = {} /\ days' = [days EXCEPT ![d] = setting.active]
           ELSE UNCHANGED days
        /\ End(r) /\ locks' = [locks EXCEPT !.setting = {}]
        /\ UNCHANGED <<parser, imports, versions, setting, branch, faults>>

-----------------------------------------------------------------------------
Released(r) == [l \in DOMAIN locks |-> locks[l] \ {r}]

\* PostgreSQL ends one of two transactions that wait for each other.
BreakDeadlock(r) ==
    /\ \E a, b \in Requests : /\ At(a, "activate") /\ At(b, "plan") /\ r \in {a, b}
                              /\ Plannable(reqs[b].id)
    /\ End(r) /\ locks' = Released(r)
    /\ UNCHANGED <<parser, imports, versions, setting, days, branch, faults>>

\* A transaction fails, or the process dies: the request ends where it is.
Die(r) ==
    /\ ~At(r, "idle") /\ Fault
    /\ End(r) /\ locks' = Released(r)
    /\ UNCHANGED <<parser, imports, versions, setting, days, branch>>

Deploy ==
    /\ parser < MaxParser
    /\ parser' = parser + 1
    /\ UNCHANGED <<reqs, imports, versions, setting, days, branch, locks, faults>>

Step(r) ==
    \/ Create(r) \/ BeginValidation(r) \/ Reject(r) \/ Preview(r)
    \/ FinishValidation(r) \/ Approve(r)
    \/ BeginMirror(r) \/ MirrorRead(r) \/ Push(r) \/ FinishMirror(r) \/ FailMirror(r)
    \/ ActivateLock(r) \/ Activate(r) \/ Plan(r) \/ BreakDeadlock(r)

Next ==
    \/ \E r \in Requests :
         \/ Step(r) \/ Die(r)
         \/ \E p \in Packages, k \in IdKeys : StageFind(r, p, k)
         \/ \E i \in DOMAIN imports : ApproveRead(r, i)
         \/ \E v \in DOMAIN versions : RetryMirror(r, v) \/ ActivateBegin(r, v)
         \/ \E d \in Dates : PlanLock(r, d)
    \/ Deploy

Spec == Init /\ [][Next]_vars

-----------------------------------------------------------------------------
\* The versions are one chain: numbers follow each other, no version key and no import
\* is used twice, exactly the imports that are "imported" have a version, and it is what
\* the learner saw in the preview: although two imports may both validate with the same
\* new key, and the parser may change between the preview and the approval.
VersionsAreOneChain ==
    /\ \A v \in DOMAIN versions : /\ versions[v].number = v
                                  /\ versions[v].parse = imports[versions[v].import].parse
    /\ \A v, u \in DOMAIN versions :
         (ProgramKey[versions[v].pkg] = ProgramKey[versions[u].pkg]
            \/ versions[v].import = versions[u].import) => v = u
    /\ \A i \in DOMAIN imports : imports[i].status = "imported"
         <=> \E v \in DOMAIN versions : versions[v].import = i

\* One version is active and it is the one the setting selects, whichever activations
\* overlap with which approvals.
ActiveIsSelected ==
    {v \in DOMAIN versions : versions[v].state = "active"}
        = (IF setting.active = 0 THEN {} ELSE {setting.active})

\* A planned day is frozen, and versions own dates in the order of their activation:
\* no version's first days are taken by an earlier one, whichever dates were opened.
DaysFollowActivation ==
    \A d, e \in Dates :
        (days[d] # 0 /\ days[e] # 0 /\ d < e)
            => versions[days[d]].activated <= versions[days[e]].activated

\* A version that says "synced" is in the branch under the commit it names, and still
\* is in the branch's head: no other mirror, concurrent or late, has pushed it out.
SyncedIsMirrored ==
    \A v \in DOMAIN versions : versions[v].mirror = "synced"
        => v \in branch[versions[v].ref] /\ v \in Last(branch)

\* A mirror that is neither done nor at work can be retried.
MirrorIsRetryable ==
    \A v \in DOMAIN versions : versions[v].mirror \in {"pending", "syncing"}
        => \E r \in Requests :
             /\ reqs[r].at \in {"begin_mirror", "read", "push", "finish_mirror", "fail_mirror"}
             /\ reqs[r].id = v

=============================================================================
