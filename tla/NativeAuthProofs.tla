--------------------------- MODULE NativeAuthProofs ---------------------------
(***************************************************************************)
(* What NativeAuth promises for any number of tokens, attempts, rotations, *)
(* sign-outs and faults.  On the server a session that is open has exactly *)
(* one token that is not consumed.  In the app, an answer is on its way to *)
(* the one task that waits for it, a new pair is known to nobody until it  *)
(* is stored, and whatever task is about to write the keychain works for   *)
(* the session of the credentials that the keychain holds.                 *)
(***************************************************************************)
EXTENDS NativeAuth, FiniteSetTheorems, TLAPS

\* A token's session is named by the first token of its family.  Closing a session
\* revokes all its tokens, and an open session has one token that is not consumed.
SessionsInv ==
  /\ \A p \in Pairs : IF p <= issued THEN family[p] \in 1..p /\ family[family[p]] = family[p]
                                     ELSE family[p] = None
  /\ \A p \in revoked : family[p] \in closed
  /\ \A p \in Pairs : family[p] \in closed => p \in revoked
  /\ \A s \in 1..issued : family[s] = s /\ s \notin closed =>
       \E p \in Family(s) \ consumed : Family(s) \ consumed = {p}

\* A request names a token that was issued, or a sign-in attempt.
Sendable(m) ==
  /\ m \in Message
  /\ m.kind \in {"refresh", "revoke"} => m.token \in 1..issued
  /\ m.kind = "exchange" => m.attempt \in Attempts

\* the revocation of `token`, under way or done
Revoking(m, token) ==
  /\ m.attempt = "none" /\ m.token = token
  /\ m.kind = "revoke" \/ (m.kind = "ok" /\ family[token] \in closed)

\* Every message somebody waits for belongs to the task that waits.
LoginMail(m) ==
  /\ m.id = 0
  /\ \/ login.pc \in {"pending", "active"} /\ Revoking(m, login.token)
     \/ login.pc = "exchange" /\ m.attempt \in Attempts /\ m.kind \in {"exchange", "ok", "denied"}

RefreshMail(m) ==
  \E t \in refreshes :
    /\ t.stage = "sent" /\ t.token = m.id /\ m.attempt = "none"
    /\ \/ m.kind = "refresh" /\ m.token = m.id
       \/ m.kind = "denied"
       \/ m.kind = "ok" /\ m.token \in 1..issued /\ family[m.token] = family[m.id]

LogoutMail(m) ==
  \E l \in logouts : l.id = m.id /\ l.token # None /\ Revoking(m, l.token)

Mail(m) ==
  /\ m.from = "login" => LoginMail(m)
  /\ m.from = "refresh" => RefreshMail(m)
  /\ m.from = "logout" => LogoutMail(m)
  /\ m.from = "nobody" => m.kind \notin {"ok", "denied"}

MailInv ==
  /\ \A m \in net : Sendable(m) /\ Mail(m)
  /\ \A m, n \in net : m.from # "nobody" /\ n.from = m.from /\ n.id = m.id => m = n

\* The tasks of the app, each with what it works on.
LoginTaskInv ==
  /\ login.pc = "none" => login = NoLogin
  /\ login.pc # "none" <=> phase = "loading"
  /\ login.pc \in {"pending", "active"} => login.token \in 1..issued
  /\ login.pc \notin {"pending", "active"} => login.token = None
  /\ login.pc \in {"browser", "exchange"} => login.attempt \in Attempts

LeavingTaskInv ==
  /\ leaving.pc = "none" => leaving = NotGoing
  /\ leaving.pc # "none" => phase = "signedIn" /\ leaving.token \in 1..issued

RefreshTasksInv ==
  /\ \A t \in refreshes : /\ t.token \in 1..issued
                          /\ t.stale => t.stage = "sent"
                          /\ t.stage \in {"check", "store", "recheck"} =>
                               t.pair \in 1..issued /\ family[t.pair] = family[t.token]
  /\ \A t, u \in refreshes : t.token = u.token => t = u
  /\ \A t, u \in Current : t = u

LogoutTasksInv ==
  /\ IsFiniteSet(logouts)
  /\ \A l \in logouts : l.token \in 0..issued
  /\ \A l, k \in logouts : l.id = k.id => l = k

\* A pair on its way to the app is no token that the app has or works on.
NewPair(m) == m.kind = "ok" /\ (m.from = "refresh" \/ m.attempt # "none")

InUse(p) ==
  \/ p \in {active, pending, login.token, leaving.token}
  \/ \E t \in refreshes \cup logouts : t.token = p

Fresh(p) == p \in 1..issued /\ ~InUse(p)

FreshInv ==
  /\ \A m \in net : NewPair(m) => Fresh(m.token)
  /\ \A m, n \in net : NewPair(m) /\ NewPair(n) /\ m.token = n.token => m = n
  /\ \A t \in refreshes : t.stage \in {"check", "store"} =>
       Fresh(t.pair) /\ \A m \in net : NewPair(m) => m.token # t.pair

\* What the keychain holds are credentials of the session s.
Holds(s) == (active # None => family[active] = s) /\ (pending # None => family[pending] = s)

\* login() goes to the browser only when nothing is active or is being refreshed.
LoginInv ==
  /\ login.pc \in {"active", "start", "browser", "exchange"} => active = None
  /\ login.pc # "none" /\ active = None => Current = {}
  /\ login.pc = "pending" /\ active = login.token => pending = login.token
  /\ login.pc \in {"pending", "active"} /\ pending = login.token => mem = None /\ Current = {}
  /\ login.pc \in {"pending", "active"} => \A t \in Current : t.token # login.token

CurrentInv ==
  \A t \in Current :
    /\ Holds(family[t.token])
    /\ t.stage = "remove" => pending # None
    /\ t.stage = "recheck" => pending # None \/ active = t.pair

LeavingInv ==
  leaving.pc # "none" =>
    /\ Holds(family[leaving.token])
    /\ \A t \in Current : family[t.token] = family[leaving.token]
    /\ leaving.pc = "remove" => pending # None \/ (active = None /\ mem = None /\ Current = {})

\* The token that a logout() revokes is not in use, and a sign-in meets it only to
\* revoke it as well.
LogoutInv ==
  \A l \in logouts : l.token # None =>
    /\ active # l.token
    /\ l.token \in {pending, leaving.token} => active = None /\ mem = None /\ Current = {}
    /\ login.pc # "none" /\ ~login.stale /\ pending = l.token => pending = login.token
    /\ \A t \in Current : t.token # l.token

TasksInv  == LoginTaskInv /\ LeavingTaskInv /\ RefreshTasksInv /\ LogoutTasksInv
KeysInv   == LoginInv /\ CurrentInv /\ LeavingInv /\ LogoutInv
AuthInv   == TypeOK /\ SessionsInv /\ MailInv /\ TasksInv /\ FreshInv /\ KeysInv
               /\ StoredIsKept /\ HandedOutIsCurrent

\* The two keychain items are of one session, so that a refresh may start although a
\* revocation is pending.  A sign-in that still counts has no refresh beside it, and
\* revokes what the keychain holds first.
OneSessionInv ==
  /\ active # None /\ pending # None => family[active] = family[pending]
  /\ login.pc # "none" /\ ~login.stale =>
       Current = {} /\ (pending = login.token \/ (pending = None /\ active = None))

-----------------------------------------------------------------------------
(* Types, by the parts that steps change together.                          *)

FlowsOK ==
  /\ Cardinality(Outstanding) <= FlowCapacity
  /\ flow \in [Attempts -> {"none", "open", "consumed"}]
  /\ code \in [Attempts -> {"none", "open"}]

TablesOK ==
  /\ issued \in Maybe /\ family \in [Pairs -> Maybe] /\ access \in [Pairs -> Maybe]
  /\ consumed \subseteq 1..issued /\ revoked \subseteq 1..issued /\ expired \subseteq 1..issued
  /\ lapsed \subseteq 1..issued /\ closed \subseteq 1..issued

KeychainOK ==
  active \in 0..issued /\ pending \in 0..issued /\ mem \in 0..issued /\ stored \subseteq 1..issued

LoginTask   == [pc : {"none", "pending", "active", "start", "browser", "exchange"},
                stale : BOOLEAN, attempt : Attempts \cup {"none"}, token : Maybe]
RefreshTask == [token : Pairs, pair : Maybe, stale : BOOLEAN,
                stage : {"sent", "check", "store", "recheck", "remove"}]
LogoutTask  == [id : Nat, token : Maybe]
LeavingTask == [pc : {"none", "store", "remove"}, token : Maybe]

TasksOK ==
  /\ phase \in {"restoring", "loading", "signedOut", "signedIn"}
  /\ login \in LoginTask /\ refreshes \subseteq RefreshTask
  /\ logouts \subseteq LogoutTask /\ leaving \in LeavingTask

BoundsOK == rotations \in 0..MaxRotations /\ signOuts \in 0..MaxSignOuts /\ faults \in 0..MaxFaults

LEMMA TypeParts ==
  TypeOK <=> FlowsOK /\ TablesOK /\ net \subseteq Message /\ KeychainOK /\ TasksOK /\ BoundsOK
  BY DEF TypeOK, FlowsOK, TablesOK, KeychainOK, TasksOK, BoundsOK, Outstanding, LoginTask,
         RefreshTask, LogoutTask, LeavingTask

LEMMA TypePartsNext ==
  ASSUME FlowsOK', TablesOK', net' \subseteq Message, KeychainOK', TasksOK', BoundsOK'
  PROVE  TypeOK'
  BY DEF TypeOK, FlowsOK, TablesOK, KeychainOK, TasksOK, BoundsOK, Outstanding, LoginTask,
         RefreshTask, LogoutTask, LeavingTask

-----------------------------------------------------------------------------
(* The server.                                                              *)

LEMMA SessionOf ==
  ASSUME TablesOK, SessionsInv, NEW p \in 1..issued
  PROVE  /\ p \in Pairs /\ family[p] \in 1..issued /\ family[p] \in Pairs
         /\ family[family[p]] = family[p]
<1>1. p \in Pairs /\ p <= issued /\ issued \in Nat /\ issued <= MaxPairs /\ p \in Nat
  BY AuthAssumption DEF TablesOK, Pairs, Maybe
<1>2. family[p] \in 1..p /\ family[family[p]] = family[p]
  BY <1>1 DEF SessionsInv
<1> QED
  BY <1>1, <1>2, AuthAssumption DEF Pairs

\* Tokens and closed sessions are only added.
Grows ==
  /\ issued' \in Nat /\ issued <= issued'
  /\ \A p \in 1..issued : family'[p] = family[p]
  /\ closed \subseteq closed'

(* A new token of session s, where the old token of s (if s is not new) is consumed. *)
LEMMA MintKeeps ==
  ASSUME TablesOK, SessionsInv, issued < MaxPairs, NEW s \in 1..(issued + 1),
         s = issued + 1 \/ (family[s] = s /\ s \notin closed),
         issued' = issued + 1, family' = [family EXCEPT ![issued + 1] = s],
         consumed \subseteq consumed', consumed' \subseteq 1..issued,
         s = issued + 1 => consumed' = consumed,
         s # issued + 1 => \E r \in Family(s) \ consumed : consumed' = consumed \cup {r},
         UNCHANGED <<revoked, closed>>
  PROVE  SessionsInv' /\ Grows /\ family' \in [Pairs -> Maybe]
<1> DEFINE p == issued + 1
<1>1. /\ issued \in Nat /\ MaxPairs \in Nat /\ p \in Pairs /\ p \in Nat /\ s \in Nat /\ s \in Maybe
      /\ family \in [Pairs -> Maybe]
      /\ closed \subseteq 1..issued /\ revoked \subseteq 1..issued /\ consumed \subseteq 1..issued
  BY AuthAssumption DEF TablesOK, Pairs, Maybe
<1>2. /\ \A q \in Pairs : family'[q] = IF q = p THEN s ELSE family[q]
      /\ family' \in [Pairs -> Maybe]
  BY <1>1
<1>3. \A q \in 1..issued : q \in Pairs /\ q # p /\ family'[q] = family[q]
  BY <1>1, <1>2 DEF Pairs
<1>4. Grows
  BY <1>1, <1>3 DEF Grows
<1>5. ASSUME NEW q \in Pairs
      PROVE  IF q <= issued' THEN family'[q] \in 1..q /\ family'[family'[q]] = family'[q]
                             ELSE family'[q] = None
  <2>1. CASE q <= issued
    <3>1. q \in 1..issued
      BY <1>1, <2>1 DEF Pairs
    <3>2. family[q] \in 1..q /\ family[q] \in 1..issued /\ family[family[q]] = family[q]
      BY <1>1, <3>1, SessionOf DEF SessionsInv
    <3> QED
      BY <1>1, <1>3, <3>1, <3>2
  <2>2. CASE q = p
    <3>1. family'[q] = s /\ s \in 1..q
      BY <1>1, <1>2, <2>2
    <3>2. family'[s] = s
      <4>1. CASE s = p
        BY <1>2, <2>2, <4>1
      <4>2. CASE s # p
        <5>1. s \in 1..issued /\ family[s] = s
          BY <1>1, <4>2
        <5> QED
          BY <1>3, <5>1
      <4> QED
        BY <4>1, <4>2
    <3> QED
      BY <1>1, <2>2, <3>1, <3>2
  <2>3. CASE q > p
    BY <1>1, <1>2, <2>3 DEF SessionsInv, Pairs
  <2> QED
    BY <1>1, <2>1, <2>2, <2>3 DEF Pairs
<1>6. s \notin closed
  BY <1>1
<1>7. \A q \in revoked' : family'[q] \in closed'
  BY <1>1, <1>3 DEF SessionsInv
<1>8. \A q \in Pairs : family'[q] \in closed' => q \in revoked'
  BY <1>2, <1>6 DEF SessionsInv
<1>9. ASSUME NEW z \in 1..issued', family'[z] = z, z \notin closed'
      PROVE  \E q \in Family(z)' \ consumed' : Family(z)' \ consumed' = {q}
  <2>1. Family(z)' = {q \in Pairs : family'[q] = z}
    BY DEF Family
  <2>2. CASE z = s
    <3>1. p \in Family(z)' \ consumed'
      BY <1>1, <1>2, <2>1, <2>2
    <3>2. ASSUME NEW q \in Family(z)' \ consumed', q # p PROVE FALSE
      <4>1. q \in Pairs /\ family[q] = s /\ q \notin consumed'
        BY <1>2, <2>1, <2>2, <3>2
      <4>2. CASE s = p
        <5>1. q <= issued => family[q] \in 1..q
          BY <4>1 DEF SessionsInv
        <5>2. q > issued => family[q] = 0
          BY <1>1, <4>1 DEF SessionsInv, None, Pairs
        <5> QED
          BY <1>1, <4>1, <4>2, <5>1, <5>2 DEF Pairs
      <4>3. CASE s # p
        <5>1. s \in 1..issued /\ family[s] = s /\ s \notin closed
          BY <1>1, <1>6, <4>3
        <5>2. PICK r \in Family(s) \ consumed : Family(s) \ consumed = {r}
          BY <5>1 DEF SessionsInv
        <5>3. q \in Family(s) \ consumed
          BY <4>1 DEF Family
        <5>4. q = r /\ consumed' = consumed \cup {r}
          BY <4>3, <5>2, <5>3
        <5> QED
          BY <4>1, <5>4
      <4> QED
        BY <4>2, <4>3
    <3> QED
      BY <3>1, <3>2
  <2>3. CASE z # s
    <3>1. z \in 1..issued /\ family[z] = z /\ z \notin closed
      <4>1. z # p
        BY <1>1, <1>2, <1>9, <2>3
      <4>2. z \in 1..issued
        BY <1>1, <4>1
      <4> QED
        BY <1>3, <1>9, <4>2
    <3>2. Family(z)' = Family(z)
      <4>1. family[p] = 0
        BY <1>1 DEF SessionsInv, None
      <4> QED
        BY <1>1, <1>2, <2>1, <2>3, <3>1, <4>1 DEF Family
    <3>3. PICK q \in Family(z) \ consumed : Family(z) \ consumed = {q}
      BY <3>1 DEF SessionsInv
    <3>4. \A x \in Family(z) : x \in consumed' <=> x \in consumed
      BY <2>3 DEF Family
    <3> QED
      BY <3>2, <3>3, <3>4
  <2> QED
    BY <2>2, <2>3
<1> QED
  BY <1>2, <1>4, <1>5, <1>7, <1>8, <1>9 DEF SessionsInv

LEMMA CloseKeeps ==
  ASSUME TablesOK, SessionsInv, NEW p \in 1..issued, CloseSession(family[p]),
         UNCHANGED <<issued, family, consumed>>
  PROVE  /\ SessionsInv' /\ Grows /\ family[p] \in closed'
         /\ closed' \subseteq 1..issued /\ revoked' \subseteq 1..issued
<1> DEFINE s == family[p]
<1>1. s \in 1..issued /\ issued \in Nat /\ MaxPairs \in Nat
  BY SessionOf, AuthAssumption DEF TablesOK, Maybe
<1>2. closed' = closed \cup {s} /\ revoked' = revoked \cup Family(s)
  BY DEF CloseSession
<1>3. Family(s) \subseteq 1..issued
  <2> SUFFICES ASSUME NEW q \in Family(s) PROVE q \in 1..issued
    OBVIOUS
  <2>1. q \in Pairs /\ family[q] = s
    BY DEF Family
  <2> QED
    BY <1>1, <2>1 DEF SessionsInv, None, Pairs
<1> HIDE DEF s
<1>4. Grows
  BY <1>1, <1>2 DEF Grows
<1>5. \A z : Family(z)' = Family(z)
  BY DEF Family
<1>6. SessionsInv'
  <2>1. \A q \in Pairs : family'[q] \in closed' => q \in revoked'
    BY <1>2 DEF SessionsInv, Family
  <2>2. \A q \in revoked' : family'[q] \in closed'
    BY <1>2 DEF SessionsInv, Family
  <2>3. \A z \in 1..issued' : family'[z] = z /\ z \notin closed' =>
          \E q \in Family(z)' \ consumed' : Family(z)' \ consumed' = {q}
    BY <1>2, <1>5 DEF SessionsInv
  <2> QED
    BY <2>1, <2>2, <2>3 DEF SessionsInv
<1> QED
  BY <1>1, <1>2, <1>3, <1>4, <1>6 DEF TablesOK, s

-----------------------------------------------------------------------------
(* A step of the server leaves the app's tasks as they were.                *)

AppSame == UNCHANGED <<keyVars, mem, phase, login, refreshes, logouts, leaving>>

LEMMA TasksSame ==
  ASSUME AuthInv, Grows, AppSame
  PROVE  TasksInv' /\ KeysInv' /\ StoredIsKept' /\ HandedOutIsCurrent'
<1> USE DEF AppSame, keyVars
<1>1. /\ issued \in Nat /\ issued' \in Nat /\ issued <= issued'
      /\ \A p \in 1..issued : family'[p] = family[p] /\ p \in 1..issued'
      /\ \A p \in 0..issued : p \in 0..issued'
  BY TypeParts, AuthAssumption DEF AuthInv, TablesOK, Maybe, Grows
<1>2. /\ active # None => active \in 1..issued
      /\ pending # None => pending \in 1..issued
      /\ mem # None => mem \in 1..issued
  BY <1>1, TypeParts DEF AuthInv, KeychainOK, None
<1>3. Current' = Current /\ Current \subseteq refreshes
  BY DEF Current
<1>4. TasksInv'
  <2>1. LoginTaskInv' /\ LeavingTaskInv'
    BY <1>1 DEF AuthInv, TasksInv, LoginTaskInv, LeavingTaskInv
  <2>2. RefreshTasksInv'
    BY <1>1, <1>3 DEF AuthInv, TasksInv, RefreshTasksInv
  <2>3. LogoutTasksInv'
    BY <1>1 DEF AuthInv, TasksInv, LogoutTasksInv
  <2> QED
    BY <2>1, <2>2, <2>3 DEF TasksInv
<1>5. KeysInv'
  <2>1. LoginInv' /\ LogoutInv'
    BY <1>3 DEF AuthInv, KeysInv, LoginInv, LogoutInv
  <2>2. CurrentInv'
    BY <1>1, <1>2, <1>3 DEF AuthInv, KeysInv, TasksInv, RefreshTasksInv, CurrentInv, Holds
  <2>3. LeavingInv'
    BY <1>1, <1>2, <1>3 DEF AuthInv, KeysInv, TasksInv, RefreshTasksInv, LeavingTaskInv,
                            LeavingInv, Holds
  <2> QED
    BY <2>1, <2>2, <2>3 DEF KeysInv
<1>6. StoredIsKept'
  BY <1>1, <1>2 DEF AuthInv, StoredIsKept, Grows
<1>7. HandedOutIsCurrent'
  BY <1>1, <1>2 DEF AuthInv, HandedOutIsCurrent
<1> QED
  BY <1>4, <1>5, <1>6, <1>7

LEMMA MailSame ==
  ASSUME AuthInv, Grows, AppSame
  PROVE  /\ \A m \in net : Sendable(m)' /\ Mail(m)' /\ (NewPair(m) => Fresh(m.token)')
         /\ \A t \in refreshes' : t.stage \in {"check", "store"} => Fresh(t.pair)'
<1> USE DEF AppSame, keyVars
<1>1. /\ issued \in Nat /\ issued' \in Nat /\ issued <= issued'
      /\ \A p \in 1..issued : family'[p] = family[p] /\ p \in 1..issued'
  BY TypeParts, AuthAssumption DEF AuthInv, TablesOK, Maybe, Grows
<1>2. ASSUME NEW m \in net PROVE Sendable(m)' /\ Mail(m)'
  <2>1. Sendable(m) /\ Mail(m)
    BY DEF AuthInv, MailInv
  <2>2. Sendable(m)'
    BY <1>1, <2>1 DEF Sendable
  <2>3. \A k, p : p \in 1..issued /\ Revoking(k, p) => Revoking(k, p)'
    BY <1>1 DEF Revoking, Grows
  <2>4. LoginMail(m) => LoginMail(m)'
    <3> SUFFICES ASSUME LoginMail(m) PROVE LoginMail(m)'
      OBVIOUS
    <3>1. login.pc \in {"pending", "active"} => login.token \in 1..issued
      BY DEF AuthInv, TasksInv, LoginTaskInv
    <3> QED
      BY <1>1, <3>1 DEF LoginMail, Revoking, Grows
  <2>5. RefreshMail(m) => RefreshMail(m)'
    BY <1>1 DEF RefreshMail, AuthInv, TasksInv, RefreshTasksInv
  <2>6. LogoutMail(m) => LogoutMail(m)'
    <3> SUFFICES ASSUME LogoutMail(m) PROVE LogoutMail(m)'
      OBVIOUS
    <3>1. PICK l \in logouts : l.id = m.id /\ l.token # None /\ Revoking(m, l.token)
      BY DEF LogoutMail
    <3>2. l.token \in 1..issued
      BY <1>1, <3>1 DEF AuthInv, TasksInv, LogoutTasksInv, None
    <3> QED
      BY <1>1, <3>1, <3>2 DEF LogoutMail, Revoking, Grows
  <2> QED
    BY <2>1, <2>2, <2>4, <2>5, <2>6 DEF Mail
<1>3. \A p : Fresh(p) => Fresh(p)'
  BY <1>1 DEF Fresh, InUse
<1>4. \A m \in net : NewPair(m) => Fresh(m.token)
  BY DEF AuthInv, FreshInv
<1>5. \A t \in refreshes : t.stage \in {"check", "store"} => Fresh(t.pair)
  BY DEF AuthInv, FreshInv
<1> QED
  BY <1>2, <1>3, <1>4, <1>5 DEF Fresh, InUse

(* A request is answered, to whoever waits for it. *)
IsAnswer(n, m, kind, token) ==
  /\ n.kind = kind /\ n.token = token /\ n.from = m.from
  /\ n.id = m.id /\ n.attempt = m.attempt /\ n.from # "nobody"

LEMMA AnswerKeeps ==
  ASSUME AuthInv, Grows, AppSame, NEW m \in net, m.kind \notin {"ok", "denied"},
         NEW kind \in {"ok", "denied"}, NEW token \in Maybe,
         net' = Answered(m, kind, token),
         \A n \in Message : IsAnswer(n, m, kind, token) =>
           Mail(n)' /\ (NewPair(n) => token = issued' /\ issued' = issued + 1)
  PROVE  net' \subseteq Message /\ MailInv' /\ FreshInv'
<1> DEFINE n == [m EXCEPT !.kind = kind, !.token = token]
<1>0. m \in Message
  BY DEF AuthInv, MailInv, Sendable
<1>1. /\ n \in Message /\ n.kind = kind /\ n.token = token /\ n.from = m.from
      /\ n.id = m.id /\ n.attempt = m.attempt
  BY <1>0 DEF Message
<1>2. \A x \in net' : (x \in net /\ x # m) \/ (x = n /\ m.from # "nobody")
  BY DEF Answered
<1> HIDE DEF n
<1>3. m.from # "nobody" => Mail(n)' /\ (NewPair(n) => token = issued' /\ issued' = issued + 1)
  BY <1>1 DEF IsAnswer
<1>4. \A x \in net : Sendable(x)' /\ Mail(x)' /\ (NewPair(x) => Fresh(x.token)') /\ x \in Message
  BY MailSame DEF AuthInv, MailInv, Sendable
<1>5. net' \subseteq Message
  BY <1>1, <1>2, <1>4
<1>6. MailInv'
  <2>1. Sendable(n)'
    BY <1>1 DEF Sendable
  <2>2. \A x \in net' : Sendable(x)' /\ Mail(x)'
    BY <1>2, <1>3, <1>4, <2>1
  <2>3. \A x, y \in net' : x.from # "nobody" /\ y.from = x.from /\ y.id = x.id => x = y
    BY <1>1, <1>2 DEF AuthInv, MailInv
  <2> QED
    BY <2>2, <2>3 DEF MailInv
<1>7. FreshInv'
  <2>1. issued \in Nat
    BY TypeParts, AuthAssumption DEF AuthInv, TablesOK, Maybe
  <2>2. \A x \in net : NewPair(x) => x.token \in 1..issued
    BY DEF AuthInv, FreshInv, Fresh
  <2>3. m.from # "nobody" /\ NewPair(n) =>
          /\ n.token = issued + 1 /\ issued' = issued + 1 /\ Fresh(n.token)'
    <3> SUFFICES ASSUME m.from # "nobody", NewPair(n)
                 PROVE  n.token = issued + 1 /\ issued' = issued + 1 /\ Fresh(n.token)'
      OBVIOUS
    <3>1. n.token = issued + 1 /\ issued' = issued + 1
      BY <1>1, <1>3
    <3>2. active \in 0..issued /\ pending \in 0..issued
      BY TypeParts DEF AuthInv, KeychainOK
    <3>3. login.token \in 0..issued /\ leaving.token \in 0..issued
      <4>1. login.token \in 0..issued
        BY <2>1 DEF AuthInv, TasksInv, LoginTaskInv, None
      <4>2. leaving.token \in 0..issued
        BY <2>1 DEF AuthInv, TasksInv, LeavingTaskInv, NotGoing, None
      <4> QED
        BY <4>1, <4>2
    <3>4. /\ \A t \in refreshes : t.token \in 1..issued
          /\ \A l \in logouts : l.token \in 0..issued
      BY DEF AuthInv, TasksInv, RefreshTasksInv, LogoutTasksInv
    <3>5. \A x \in 0..issued : x # issued + 1
      BY <2>1
    <3>6. \A x \in 1..issued : x # issued + 1
      BY <2>1
    <3>7. issued + 1 \in 1..issued'
      BY <2>1, <3>1
    <3> QED
      BY <3>1, <3>2, <3>3, <3>4, <3>5, <3>6, <3>7 DEF Fresh, InUse, AppSame, keyVars
  <2>4. \A x \in net' : NewPair(x) => Fresh(x.token)'
    BY <1>2, <1>4, <2>3
  <2>5. \A x \in 1..issued : x # issued + 1
    BY <2>1
  <2>6. \A x, y \in net' : NewPair(x) /\ NewPair(y) /\ x.token = y.token => x = y
    BY <1>2, <2>2, <2>3, <2>5 DEF AuthInv, FreshInv
  <2>7. \A t \in refreshes' : t.stage \in {"check", "store"} => Fresh(t.pair)'
    BY MailSame
  <2>8. \A t \in refreshes' : t.stage \in {"check", "store"} =>
          \A x \in net' : NewPair(x) => x.token # t.pair
    <3>1. \A t \in refreshes : t.stage \in {"check", "store"} =>
            t.pair \in 1..issued /\ \A x \in net : NewPair(x) => x.token # t.pair
      BY DEF AuthInv, FreshInv, Fresh
    <3> QED
      BY <1>2, <2>3, <2>5, <3>1 DEF AppSame
  <2> QED
    BY <2>4, <2>6, <2>7, <2>8 DEF FreshInv, NewPair
<1> QED
  BY <1>5, <1>6, <1>7

(* The parts of TypeOK that a step of the server leaves alone. *)
LEMMA TypesSame ==
  ASSUME AuthInv, Grows, AppSame
  PROVE  KeychainOK' /\ TasksOK'
<1>1. /\ issued \in Nat /\ issued' \in Nat /\ issued <= issued'
      /\ \A p \in 1..issued : p \in 1..issued'
      /\ \A p \in 0..issued : p \in 0..issued'
  BY TypeParts, AuthAssumption DEF AuthInv, TablesOK, Maybe, Grows
<1> QED
  BY <1>1, TypeParts DEF AuthInv, KeychainOK, TasksOK, AppSame, keyVars

LEMMA ServeExchangeKeeps ==
  ASSUME AuthInv, NEW m \in net, ServeExchange(m)
  PROVE  AuthInv'
<1>0. /\ TablesOK /\ SessionsInv /\ FlowsOK /\ BoundsOK /\ issued \in Nat
      /\ m.kind = "exchange" /\ m \in Message /\ m.attempt \in Attempts /\ "none" \notin Attempts
      /\ 0 \in Maybe
  BY TypeParts, AuthAssumption DEF AuthInv, ServeExchange, MailInv, Sendable, TablesOK, Maybe
<1>1. AppSame /\ FlowsOK' /\ BoundsOK'
  <2>1. FlowsOK'
    BY <1>0 DEF ServeExchange, FlowsOK, Outstanding
  <2> QED
    BY <1>0, <2>1 DEF ServeExchange, AppSame, boundVars, BoundsOK
<1>2. m.from # "nobody" => m.from = "login" /\ m.id = 0 /\ login.pc = "exchange"
  BY <1>0 DEF AuthInv, MailInv, Mail, LoginMail, RefreshMail, LogoutMail, Revoking, Message
<1>3. ASSUME NEW n \in Message, n.kind \in {"ok", "denied"}, n.from = m.from,
             n.id = m.id, n.attempt = m.attempt, n.from # "nobody"
      PROVE  Mail(n)'
  BY <1>0, <1>1, <1>2, <1>3 DEF Mail, LoginMail, AppSame
<1>4. CASE issued < MaxPairs /\ net' = Answered(m, "ok", issued + 1) /\ issued' = issued + 1
           /\ family' = [family EXCEPT ![issued + 1] = issued + 1]
           /\ access' = [access EXCEPT ![issued + 1] = issued + 1]
           /\ UNCHANGED <<consumed, revoked, expired, lapsed, closed>>
  <2>1. issued + 1 \in Maybe /\ issued + 1 \in 1..(issued + 1)
    BY <1>0, <1>4, AuthAssumption DEF Maybe
  <2>2. SessionsInv' /\ Grows /\ family' \in [Pairs -> Maybe]
    <3>1. consumed' \subseteq 1..issued
      BY <1>0, <1>4 DEF TablesOK
    <3> QED
      BY <1>0, <1>4, <2>1, <3>1, MintKeeps
  <2>3. TablesOK'
    <3>1. \A p \in 1..issued : p \in 1..issued'
      BY <1>0, <1>4
    <3> QED
      BY <1>0, <1>4, <2>1, <2>2, <3>1 DEF TablesOK
  <2>4. net' \subseteq Message /\ MailInv' /\ FreshInv'
    <3>1. \A n \in Message : IsAnswer(n, m, "ok", issued + 1) =>
           Mail(n)' /\ (NewPair(n) => issued + 1 = issued' /\ issued' = issued + 1)
      <4> SUFFICES ASSUME NEW n \in Message, IsAnswer(n, m, "ok", issued + 1)
                   PROVE  Mail(n)' /\ (NewPair(n) => issued + 1 = issued' /\ issued' = issued + 1)
        OBVIOUS
      <4> QED
        BY <1>3, <1>4 DEF IsAnswer
    <3> QED
      BY <1>0, <1>1, <1>4, <2>1, <2>2, <3>1, AnswerKeeps
  <2> QED
    BY <1>1, <2>2, <2>3, <2>4, TasksSame, TypesSame, TypePartsNext DEF AuthInv
<1>5. CASE net' = Answered(m, "denied", None)
           /\ UNCHANGED <<issued, family, access, consumed, revoked, expired, lapsed, closed>>
  <2>1. Grows /\ SessionsInv' /\ TablesOK'
    BY <1>0, <1>5 DEF Grows, SessionsInv, TablesOK, Family
  <2>2. net' \subseteq Message /\ MailInv' /\ FreshInv'
    <3>1. \A n \in Message : IsAnswer(n, m, "denied", None) =>
           Mail(n)' /\ (NewPair(n) => None = issued' /\ issued' = issued + 1)
      <4> SUFFICES ASSUME NEW n \in Message, IsAnswer(n, m, "denied", None)
                   PROVE  Mail(n)' /\ (NewPair(n) => None = issued' /\ issued' = issued + 1)
        OBVIOUS
      <4> QED
        BY <1>3 DEF NewPair, IsAnswer
    <3>2. None \in Maybe
      BY <1>0 DEF None
    <3> QED
      BY <1>0, <1>1, <1>5, <2>1, <3>1, <3>2, AnswerKeeps
  <2> QED
    BY <1>1, <2>1, <2>2, TasksSame, TypesSame, TypePartsNext DEF AuthInv
<1> QED
  BY <1>4, <1>5 DEF ServeExchange

LEMMA ServeRefreshKeeps ==
  ASSUME AuthInv, NEW m \in net, ServeRefresh(m)
  PROVE  AuthInv'
<1> DEFINE r == m.token  s == family[r]
<1>0. /\ TablesOK /\ SessionsInv /\ FlowsOK /\ BoundsOK /\ issued \in Nat
      /\ m.kind = "refresh" /\ m \in Message /\ r \in 1..issued /\ 0 \in Maybe
  BY TypeParts, AuthAssumption DEF AuthInv, ServeRefresh, MailInv, Sendable, TablesOK, Maybe
<1>1. AppSame /\ FlowsOK' /\ BoundsOK' /\ UNCHANGED <<expired, lapsed>>
  <2>1. FlowsOK'
    BY <1>0 DEF ServeRefresh, FlowsOK, Outstanding
  <2> QED
    BY <1>0, <2>1 DEF ServeRefresh, AppSame, boundVars, BoundsOK
<1>2. m.from # "nobody" =>
        /\ m.from = "refresh" /\ r = m.id
        /\ \E t \in refreshes : t.stage = "sent" /\ t.token = m.id /\ m.attempt = "none"
  BY <1>0 DEF AuthInv, MailInv, Mail, LoginMail, RefreshMail, LogoutMail, Revoking, Message
<1>3. s \in 1..issued /\ family[s] = s /\ r \in Pairs
  BY <1>0, SessionOf
<1>4. CASE /\ CloseSession(s) \/ UNCHANGED <<closed, revoked>>
           /\ net' = Answered(m, "denied", None)
           /\ UNCHANGED <<issued, family, access, consumed>>
  <2>1. Grows /\ SessionsInv' /\ TablesOK'
    <3>1. CASE CloseSession(s)
      <4>1. SessionsInv' /\ Grows /\ closed' \subseteq 1..issued /\ revoked' \subseteq 1..issued
        BY <1>0, <1>4, <3>1, CloseKeeps
      <4> QED
        BY <1>0, <1>1, <1>4, <4>1 DEF TablesOK
    <3>2. CASE UNCHANGED <<closed, revoked>>
      BY <1>0, <1>1, <1>4, <3>2 DEF Grows, SessionsInv, TablesOK, Family
    <3> QED
      BY <1>4, <3>1, <3>2
  <2>2. net' \subseteq Message /\ MailInv' /\ FreshInv'
    <3>1. \A n \in Message : IsAnswer(n, m, "denied", None) =>
           Mail(n)' /\ (NewPair(n) => None = issued' /\ issued' = issued + 1)
      <4> SUFFICES ASSUME NEW n \in Message, IsAnswer(n, m, "denied", None)
                   PROVE  Mail(n)' /\ (NewPair(n) => None = issued' /\ issued' = issued + 1)
        OBVIOUS
      <4> QED
        BY <1>1, <1>2 DEF Mail, RefreshMail, AppSame, NewPair, IsAnswer
    <3>2. None \in Maybe
      BY <1>0 DEF None
    <3> QED
      BY <1>0, <1>1, <1>4, <2>1, <3>1, <3>2, AnswerKeeps
  <2> QED
    BY <1>1, <2>1, <2>2, TasksSame, TypesSame, TypePartsNext DEF AuthInv
<1>5. CASE /\ r \notin consumed \cup revoked \cup expired /\ s \notin closed /\ issued < MaxPairs
           /\ issued' = issued + 1 /\ family' = [family EXCEPT ![issued + 1] = s]
           /\ access' = [access EXCEPT ![s] = issued + 1]
           /\ net' = Answered(m, "ok", issued + 1)
           /\ consumed' = consumed \cup {r} /\ UNCHANGED <<closed, revoked>>
  <2>1. issued + 1 \in Maybe /\ issued + 1 \in 1..(issued + 1) /\ s # issued + 1
        /\ s \in 1..(issued + 1)
    BY <1>0, <1>3, <1>5, AuthAssumption DEF Maybe
  <2>2. SessionsInv' /\ Grows /\ family' \in [Pairs -> Maybe]
    <3>1. consumed' \subseteq 1..issued /\ consumed \subseteq consumed'
      BY <1>0, <1>5 DEF TablesOK
    <3>2. r \in Family(s) \ consumed
      BY <1>3, <1>5 DEF Family
    <3> QED
      BY <1>0, <1>3, <1>5, <2>1, <3>1, <3>2, MintKeeps
  <2>3. TablesOK'
    <3>1. \A p \in 1..issued : p \in 1..issued'
      BY <1>0, <1>5
    <3> QED
      BY <1>0, <1>1, <1>5, <2>1, <2>2, <3>1 DEF TablesOK
  <2>4. family'[issued + 1] = s /\ family'[r] = s
    <3>1. issued + 1 \in Pairs
      BY <1>0, <1>5, AuthAssumption DEF Pairs
    <3> QED
      BY <1>0, <1>5, <2>2, <3>1 DEF TablesOK, Grows
  <2>5. net' \subseteq Message /\ MailInv' /\ FreshInv'
    <3>1. \A n \in Message : IsAnswer(n, m, "ok", issued + 1) =>
           Mail(n)' /\ (NewPair(n) => issued + 1 = issued' /\ issued' = issued + 1)
      <4> SUFFICES ASSUME NEW n \in Message, IsAnswer(n, m, "ok", issued + 1)
                   PROVE  Mail(n)' /\ (NewPair(n) => issued + 1 = issued' /\ issued' = issued + 1)
        OBVIOUS
      <4> QED
        BY <1>1, <1>2, <1>5, <2>1, <2>4 DEF Mail, RefreshMail, AppSame, IsAnswer
    <3> QED
      BY <1>0, <1>1, <1>5, <2>1, <2>2, <3>1, AnswerKeeps
  <2> QED
    BY <1>1, <2>2, <2>3, <2>5, TasksSame, TypesSame, TypePartsNext DEF AuthInv
<1> QED
  BY <1>4, <1>5 DEF ServeRefresh, Rotate

LEMMA ServeRevokeKeeps ==
  ASSUME AuthInv, NEW m \in net, ServeRevoke(m)
  PROVE  AuthInv'
<1>0. /\ TablesOK /\ SessionsInv /\ FlowsOK /\ BoundsOK /\ issued \in Nat
      /\ m.kind = "revoke" /\ m \in Message /\ m.token \in 1..issued /\ m.token \in Maybe
  BY TypeParts, AuthAssumption DEF AuthInv, ServeRevoke, MailInv, Sendable, TablesOK, Maybe
<1>1. AppSame /\ FlowsOK' /\ BoundsOK'
  <2>1. FlowsOK'
    BY <1>0 DEF ServeRevoke, FlowsOK, Outstanding
  <2> QED
    BY <1>0, <2>1 DEF ServeRevoke, AppSame, boundVars, BoundsOK
<1>2. /\ SessionsInv' /\ Grows /\ family[m.token] \in closed' /\ UNCHANGED family
      /\ closed' \subseteq 1..issued /\ revoked' \subseteq 1..issued
  BY <1>0, CloseKeeps DEF ServeRevoke, RevokeSession
<1>3. TablesOK'
  BY <1>0, <1>2 DEF TablesOK, ServeRevoke
<1>4. Mail(m)
  BY DEF AuthInv, MailInv
<1>5. \A n \in Message : IsAnswer(n, m, "ok", m.token) =>
       Mail(n)' /\ (NewPair(n) => m.token = issued' /\ issued' = issued + 1)
  <2> SUFFICES ASSUME NEW n \in Message, IsAnswer(n, m, "ok", m.token)
               PROVE  Mail(n)' /\ (NewPair(n) => m.token = issued' /\ issued' = issued + 1)
    OBVIOUS
  <2>1. CASE m.from = "login"
    <3>1. login.pc \in {"pending", "active"} /\ Revoking(m, login.token) /\ m.id = 0
      BY <1>0, <1>4, <2>1 DEF Mail, LoginMail
    <3> QED
      BY <1>1, <1>2, <2>1, <3>1 DEF Mail, LoginMail, Revoking, NewPair, AppSame, IsAnswer
  <2>2. CASE m.from = "logout"
    <3>1. PICK l \in logouts : l.id = m.id /\ l.token # None /\ Revoking(m, l.token)
      BY <1>4, <2>2 DEF Mail, LogoutMail
    <3> QED
      BY <1>1, <1>2, <2>2, <3>1 DEF Mail, LogoutMail, Revoking, NewPair, AppSame, IsAnswer
  <2>3. m.from # "refresh"
    BY <1>0, <1>4 DEF Mail, RefreshMail
  <2> QED
    BY <1>0, <2>1, <2>2, <2>3 DEF Message, IsAnswer
<1>6. net' \subseteq Message /\ MailInv' /\ FreshInv'
  <2>1. net' = Answered(m, "ok", m.token)
    BY DEF ServeRevoke
  <2> QED
    BY <1>0, <1>1, <1>2, <1>5, <2>1, AnswerKeeps
<1> QED
  BY <1>1, <1>2, <1>3, <1>6, TasksSame, TypesSame, TypePartsNext DEF AuthInv

(* Flows, codes and the passage of time. *)
LEMMA MeanwhileKeeps ==
  ASSUME AuthInv, FlowsOK', BoundsOK', TablesOK', AppSame,
         UNCHANGED <<issued, family, consumed, revoked, closed, net>>
  PROVE  AuthInv'
<1>0. issued \in Nat
  BY TypeParts, AuthAssumption DEF AuthInv, TablesOK, Maybe
<1>1. Grows /\ SessionsInv'
  BY <1>0 DEF AuthInv, Grows, SessionsInv, Family
<1>2. net' \subseteq Message /\ MailInv' /\ FreshInv'
  <2>1. MailInv'
    BY <1>1, MailSame DEF AuthInv, MailInv
  <2>2. FreshInv'
    BY <1>1, MailSame DEF AuthInv, FreshInv, AppSame, NewPair
  <2> QED
    BY <2>1, <2>2, TypeParts DEF AuthInv
<1> QED
  BY <1>1, <1>2, TasksSame, TypesSame, TypePartsNext DEF AuthInv

LEMMA FewerFlows ==
  ASSUME FlowsOK, NEW a \in Attempts, NEW f \in {"none", "consumed"}, flow[a] # "none",
         flow' = [flow EXCEPT ![a] = f], code' = code
  PROVE  FlowsOK'
<1>1. Outstanding' \in SUBSET Outstanding
  BY DEF Outstanding, FlowsOK
<1>2. IsFiniteSet(Outstanding) /\ IsFiniteSet(Outstanding')
  <2>1. Outstanding \in SUBSET Attempts /\ Outstanding' \in SUBSET Attempts
    BY DEF Outstanding
  <2> QED
    BY <2>1, FS_Subset, AuthAssumption
<1>3. /\ Cardinality(Outstanding') <= Cardinality(Outstanding)
      /\ Cardinality(Outstanding') \in Nat /\ Cardinality(Outstanding) \in Nat
  BY <1>1, <1>2, FS_Subset, FS_CardinalityType
<1>4. Cardinality(Outstanding)' <= FlowCapacity
  BY <1>3, AuthAssumption DEF FlowsOK
<1> QED
  BY <1>4 DEF FlowsOK

LEMMA FlowStepKeeps ==
  ASSUME AuthInv, NEW a \in Attempts, Callback(a) \/ FlowExpires(a) \/ CodeExpires(a)
  PROVE  AuthInv'
<1>0. FlowsOK /\ BoundsOK /\ TablesOK
  BY TypeParts DEF AuthInv
<1>1. /\ AppSame /\ TablesOK'
      /\ UNCHANGED <<issued, family, consumed, revoked, closed, net>>
  BY <1>0 DEF Callback, FlowExpires, CodeExpires, AppSame, TablesOK
<1>2. FlowsOK'
  <2>1. CASE Callback(a)
    BY <1>0, <2>1, FewerFlows DEF Callback
  <2>2. CASE FlowExpires(a)
    BY <1>0, <2>2, FewerFlows DEF FlowExpires
  <2>3. CASE CodeExpires(a)
    BY <1>0, <2>3 DEF CodeExpires, FlowsOK, Outstanding
  <2> QED
    BY <2>1, <2>2, <2>3
<1>3. BoundsOK'
  BY <1>0, AuthAssumption DEF Callback, FlowExpires, CodeExpires, boundVars, BoundsOK, Fault
<1> QED
  BY <1>1, <1>2, <1>3, MeanwhileKeeps

LEMMA TokensExpireKeeps ==
  ASSUME AuthInv, TokensExpire
  PROVE  AuthInv'
<1>0. FlowsOK /\ BoundsOK /\ TablesOK
  BY TypeParts DEF AuthInv
<1>1. AppSame /\ UNCHANGED <<issued, family, consumed, revoked, closed, net>>
  BY DEF TokensExpire, AppSame
<1>2. TablesOK'
  BY <1>0 DEF TokensExpire, TablesOK
<1>3. FlowsOK' /\ BoundsOK'
  BY <1>0, AuthAssumption DEF TokensExpire, FlowsOK, Outstanding, BoundsOK, Fault
<1> QED
  BY <1>1, <1>2, <1>3, MeanwhileKeeps

-----------------------------------------------------------------------------
(* A step of the app leaves the server as it was.                           *)

LEMMA ServerStill ==
  ASSUME AuthInv, UNCHANGED serverVars
  PROVE  /\ TablesOK' /\ SessionsInv' /\ FlowsOK' /\ issued \in Nat
         /\ UNCHANGED <<issued, family, closed>>
<1>1. TablesOK /\ FlowsOK /\ SessionsInv
  BY TypeParts DEF AuthInv
<1>2. UNCHANGED <<flow, code, issued, family, consumed, revoked, expired, access, lapsed, closed>>
  BY DEF serverVars
<1>3. TablesOK' /\ SessionsInv'
  BY <1>1, <1>2 DEF TablesOK, SessionsInv, Family
<1>4. FlowsOK'
  BY <1>1, <1>2 DEF FlowsOK, Outstanding
<1> QED
  BY <1>1, <1>2, <1>3, <1>4, AuthAssumption DEF TablesOK, Maybe

(* A message stays in order while its task waits for it. *)
LEMMA MailStill ==
  ASSUME AuthInv, UNCHANGED <<issued, family, closed>>, NEW m \in net,
         m.from = "login" => login'.pc = login.pc /\ login'.token = login.token,
         m.from = "refresh" => \E t \in refreshes' : t.stage = "sent" /\ t.token = m.id,
         m.from = "logout" => \E l \in logouts' : l.id = m.id /\ l.token = m.token /\ l.token # None
  PROVE  Sendable(m)' /\ Mail(m)'
<1>1. Sendable(m) /\ Mail(m)
  BY DEF AuthInv, MailInv
<1>2. Sendable(m)'
  BY <1>1 DEF Sendable
<1>3. m.from = "login" => LoginMail(m)'
  BY <1>1 DEF Mail, LoginMail, Revoking
<1>4. m.from = "refresh" => RefreshMail(m)'
  BY <1>1 DEF Mail, RefreshMail
<1>5. m.from = "logout" => LogoutMail(m)'
  BY <1>1 DEF Mail, LogoutMail, Revoking
<1> QED
  BY <1>1, <1>2, <1>3, <1>4, <1>5 DEF Mail

(* A request that nobody waits for. *)
Mute(n) == Sendable(n) /\ n.from = "nobody" /\ n.kind \notin {"ok", "denied"}

LEMMA MuteStill ==
  ASSUME NEW n, Mute(n), UNCHANGED issued
  PROVE  Sendable(n)' /\ Mail(n)'
  BY DEF Mute, Sendable, Mail

LEMMA MailFrame ==
  ASSUME AuthInv, \A n \in net' : Sendable(n)' /\ Mail(n)',
         \A n \in net' : n \in net \/ n.from = "nobody"
  PROVE  net' \subseteq Message /\ MailInv'
  BY DEF AuthInv, MailInv, Sendable

LEMMA FreshFrame ==
  ASSUME AuthInv, UNCHANGED issued,
         \A p : InUse(p)' => InUse(p) \/ p = None,
         \A m \in net' : NewPair(m) => m \in net,
         \A t \in refreshes' : t.stage \in {"check", "store"} =>
           \E u \in refreshes : u.pair = t.pair /\ u.stage \in {"check", "store"}
  PROVE  FreshInv'
<1>0. issued \in Nat
  BY TypeParts, AuthAssumption DEF AuthInv, TablesOK, Maybe
<1>1. \A p : Fresh(p) => Fresh(p)'
  BY <1>0 DEF Fresh, None
<1>2. \A m \in net' : NewPair(m) => Fresh(m.token)'
  BY <1>1 DEF AuthInv, FreshInv, Fresh
<1>3. \A m, n \in net' : NewPair(m) /\ NewPair(n) /\ m.token = n.token => m = n
  BY DEF AuthInv, FreshInv
<1>4. \A t \in refreshes' : t.stage \in {"check", "store"} =>
        Fresh(t.pair)' /\ \A m \in net' : NewPair(m) => m.token # t.pair
  BY <1>1 DEF AuthInv, FreshInv, Fresh
<1> QED
  BY <1>2, <1>3, <1>4 DEF FreshInv, NewPair

LEMMA DroppedIsMute ==
  ASSUME AuthInv, NEW token \in 1..issued
  PROVE  \A n \in Dropped(token) : Mute(n) /\ ~NewPair(n)
<1>1. token \in Maybe
  BY TypeParts, AuthAssumption DEF AuthInv, TablesOK, Maybe
<1> DEFINE n == [kind |-> "revoke", token |-> token, attempt |-> "none", from |-> "nobody", id |-> 0]
<1>2. n \in Message
  BY <1>1 DEF Message
<1>3. Mute(n) /\ ~NewPair(n)
  BY <1>2 DEF Mute, Sendable, NewPair
<1> QED
  BY <1>3 DEF Dropped, RevokeFor, Request

(* A caller gives up: its request stays, for nobody. *)
LEMMA AbandonIsMute ==
  ASSUME AuthInv, NEW ms, ms \subseteq net, \A m \in ms : m.kind \notin {"ok", "denied"}
  PROVE  \A n \in Abandon(ms) : (n \in net /\ n \notin ms) \/ (Mute(n) /\ ~NewPair(n))
<1> SUFFICES ASSUME NEW m \in ms
             PROVE  LET n == [m EXCEPT !.from = "nobody", !.id = 0] IN Mute(n) /\ ~NewPair(n)
  BY DEF Abandon
<1> DEFINE n == [m EXCEPT !.from = "nobody", !.id = 0]
<1>1. m \in Message /\ Sendable(m) /\ m.kind \notin {"ok", "denied"}
  BY DEF AuthInv, MailInv, Sendable
<1>2. /\ n \in Message /\ n.from = "nobody" /\ n.kind = m.kind /\ n.token = m.token
      /\ n.attempt = m.attempt
  BY <1>1 DEF Message
<1> HIDE DEF n
<1>3. Mute(n) /\ ~NewPair(n)
  BY <1>1, <1>2 DEF Mute, Sendable, NewPair
<1> QED
  BY <1>3 DEF n

(* invalidateSession *)
LEMMA StaleKeeps ==
  ASSUME AuthInv, ActorFree, Invalidate, UNCHANGED <<issued, family>>
  PROVE  /\ refreshes' \subseteq RefreshTask /\ Current' = {} /\ RefreshTasksInv' /\ mem' = None
         /\ \A u \in refreshes' : u.stage = "sent" /\ \E t \in refreshes : t.token = u.token
         /\ \A t \in refreshes : \E u \in refreshes' : u.stage = "sent" /\ u.token = t.token
<1>0. refreshes \subseteq RefreshTask
  BY TypeParts DEF AuthInv, TasksOK
<1>1. refreshes' = {[t EXCEPT !.stale = TRUE] : t \in refreshes} /\ mem' = None
  BY DEF Invalidate
<1>2. ASSUME NEW t \in refreshes
      PROVE  LET u == [t EXCEPT !.stale = TRUE] IN
             u \in RefreshTask /\ u.stale /\ u.token = t.token /\ u.stage = "sent" /\ u.pair = t.pair
  BY <1>0 DEF ActorFree, RefreshTask
<1>3. refreshes' \subseteq RefreshTask /\ Current' = {}
  BY <1>1, <1>2 DEF Current
<1>4. \A u \in refreshes' : u.stage = "sent" /\ \E t \in refreshes : t.token = u.token
  BY <1>1, <1>2
<1>5. \A t \in refreshes : \E u \in refreshes' : u.stage = "sent" /\ u.token = t.token
  BY <1>1, <1>2
<1>6. \A u, w \in refreshes' : u.token = w.token => u = w
  <2> SUFFICES ASSUME NEW u \in refreshes', NEW w \in refreshes', u.token = w.token
               PROVE  u = w
    OBVIOUS
  <2>1. PICK t \in refreshes : u = [t EXCEPT !.stale = TRUE]
    BY <1>1
  <2>2. PICK v \in refreshes : w = [v EXCEPT !.stale = TRUE]
    BY <1>1
  <2>3. u.token = t.token /\ w.token = v.token
    BY <1>2, <2>1, <2>2
  <2>4. t = v
    BY <2>3 DEF AuthInv, TasksInv, RefreshTasksInv
  <2> QED
    BY <2>1, <2>2, <2>4
<1>7. RefreshTasksInv'
  <2>1. \A u \in refreshes' : u.token \in 1..issued
    BY <1>4 DEF AuthInv, TasksInv, RefreshTasksInv
  <2> QED
    BY <1>3, <1>4, <1>6, <2>1 DEF RefreshTasksInv
<1> QED
  BY <1>1, <1>3, <1>4, <1>5, <1>7

-----------------------------------------------------------------------------
(* The steps of the app.                                                    *)

LEMMA AppFacts ==
  ASSUME AuthInv
  PROVE  /\ KeychainOK /\ TasksOK /\ BoundsOK /\ FlowsOK /\ issued \in Nat /\ 0 \in Maybe
         /\ LoginTaskInv /\ LeavingTaskInv /\ RefreshTasksInv /\ LogoutTasksInv
         /\ LoginInv /\ CurrentInv /\ LeavingInv /\ LogoutInv
         /\ StoredIsKept /\ HandedOutIsCurrent
         /\ \A t \in refreshes : t.stage # "sent" => t \in Current
         /\ \A p \in 1..issued : p # None /\ p \in Pairs /\ p \in Maybe /\ family[p] \in 1..issued
         /\ \A p \in 0..issued : p # None => p \in 1..issued
<1>1. TypeOK /\ SessionsInv /\ TasksInv /\ KeysInv /\ StoredIsKept /\ HandedOutIsCurrent
  BY DEF AuthInv
<1>2. KeychainOK /\ TasksOK /\ BoundsOK /\ FlowsOK /\ TablesOK
  BY <1>1, TypeParts
<1>3. issued \in Nat /\ issued <= MaxPairs /\ MaxPairs \in Nat
  BY <1>2, AuthAssumption DEF TablesOK, Maybe
<1>4. \A p \in 1..issued : p # None /\ p \in Pairs /\ p \in Maybe /\ family[p] \in 1..issued
  <2> SUFFICES ASSUME NEW p \in 1..issued
               PROVE  p # None /\ p \in Pairs /\ p \in Maybe /\ family[p] \in 1..issued
    OBVIOUS
  <2> QED
    BY <1>1, <1>2, <1>3, SessionOf DEF None, Pairs, Maybe
<1>5. \A p \in 0..issued : p # None => p \in 1..issued
  BY <1>3 DEF None
<1>6. \A t \in refreshes : t.stage # "sent" => t \in Current
  BY <1>1 DEF TasksInv, RefreshTasksInv, Current
<1> QED
  BY <1>1, <1>2, <1>3, <1>4, <1>5, <1>6 DEF TasksInv, KeysInv, Maybe

(* A new request, where nothing else is under way for its task. *)
LEMMA MailAdds ==
  ASSUME AuthInv, NEW n, \A m \in net' : Sendable(m)' /\ Mail(m)',
         \A m \in net' : m \in net \/ m = n,
         \A m \in net' : m.from = n.from /\ m.id = n.id => m = n
  PROVE  net' \subseteq Message /\ MailInv'
  BY DEF AuthInv, MailInv, Sendable

(* Nothing of what the login() at work waits for is lost when no login() waits. *)
LEMMA NoLoginMail ==
  ASSUME AuthInv, login.pc \notin {"pending", "active", "exchange"}
  PROVE  \A m \in net : m.from # "login"
  BY DEF AuthInv, MailInv, Mail, LoginMail

(* The tasks of the refreshes and the logouts go on as they were. *)
LEMMA TasksStill ==
  ASSUME AuthInv, UNCHANGED <<issued, family, refreshes, logouts>>
  PROVE  RefreshTasksInv' /\ LogoutTasksInv' /\ Current' = Current
<1>1. Current' = Current
  BY DEF Current
<1> QED
  BY <1>1, AppFacts DEF RefreshTasksInv, LogoutTasksInv

(* The messages of the refreshes and the logouts stay in order. *)
LEMMA OthersMail ==
  ASSUME AuthInv, UNCHANGED <<issued, family, closed, refreshes, logouts>>, NEW m \in net,
         m.from = "login" => login'.pc = login.pc /\ login'.token = login.token
  PROVE  Sendable(m)' /\ Mail(m)'
<1>1. Mail(m)
  BY DEF AuthInv, MailInv
<1>2. m.from = "refresh" => \E t \in refreshes' : t.stage = "sent" /\ t.token = m.id
  BY <1>1 DEF Mail, RefreshMail
<1>3. m.from = "logout" => \E l \in logouts' : l.id = m.id /\ l.token = m.token /\ l.token # None
  BY <1>1 DEF Mail, LogoutMail, Revoking
<1> QED
  BY <1>2, <1>3, MailStill

LEMMA RestoreKeeps ==
  ASSUME AuthInv, Restore
  PROVE  AuthInv'
<1>0. /\ KeychainOK /\ TasksOK /\ BoundsOK /\ LoginTaskInv /\ LeavingTaskInv
      /\ LoginInv /\ CurrentInv /\ LeavingInv /\ LogoutInv /\ StoredIsKept /\ HandedOutIsCurrent
  BY AppFacts
<1>1. /\ UNCHANGED <<serverVars, net, active, pending, stored, mem, login, refreshes, logouts,
                     leaving, rotations, signOuts, faults>>
      /\ phase = "restoring" /\ phase' \in {"signedIn", "signedOut"}
  BY DEF Restore, keyVars, boundVars
<1>2. /\ TablesOK' /\ SessionsInv' /\ FlowsOK' /\ UNCHANGED <<issued, family, closed>>
  BY <1>1, ServerStill
<1>3. RefreshTasksInv' /\ LogoutTasksInv' /\ Current' = Current
  BY <1>1, <1>2, TasksStill
<1>4. KeychainOK' /\ TasksOK' /\ BoundsOK'
  BY <1>0, <1>1, <1>2 DEF KeychainOK, TasksOK, BoundsOK
<1>5. net' \subseteq Message /\ MailInv'
  BY <1>1, <1>2, OthersMail, MailFrame
<1>6. FreshInv'
  BY <1>1, <1>2, FreshFrame DEF InUse
<1>7. TasksInv'
  BY <1>0, <1>1, <1>2, <1>3 DEF TasksInv, LoginTaskInv, LeavingTaskInv
<1>8. KeysInv'
  BY <1>0, <1>1, <1>2, <1>3 DEF KeysInv, LoginInv, CurrentInv, LeavingInv, LogoutInv, Holds
<1>9. StoredIsKept' /\ HandedOutIsCurrent'
  BY <1>0, <1>1, <1>2 DEF StoredIsKept, HandedOutIsCurrent
<1> QED
  BY <1>2, <1>4, <1>5, <1>6, <1>7, <1>8, <1>9, TypePartsNext DEF AuthInv

(* login() on its way to the browser. *)
LEMMA OneMoreFlow ==
  ASSUME FlowsOK, Admitted, NEW a \in Attempts \ Outstanding, flow' = [flow EXCEPT ![a] = "open"],
         code' = code
  PROVE  FlowsOK'
<1>1. Outstanding' = Outstanding \cup {a}
  BY DEF Outstanding, FlowsOK
<1>2. IsFiniteSet(Outstanding)
  <2>1. Outstanding \in SUBSET Attempts
    BY DEF Outstanding
  <2> QED
    BY <2>1, FS_Subset, AuthAssumption
<1>3. Cardinality(Outstanding \cup {a}) = Cardinality(Outstanding) + 1
  BY <1>2, FS_AddElement
<1>4. Cardinality(Outstanding) \in Nat
  BY <1>2, FS_CardinalityType
<1>5. Cardinality(Outstanding)' <= FlowCapacity
  BY <1>1, <1>3, <1>4, AuthAssumption DEF Admitted
<1> QED
  BY <1>5 DEF FlowsOK

\* login() ends, or goes one step further.
LoginMoves ==
  /\ login.pc # "none" /\ mem' \in {mem, None}
  /\ \/ login' = NoLogin /\ phase' = "signedOut"
     \/ /\ login.pc \in {"start", "browser"} /\ login'.pc \in {"browser", "exchange"}
        /\ login' \in LoginTask /\ login'.attempt \in Attempts /\ login'.stale = login.stale
        /\ login'.token = None /\ UNCHANGED phase

LEMMA LoginMovesKeeps ==
  ASSUME AuthInv, LoginMoves, \A m \in net' : NewPair(m) => m \in net,
         UNCHANGED <<issued, family, closed, active, pending, stored, refreshes, logouts, leaving>>
  PROVE  /\ KeychainOK' /\ TasksOK' /\ TasksInv' /\ FreshInv' /\ KeysInv'
         /\ StoredIsKept' /\ HandedOutIsCurrent'
<1>0. /\ KeychainOK /\ TasksOK /\ LoginTaskInv /\ LeavingTaskInv /\ 0 \in Maybe /\ issued \in Nat
      /\ LoginInv /\ CurrentInv /\ LeavingInv /\ LogoutInv /\ StoredIsKept /\ HandedOutIsCurrent
  BY AppFacts
<1>1. NoLogin \in LoginTask /\ NoLogin.token = None /\ NoLogin.pc = "none"
  BY <1>0 DEF NoLogin, LoginTask, None
<1>2. RefreshTasksInv' /\ LogoutTasksInv' /\ Current' = Current
  BY TasksStill
<1>3. KeychainOK' /\ TasksOK'
  BY <1>0, <1>1 DEF LoginMoves, KeychainOK, TasksOK, None
<1>4. FreshInv'
  <2>1. \A p : InUse(p)' => InUse(p) \/ p = None
    BY <1>1 DEF InUse, LoginMoves
  <2> QED
    BY <2>1, FreshFrame
<1>5. TasksInv'
  <2>1. LoginTaskInv'
    BY <1>0, <1>1 DEF LoginTaskInv, LoginMoves
  <2>2. LeavingTaskInv'
    BY <1>0 DEF LoginTaskInv, LeavingTaskInv, LoginMoves
  <2> QED
    BY <1>2, <2>1, <2>2 DEF TasksInv
<1>6. KeysInv'
  <2>1. LoginInv'
    BY <1>0, <1>1, <1>2 DEF LoginInv, LoginMoves
  <2>2. CurrentInv'
    BY <1>0, <1>2 DEF CurrentInv, Holds
  <2>3. LeavingInv'
    BY <1>0, <1>2 DEF LeavingInv, Holds, LoginMoves
  <2>4. LogoutInv'
    BY <1>0, <1>1, <1>2 DEF LogoutInv, LoginMoves, LoginTaskInv
  <2> QED
    BY <2>1, <2>2, <2>3, <2>4 DEF KeysInv
<1>7. StoredIsKept' /\ HandedOutIsCurrent'
  BY <1>0 DEF StoredIsKept, HandedOutIsCurrent, LoginMoves
<1> QED
  BY <1>3, <1>4, <1>5, <1>6, <1>7

LEMMA LoginStartKeeps ==
  ASSUME AuthInv, LoginStart
  PROVE  AuthInv'
<1>0. /\ TasksOK /\ BoundsOK /\ FlowsOK /\ TablesOK /\ SessionsInv /\ LoginTaskInv
  BY AppFacts, TypeParts DEF AuthInv
<1>1. /\ UNCHANGED <<code, issued, family, consumed, revoked, expired, access, lapsed, closed, net,
                     active, pending, stored, mem, refreshes, logouts, leaving, rotations,
                     signOuts, faults>>
      /\ login.pc = "start"
  BY DEF LoginStart, keyVars, boundVars
<1>2. LoginMoves
  <2>1. CASE LoginEnds
    BY <1>1, <2>1 DEF LoginEnds, LoginMoves
  <2>2. ASSUME NEW a \in Attempts, login' = [login EXCEPT !.pc = "browser", !.attempt = a],
               UNCHANGED phase
        PROVE  LoginMoves
    BY <1>0, <1>1, <2>2 DEF LoginMoves, LoginTask, TasksOK, LoginTaskInv
  <2> QED
    BY <2>1, <2>2 DEF LoginStart
<1>3. FlowsOK'
  <2>1. CASE UNCHANGED flow
    BY <1>0, <1>1, <2>1 DEF FlowsOK, Outstanding
  <2>2. CASE Admitted /\ \E a \in Attempts \ Outstanding : flow' = [flow EXCEPT ![a] = "open"]
    BY <1>0, <1>1, <2>2, OneMoreFlow
  <2> QED
    BY <2>1, <2>2 DEF LoginStart
<1>4. TablesOK' /\ SessionsInv' /\ BoundsOK'
  BY <1>0, <1>1 DEF TablesOK, SessionsInv, Family, BoundsOK
<1>5. net' \subseteq Message /\ MailInv'
  <2>1. \A m \in net : m.from # "login"
    BY <1>1, NoLoginMail
  <2> QED
    BY <1>1, <2>1, OthersMail, MailFrame
<1> QED
  BY <1>1, <1>2, <1>3, <1>4, <1>5, LoginMovesKeeps, TypePartsNext DEF AuthInv

LEMMA LoginCallbackKeeps ==
  ASSUME AuthInv, LoginCallback
  PROVE  AuthInv'
<1> DEFINE a == login.attempt
<1>0. /\ TasksOK /\ BoundsOK /\ FlowsOK /\ TablesOK /\ SessionsInv /\ LoginTaskInv /\ 0 \in Maybe
  BY AppFacts, TypeParts DEF AuthInv
<1>1. /\ UNCHANGED <<flow, issued, family, consumed, revoked, expired, access, lapsed, closed,
                     active, pending, stored, mem, refreshes, logouts, leaving, rotations,
                     signOuts, faults>>
      /\ login.pc = "browser" /\ code' = [code EXCEPT ![a] = "open"]
  BY DEF LoginCallback, keyVars, boundVars
<1>2. a \in Attempts /\ login.token = None
  BY <1>0, <1>1 DEF LoginTaskInv
<1>3. LoginMoves
  <2>1. CASE LoginEnds
    BY <1>1, <2>1 DEF LoginEnds, LoginMoves
  <2>2. CASE login' = [login EXCEPT !.pc = "exchange"] /\ UNCHANGED phase
    BY <1>0, <1>1, <1>2, <2>2 DEF LoginMoves, LoginTask, TasksOK
  <2> QED
    BY <2>1, <2>2 DEF LoginCallback
<1>4. FlowsOK' /\ TablesOK' /\ SessionsInv' /\ BoundsOK'
  <2>1. FlowsOK'
    BY <1>0, <1>1, <1>2 DEF FlowsOK, Outstanding
  <2> QED
    BY <1>0, <1>1, <2>1 DEF TablesOK, SessionsInv, Family, BoundsOK
<1>5. \A m \in net : m.from # "login" /\ Sendable(m)' /\ Mail(m)'
  BY <1>1, NoLoginMail, OthersMail
<1>6. PICK n \in Message : n = Request("exchange", None, a, "login", 0)
  BY <1>0, <1>2 DEF Message, None, Request
<1>7. net' \subseteq Message /\ MailInv' /\ \A m \in net' : NewPair(m) => m \in net
  <2>1. CASE UNCHANGED net
    BY <1>5, <2>1, MailFrame
  <2>2. CASE net' = net \cup {n} /\ login' = [login EXCEPT !.pc = "exchange"]
    <3>1. login'.pc = "exchange"
      BY <1>0, <2>2 DEF TasksOK, LoginTask
    <3>2. n.kind = "exchange" /\ n.attempt \in Attempts /\ n.from = "login" /\ n.id = 0
      BY <1>2, <1>6 DEF Request
    <3>3. Sendable(n)' /\ Mail(n)' /\ ~NewPair(n)
      BY <3>1, <3>2 DEF Sendable, Mail, LoginMail, NewPair
    <3>4. \A m \in net' : m.from = n.from /\ m.id = n.id => m = n
      BY <1>5, <2>2, <3>2
    <3>5. net' \subseteq Message /\ MailInv'
      BY <1>5, <2>2, <3>3, <3>4, MailAdds
    <3> QED
      BY <2>2, <3>3, <3>5
  <2> QED
    BY <1>6, <2>1, <2>2 DEF LoginCallback
<1> QED
  BY <1>1, <1>3, <1>4, <1>7, LoginMovesKeeps, TypePartsNext DEF AuthInv

LEMMA LoginFailsKeeps ==
  ASSUME AuthInv, LoginFails
  PROVE  AuthInv'
<1>0. BoundsOK
  BY AppFacts
<1>1. /\ UNCHANGED <<serverVars, active, pending, stored, mem, refreshes, logouts, leaving>>
      /\ net' = Abandon(Open("login", 0)) /\ Reply("login", 0) = {}
  BY DEF LoginFails, keyVars
<1>2. TablesOK' /\ SessionsInv' /\ FlowsOK' /\ UNCHANGED <<issued, family, closed>>
  BY <1>1, ServerStill
<1>3. BoundsOK'
  BY <1>0, AuthAssumption DEF LoginFails, Fault, BoundsOK
<1>4. LoginMoves
  BY <1>1 DEF LoginFails, LoginEnds, LoginMoves
<1>5. \A m \in net : m.from = "login" => m \in Open("login", 0)
  <2> SUFFICES ASSUME NEW m \in net, m.from = "login" PROVE m \in Open("login", 0)
    OBVIOUS
  <2>1. m.id = 0
    BY DEF AuthInv, MailInv, Mail, LoginMail
  <2> QED
    BY <1>1, <2>1 DEF Open, Reply
<1>6. \A n \in net' : (n \in net /\ n.from # "login") \/ (Mute(n) /\ ~NewPair(n))
  <2>1. Open("login", 0) \subseteq net /\ \A m \in Open("login", 0) : m.kind \notin {"ok", "denied"}
    BY DEF Open
  <2> QED
    BY <1>1, <1>5, <2>1, AbandonIsMute
<1>7. net' \subseteq Message /\ MailInv'
  <2>1. \A n \in net' : n \in net \/ n.from = "nobody"
    BY <1>6 DEF Mute
  <2>2. \A n \in net' : Sendable(n)' /\ Mail(n)'
    BY <1>1, <1>2, <1>6, OthersMail, MuteStill
  <2> QED
    BY <2>1, <2>2, MailFrame
<1> QED
  BY <1>1, <1>2, <1>3, <1>4, <1>6, <1>7, LoginMovesKeeps, TypePartsNext DEF AuthInv

(* A request to revoke a token. *)
LEMMA RevokeSent ==
  ASSUME AuthInv, NEW from \in {"login", "logout"}, NEW id \in Nat, NEW token \in 1..issued
  PROVE  \E n \in Message : /\ n = RevokeFor(from, id, token) /\ n.kind = "revoke"
                            /\ n.token = token /\ n.attempt = "none"
                            /\ n.from = from /\ n.id = id
<1>1. token \in Maybe
  BY AppFacts
<1>2. RevokeFor(from, id, token) \in Message
  BY <1>1 DEF RevokeFor, Request, Message
<1> QED
  BY <1>2 DEF RevokeFor, Request

LEMMA SignInKeeps ==
  ASSUME AuthInv, SignIn
  PROVE  AuthInv'
<1> DEFINE token == IF pending # None THEN pending ELSE active
<1>0. /\ KeychainOK /\ TasksOK /\ BoundsOK /\ LoginTaskInv /\ LeavingTaskInv /\ LogoutTasksInv
      /\ LoginInv /\ CurrentInv /\ LeavingInv /\ LogoutInv /\ StoredIsKept /\ HandedOutIsCurrent
      /\ issued \in Nat /\ 0 \in Maybe
      /\ \A p \in 1..issued : p # None /\ p \in Maybe
      /\ \A p \in 0..issued : p # None => p \in 1..issued
  BY AppFacts
<1>1. /\ UNCHANGED <<serverVars, stored, logouts, leaving, rotations, signOuts, faults>>
      /\ ActorFree /\ Invalidate /\ phase = "signedOut" /\ phase' = "loading" /\ login = NoLogin
      /\ leaving = NotGoing
  BY DEF SignIn, boundVars
<1>2. TablesOK' /\ SessionsInv' /\ FlowsOK' /\ UNCHANGED <<issued, family, closed>>
  BY <1>1, ServerStill
<1>3. /\ refreshes' \subseteq RefreshTask /\ Current' = {} /\ RefreshTasksInv' /\ mem' = None
      /\ \A u \in refreshes' : u.stage = "sent" /\ \E t \in refreshes : t.token = u.token
      /\ \A t \in refreshes : \E u \in refreshes' : u.stage = "sent" /\ u.token = t.token
  BY <1>1, <1>2, StaleKeeps
<1>4. /\ NoLogin \in LoginTask /\ NoLogin.pc = "none" /\ NotGoing.pc = "none"
      /\ NotGoing.token = None
  BY <1>0 DEF NoLogin, LoginTask, None, NotGoing
<1>5. \/ /\ token = None /\ login'.pc = "start" /\ login'.token = None /\ UNCHANGED <<net, active, pending>>
      \/ /\ token # None /\ login'.token = token /\ pending' = token
         /\ login'.pc = IF pending # None THEN "pending" ELSE "active"
         /\ active' = IF pending # None THEN active ELSE None
         /\ net' = net \cup {RevokeFor("login", 0, token)}
  BY <1>0, <1>4 DEF SignIn, LoginTask, NoLogin
<1>6. login' \in LoginTask
  <2>1. token \in Maybe
    BY <1>0 DEF KeychainOK, None
  <2> QED
    BY <1>4, <2>1 DEF SignIn, LoginTask
<1>7. KeychainOK' /\ TasksOK' /\ BoundsOK'
  <2>1. KeychainOK'
    BY <1>0, <1>1, <1>2, <1>3, <1>5 DEF KeychainOK, None
  <2> QED
    BY <1>0, <1>1, <1>3, <1>6, <2>1 DEF TasksOK, BoundsOK
<1>8. TasksInv'
  <2>1. LoginTaskInv'
    BY <1>0, <1>1, <1>2, <1>5 DEF LoginTaskInv, KeychainOK
  <2>2. LeavingTaskInv'
    BY <1>0, <1>1, <1>2, <1>4 DEF LeavingTaskInv
  <2>3. LogoutTasksInv'
    BY <1>0, <1>1, <1>2 DEF LogoutTasksInv
  <2> QED
    BY <1>3, <2>1, <2>2, <2>3 DEF TasksInv
<1>9. \A m \in net : m.from # "login" /\ Sendable(m)' /\ Mail(m)'
  <2> SUFFICES ASSUME NEW m \in net PROVE m.from # "login" /\ Sendable(m)' /\ Mail(m)'
    OBVIOUS
  <2>1. m.from # "login" /\ Mail(m)
    BY <1>1, <1>4, NoLoginMail DEF AuthInv, MailInv
  <2>2. m.from = "refresh" => \E t \in refreshes' : t.stage = "sent" /\ t.token = m.id
    BY <1>3, <2>1 DEF Mail, RefreshMail
  <2>3. m.from = "logout" => \E l \in logouts' : l.id = m.id /\ l.token = m.token /\ l.token # None
    BY <1>1, <2>1 DEF Mail, LogoutMail, Revoking
  <2> QED
    BY <1>2, <2>1, <2>2, <2>3, MailStill
<1>10. net' \subseteq Message /\ MailInv' /\ \A m \in net' : NewPair(m) => m \in net
  <2>1. CASE UNCHANGED net
    BY <1>9, <2>1, MailFrame
  <2>2. CASE /\ token # None /\ login'.token = token /\ login'.pc \in {"pending", "active"}
             /\ net' = net \cup {RevokeFor("login", 0, token)}
    <3>1. token \in 1..issued
      BY <1>0, <2>2 DEF KeychainOK
    <3>2. PICK n \in Message : /\ n = RevokeFor("login", 0, token) /\ n.kind = "revoke"
                               /\ n.token = token /\ n.attempt = "none"
                               /\ n.from = "login" /\ n.id = 0
      BY <3>1, RevokeSent
    <3>3. Sendable(n)' /\ Mail(n)' /\ ~NewPair(n)
      <4>1. n.token = login'.token
        BY <2>2, <3>2
      <4> HIDE DEF token
      <4> QED
        BY <1>2, <2>2, <3>1, <3>2, <4>1 DEF Sendable, Mail, LoginMail, Revoking, NewPair
    <3>4. \A m \in net' : m.from = n.from /\ m.id = n.id => m = n
      BY <1>9, <2>2, <3>2
    <3>5. net' \subseteq Message /\ MailInv'
      BY <1>9, <2>2, <3>2, <3>3, <3>4, MailAdds
    <3> QED
      BY <2>2, <3>2, <3>3, <3>5
  <2> QED
    BY <1>5, <2>1, <2>2
<1>11. FreshInv'
  <2>1. \A p : InUse(p)' => InUse(p) \/ p = None
    BY <1>1, <1>3, <1>5 DEF InUse
  <2> QED
    BY <1>2, <1>3, <1>10, <2>1, FreshFrame
<1>12. KeysInv'
  <2>1. LoginInv'
    BY <1>0, <1>3, <1>5 DEF LoginInv, KeychainOK
  <2>2. CurrentInv' /\ LeavingInv'
    BY <1>1, <1>3, <1>4 DEF CurrentInv, LeavingInv
  <2>3. LogoutInv'
    BY <1>0, <1>1, <1>3, <1>4, <1>5 DEF LogoutInv
  <2> QED
    BY <2>1, <2>2, <2>3 DEF KeysInv
<1>13. StoredIsKept' /\ HandedOutIsCurrent'
  BY <1>0, <1>1, <1>2, <1>3, <1>5 DEF StoredIsKept, HandedOutIsCurrent
<1> QED
  BY <1>2, <1>7, <1>8, <1>10, <1>11, <1>12, <1>13, TypePartsNext DEF AuthInv

LEMMA CrashKeeps ==
  ASSUME AuthInv, Crash
  PROVE  AuthInv'
<1>0. KeychainOK /\ BoundsOK /\ issued \in Nat /\ 0 \in Maybe /\ StoredIsKept
  BY AppFacts
<1>1. /\ UNCHANGED <<serverVars, active, pending, stored>> /\ mem' = None /\ login' = NoLogin
      /\ refreshes' = {} /\ logouts' = {} /\ leaving' = NotGoing /\ phase' = "restoring"
      /\ Fault /\ UNCHANGED <<rotations, signOuts>>
  BY DEF Crash, keyVars
<1>2. TablesOK' /\ SessionsInv' /\ FlowsOK' /\ UNCHANGED <<issued, family, closed>>
  BY <1>1, ServerStill
<1>3. /\ NoLogin \in LoginTask /\ NoLogin.pc = "none" /\ NoLogin.token = None
      /\ NotGoing \in LeavingTask /\ NotGoing.pc = "none" /\ NotGoing.token = None
  BY <1>0 DEF NoLogin, LoginTask, None, NotGoing, LeavingTask
<1>4. KeychainOK' /\ TasksOK' /\ BoundsOK'
  <2>1. BoundsOK'
    BY <1>0, <1>1, AuthAssumption DEF Fault, BoundsOK
  <2>2. KeychainOK'
    BY <1>0, <1>1, <1>2 DEF KeychainOK, None
  <2>3. TasksOK'
    BY <1>1, <1>3 DEF TasksOK
  <2> QED
    BY <2>1, <2>2, <2>3
<1>5. \A n \in net' : Mute(n) /\ ~NewPair(n)
  <2> DEFINE ms == {n \in net : n.kind \notin {"ok", "denied"}}
  <2>1. \A n \in Abandon(ms) : (n \in net /\ n \notin ms) \/ (Mute(n) /\ ~NewPair(n))
    BY AbandonIsMute
  <2>2. net' \subseteq Abandon(ms)
    BY DEF Abandon, Crash
  <2>3. \A n \in net' : n.kind \notin {"ok", "denied"}
    <3> SUFFICES ASSUME NEW m \in ms
                 PROVE  [m EXCEPT !.from = "nobody", !.id = 0].kind \notin {"ok", "denied"}
      BY DEF Crash
    <3>1. m \in Message
      BY DEF AuthInv, MailInv, Sendable
    <3> QED
      BY <3>1 DEF Message
  <2> QED
    BY <2>1, <2>2, <2>3
<1>6. net' \subseteq Message /\ MailInv'
  <2>1. \A n \in net' : n.from = "nobody" /\ Sendable(n)' /\ Mail(n)'
    BY <1>2, <1>5, MuteStill DEF Mute
  <2> QED
    BY <2>1, MailFrame
<1>7. TasksInv'
  BY <1>1, <1>3, FS_EmptySet DEF TasksInv, LoginTaskInv, LeavingTaskInv, RefreshTasksInv,
     LogoutTasksInv, Current
<1>8. FreshInv'
  <2>1. \A p : InUse(p)' => InUse(p) \/ p = None
    BY <1>1, <1>3 DEF InUse
  <2> QED
    BY <1>1, <1>2, <1>5, <2>1, FreshFrame
<1>9. KeysInv'
  BY <1>1, <1>3 DEF KeysInv, LoginInv, CurrentInv, LeavingInv, LogoutInv, Current
<1>10. StoredIsKept' /\ HandedOutIsCurrent'
  BY <1>0, <1>1, <1>2 DEF StoredIsKept, HandedOutIsCurrent
<1> QED
  BY <1>2, <1>4, <1>6, <1>7, <1>8, <1>9, <1>10, TypePartsNext DEF AuthInv

LEMMA LoginRevokedKeeps ==
  ASSUME AuthInv, NEW m \in net, LoginRevoked(m)
  PROVE  AuthInv'
<1> DEFINE left == IF active = login.token THEN None ELSE active
<1>0. /\ KeychainOK /\ TasksOK /\ BoundsOK /\ LoginTaskInv /\ LeavingTaskInv /\ LogoutTasksInv
      /\ LoginInv /\ CurrentInv /\ LeavingInv /\ LogoutInv /\ StoredIsKept /\ HandedOutIsCurrent
      /\ issued \in Nat /\ 0 \in Maybe
      /\ \A p \in 1..issued : p # None /\ p \in Maybe
      /\ \A p \in 0..issued : p # None => p \in 1..issued
  BY AppFacts
<1>1. /\ UNCHANGED <<serverVars, stored, mem, refreshes, logouts, leaving, rotations, signOuts, faults>>
      /\ m.from = "login" /\ m.id = 0 /\ m.kind \in {"ok", "denied"}
      /\ login.pc \in {"pending", "active"}
  BY DEF LoginRevoked, boundVars, Reply
<1>2. TablesOK' /\ SessionsInv' /\ FlowsOK' /\ UNCHANGED <<issued, family, closed>>
  BY <1>1, ServerStill
<1>3. /\ RefreshTasksInv' /\ LogoutTasksInv' /\ Current' = Current
  BY <1>1, <1>2, TasksStill
<1>4. /\ login.token \in 1..issued /\ login \in LoginTask /\ phase = "loading" /\ leaving = NotGoing
      /\ NotGoing.pc = "none" /\ NotGoing.token = None
      /\ NoLogin \in LoginTask /\ NoLogin.pc = "none" /\ NoLogin.token = None
      /\ login.token # None
  BY <1>0, <1>1 DEF LoginTaskInv, LeavingTaskInv, TasksOK, NotGoing, NoLogin, LoginTask, None
<1>5. family[login.token] \in closed
  BY <1>1 DEF AuthInv, MailInv, Mail, LoginMail, Revoking
<1>6. \A n \in net \ {m} : n.from # "login" /\ Sendable(n)' /\ Mail(n)'
  <2> SUFFICES ASSUME NEW n \in net, n # m PROVE n.from # "login" /\ Sendable(n)' /\ Mail(n)'
    OBVIOUS
  <2>1. n.from # "login"
    BY <1>1 DEF AuthInv, MailInv, Mail, LoginMail
  <2> QED
    BY <1>1, <1>2, <2>1, OthersMail
<1>7. CASE /\ ~login.stale /\ login.pc = "pending" /\ left # None /\ pending = login.token
           /\ pending' = left /\ active' = None
           /\ login' = [login EXCEPT !.pc = "active", !.token = left]
           /\ net' = (net \ {m}) \cup {RevokeFor("login", 0, left)}
           /\ UNCHANGED phase
  <2>1. left = active /\ active # login.token /\ active \in 1..issued /\ active \in Maybe
    BY <1>0, <1>7 DEF KeychainOK
  <2>2. pending' = active /\ Current = {} /\ mem = None
    BY <1>0, <1>7, <2>1 DEF LoginInv
  <2>3. /\ login' \in LoginTask /\ login'.pc = "active" /\ login'.token = active
    BY <1>4, <1>7, <2>1 DEF LoginTask
  <2>4. PICK n \in Message : /\ n = RevokeFor("login", 0, active) /\ n.kind = "revoke"
                             /\ n.token = active /\ n.attempt = "none"
                             /\ n.from = "login" /\ n.id = 0
    BY <2>1, RevokeSent
  <2>5. net' = (net \ {m}) \cup {n}
    BY <1>7, <2>1, <2>4
  <2> HIDE DEF left
  <2>6. KeychainOK' /\ TasksOK' /\ BoundsOK'
    BY <1>0, <1>1, <1>2, <1>7, <2>1, <2>2, <2>3 DEF KeychainOK, TasksOK, BoundsOK, None
  <2>7. TasksInv'
    <3>1. LoginTaskInv' /\ LeavingTaskInv'
      BY <1>0, <1>1, <1>2, <1>4, <1>7, <2>1, <2>3 DEF LoginTaskInv, LeavingTaskInv
    <3> QED
      BY <1>3, <3>1 DEF TasksInv
  <2>8. net' \subseteq Message /\ MailInv' /\ \A x \in net' : NewPair(x) => x \in net
    <3>1. Sendable(n)' /\ Mail(n)' /\ ~NewPair(n)
      BY <1>2, <2>1, <2>3, <2>4 DEF Sendable, Mail, LoginMail, Revoking, NewPair
    <3>2. \A x \in net' : x.from = n.from /\ x.id = n.id => x = n
      BY <1>6, <2>4, <2>5
    <3>3. net' \subseteq Message /\ MailInv'
      BY <1>6, <2>5, <3>1, <3>2, MailAdds
    <3> QED
      BY <2>5, <3>1, <3>3
  <2>9. FreshInv'
    <3>1. \A p : InUse(p)' => InUse(p) \/ p = None
      BY <1>1, <1>7, <2>2, <2>3 DEF InUse
    <3> QED
      BY <1>1, <1>2, <2>8, <3>1, FreshFrame
  <2>10. KeysInv'
    <3>1. LoginInv'
      BY <1>1, <1>3, <1>7, <2>2, <2>3 DEF LoginInv
    <3>2. CurrentInv' /\ LeavingInv'
      BY <1>1, <1>3, <1>4, <2>2 DEF CurrentInv, LeavingInv
    <3>3. LogoutInv'
      BY <1>0, <1>1, <1>3, <1>4, <1>7, <2>2, <2>3 DEF LogoutInv
    <3> QED
      BY <3>1, <3>2, <3>3 DEF KeysInv
  <2>11. StoredIsKept' /\ HandedOutIsCurrent'
    BY <1>0, <1>1, <1>2, <1>4, <1>5, <1>7, <2>1, <2>2 DEF StoredIsKept, HandedOutIsCurrent
  <2> QED
    BY <1>2, <2>6, <2>7, <2>8, <2>9, <2>10, <2>11, TypePartsNext DEF AuthInv
<1>8. CASE /\ ForgetRevoked(login.token) /\ net' = net \ {m}
           /\ \/ LoginEnds
              \/ /\ ~login.stale /\ (login.pc = "pending" => left = None)
                 /\ login' = [login EXCEPT !.pc = "start", !.token = None] /\ UNCHANGED phase
  <2>1. /\ active' = left
        /\ active = login.token => Current = {} /\ pending = login.token /\ mem = None
        /\ pending = login.token => Current = {} /\ mem = None
        /\ pending' = IF pending = login.token THEN None ELSE pending
        /\ login.pc = "active" => active = None
    BY <1>0, <1>1, <1>4, <1>8 DEF LoginInv, ForgetRevoked
  <2>2. /\ login' \in LoginTask /\ login'.token = None
        /\ \/ login' = NoLogin /\ phase' = "signedOut"
           \/ login'.pc = "start" /\ ~login'.stale /\ UNCHANGED phase /\ left = None /\ ~login.stale
    <3>1. CASE LoginEnds
      BY <1>4, <3>1 DEF LoginEnds
    <3>2. CASE /\ ~login.stale /\ (login.pc = "pending" => left = None)
               /\ login' = [login EXCEPT !.pc = "start", !.token = None] /\ UNCHANGED phase
      BY <1>0, <1>1, <1>4, <2>1, <3>2 DEF LoginTask, None
    <3> QED
      BY <1>8, <3>1, <3>2
  <2>3. KeychainOK' /\ TasksOK' /\ BoundsOK'
    BY <1>0, <1>1, <1>2, <2>1, <2>2 DEF KeychainOK, TasksOK, BoundsOK, None
  <2>4. TasksInv'
    <3>1. LoginTaskInv' /\ LeavingTaskInv'
      BY <1>0, <1>1, <1>2, <1>4, <2>2 DEF LoginTaskInv, LeavingTaskInv
    <3> QED
      BY <1>3, <3>1 DEF TasksInv
  <2>5. net' \subseteq Message /\ MailInv'
    BY <1>6, <1>8, MailFrame
  <2>6. FreshInv'
    <3>1. \A p : InUse(p)' => InUse(p) \/ p = None
      BY <1>1, <2>1, <2>2 DEF InUse
    <3> QED
      BY <1>1, <1>2, <1>8, <3>1, FreshFrame
  <2>7. KeysInv'
    <3>1. LoginInv'
      BY <1>0, <1>1, <1>3, <1>4, <2>1, <2>2 DEF LoginInv
    <3>2. CurrentInv'
      BY <1>0, <1>1, <1>2, <1>3, <2>1 DEF CurrentInv, Holds
    <3>3. LeavingInv'
      BY <1>1, <1>4 DEF LeavingInv
    <3>4. LogoutInv'
      BY <1>0, <1>1, <1>3, <1>4, <2>1, <2>2 DEF LogoutInv
    <3> QED
      BY <3>1, <3>2, <3>3, <3>4 DEF KeysInv
  <2>8. StoredIsKept'
    BY <1>0, <1>1, <1>2, <1>5, <2>1 DEF StoredIsKept
  <2>9. HandedOutIsCurrent'
    BY <1>0, <1>1, <1>2, <2>1 DEF HandedOutIsCurrent
  <2> QED
    BY <1>2, <2>3, <2>4, <2>5, <2>6, <2>7, <2>8, <2>9, TypePartsNext DEF AuthInv
<1> QED
  BY <1>1, <1>7, <1>8 DEF LoginRevoked

LEMMA LoginExchangedKeeps ==
  ASSUME AuthInv, NEW m \in net, LoginExchanged(m)
  PROVE  AuthInv'
<1>0. /\ KeychainOK /\ TasksOK /\ BoundsOK /\ LoginTaskInv /\ LeavingTaskInv /\ LogoutTasksInv
      /\ LoginInv /\ CurrentInv /\ LeavingInv /\ LogoutInv /\ StoredIsKept /\ HandedOutIsCurrent
      /\ issued \in Nat /\ 0 \in Maybe
      /\ \A p \in 1..issued : p # None /\ p \in Maybe /\ family[p] \in 1..issued
  BY AppFacts
<1>1. /\ UNCHANGED <<serverVars, pending, refreshes, logouts, leaving, rotations, signOuts>>
      /\ m.from = "login" /\ m.id = 0 /\ m.kind \in {"ok", "denied"} /\ login.pc = "exchange"
      /\ ActorFree
  BY DEF LoginExchanged, Reply
<1>2. TablesOK' /\ SessionsInv' /\ FlowsOK' /\ UNCHANGED <<issued, family, closed>>
  BY <1>1, ServerStill
<1>3. /\ RefreshTasksInv' /\ LogoutTasksInv' /\ Current' = Current
  BY <1>1, <1>2, TasksStill
<1>4. /\ active = None /\ Current = {} /\ login.token = None /\ phase = "loading"
      /\ leaving = NotGoing /\ NotGoing.pc = "none" /\ NotGoing.token = None
      /\ NoLogin \in LoginTask /\ NoLogin.pc = "none" /\ NoLogin.token = None
  BY <1>0, <1>1 DEF LoginInv, LoginTaskInv, LeavingTaskInv, NotGoing, NoLogin, LoginTask, None
<1>5. m.kind = "ok" => NewPair(m) /\ Fresh(m.token) /\ m.token \in 1..issued
  <2>1. m.attempt \in Attempts
    BY <1>1 DEF AuthInv, MailInv, Mail, LoginMail
  <2>2. m.kind = "ok" => NewPair(m)
    BY <2>1, AuthAssumption DEF NewPair
  <2> QED
    BY <2>2 DEF AuthInv, FreshInv, Fresh
<1>6. \A n \in net \ {m} : n.from # "login" /\ Sendable(n)' /\ Mail(n)'
  <2> SUFFICES ASSUME NEW n \in net, n # m PROVE n.from # "login" /\ Sendable(n)' /\ Mail(n)'
    OBVIOUS
  <2>1. n.from # "login"
    BY <1>1 DEF AuthInv, MailInv, Mail, LoginMail
  <2> QED
    BY <1>1, <1>2, <2>1, OthersMail
<1>7. BoundsOK'
  BY <1>0, <1>1, AuthAssumption DEF LoginExchanged, Fault, BoundsOK
<1>8. CASE /\ m.kind = "ok" /\ ~login.stale
           /\ active' = m.token /\ stored' = stored \cup {family[m.token]}
           /\ mem' = m.token /\ login' = NoLogin /\ phase' = "signedIn"
           /\ net' = net \ {m}
  <2>1. m.token \in 1..issued /\ family[m.token] \in 1..issued /\ m.token # None /\ ~InUse(m.token)
    BY <1>0, <1>5, <1>8 DEF Fresh
  <2>2. KeychainOK' /\ TasksOK'
    <3>1. KeychainOK'
      <4>1. m.token \in 0..issued
        BY <1>0, <2>1
      <4> QED
        BY <1>0, <1>1, <1>2, <1>8, <2>1, <4>1 DEF KeychainOK
    <3>2. TasksOK'
      BY <1>0, <1>1, <1>4, <1>8 DEF TasksOK
    <3> QED
      BY <3>1, <3>2
  <2>3. TasksInv'
    <3>1. LoginTaskInv' /\ LeavingTaskInv'
      BY <1>0, <1>1, <1>2, <1>4, <1>8 DEF LoginTaskInv, LeavingTaskInv
    <3> QED
      BY <1>3, <3>1 DEF TasksInv
  <2>4. net' \subseteq Message /\ MailInv'
    BY <1>6, <1>8, MailFrame
  <2>5. FreshInv'
    <3>1. \A p : InUse(p)' => InUse(p) \/ p \in {None, m.token}
      BY <1>1, <1>4, <1>8 DEF InUse
    <3>2. \A n \in net' : NewPair(n) => Fresh(n.token) /\ n.token # m.token
      BY <1>5, <1>8 DEF AuthInv, FreshInv
    <3>3. \A n, x \in net' : NewPair(n) /\ NewPair(x) /\ n.token = x.token => n = x
      BY <1>8 DEF AuthInv, FreshInv
    <3>4. \A t \in refreshes' : t.stage \notin {"check", "store"}
      BY <1>1 DEF ActorFree
    <3>5. \A n \in net' : NewPair(n) => Fresh(n.token)'
      BY <1>0, <1>2, <3>1, <3>2 DEF Fresh
    <3> QED
      BY <3>3, <3>4, <3>5 DEF FreshInv, NewPair
  <2>6. KeysInv'
    <3>1. LoginInv' /\ CurrentInv' /\ LeavingInv'
      BY <1>1, <1>3, <1>4, <1>8 DEF LoginInv, CurrentInv, LeavingInv
    <3>2. \A l \in logouts : l.token # m.token /\ (l.token # None => l.token # pending)
      BY <1>0, <1>1, <1>4, <1>8, <2>1 DEF LogoutInv, InUse
    <3>3. LogoutInv'
      BY <1>1, <1>3, <1>4, <1>8, <3>2 DEF LogoutInv
    <3> QED
      BY <3>1, <3>3 DEF KeysInv
  <2>7. StoredIsKept' /\ HandedOutIsCurrent'
    BY <1>0, <1>1, <1>2, <1>4, <1>8, <2>1 DEF StoredIsKept, HandedOutIsCurrent
  <2> QED
    BY <1>2, <1>7, <2>2, <2>3, <2>4, <2>5, <2>6, <2>7, TypePartsNext DEF AuthInv
<1>9. CASE /\ LoginEnds /\ mem' \in {mem, None} /\ UNCHANGED <<active, stored>>
           /\ \/ m.kind = "ok" /\ net' = (net \ {m}) \cup Dropped(m.token)
              \/ net' = net \ {m}
  <2>1. LoginMoves
    BY <1>1, <1>9 DEF LoginEnds, LoginMoves
  <2>2. \A n \in net' : (n \in net /\ n # m) \/ (Mute(n) /\ ~NewPair(n))
    BY <1>5, <1>9, DroppedIsMute
  <2>3. \A n \in net' : Sendable(n)' /\ Mail(n)'
    BY <1>2, <1>6, <2>2, MuteStill
  <2>4. net' \subseteq Message /\ MailInv'
    BY <2>2, <2>3, MailFrame DEF Mute
  <2> QED
    BY <1>1, <1>2, <1>7, <1>9, <2>1, <2>2, <2>4, LoginMovesKeeps, TypePartsNext DEF AuthInv
<1> QED
  BY <1>8, <1>9 DEF LoginExchanged

(* While a refresh of the present session is under way, everything works for that session. *)
LEMMA CurrentFacts ==
  ASSUME AuthInv, NEW t \in Current
  PROVE  /\ Current = {t} /\ t \in refreshes /\ t \in RefreshTask /\ t.token \in 1..issued
         /\ Holds(family[t.token])
         /\ login.pc \in {"none", "pending"}
         /\ login.pc = "pending" => /\ login.token \notin {None, active, pending, t.token}
                                    /\ active # None
         /\ leaving.pc # "none" =>
              family[leaving.token] = family[t.token] /\ (leaving.pc = "remove" => pending # None)
         /\ \A l \in logouts : l.token # None => l.token \notin {active, pending, leaving.token, t.token}
<1>0. /\ TasksOK /\ LoginTaskInv /\ RefreshTasksInv /\ LoginInv /\ CurrentInv /\ LeavingInv
      /\ LogoutInv /\ \A p \in 1..issued : p # None
  BY AppFacts
<1>1. Current = {t} /\ t \in refreshes
  BY <1>0 DEF RefreshTasksInv, Current
<1>2. t \in RefreshTask /\ t.token \in 1..issued
  BY <1>0, <1>1 DEF RefreshTasksInv, TasksOK
<1>3. /\ login.pc \in {"none", "pending"}
      /\ login.pc = "pending" => login.token \notin {None, active, pending, t.token} /\ active # None
  BY <1>0, <1>1 DEF LoginInv, LoginTaskInv, TasksOK, LoginTask
<1>4. leaving.pc # "none" =>
        family[leaving.token] = family[t.token] /\ (leaving.pc = "remove" => pending # None)
  BY <1>0, <1>1 DEF LeavingInv
<1>5. \A l \in logouts : l.token # None => l.token \notin {active, pending, leaving.token, t.token}
  BY <1>0, <1>1 DEF LogoutInv
<1>6. Holds(family[t.token])
  BY <1>0 DEF CurrentInv
<1> QED
  BY <1>1, <1>2, <1>3, <1>4, <1>5, <1>6

(* What the keychain holds afterwards are credentials of that session again. *)
LEMMA CurrentKeeps ==
  ASSUME AuthInv, NEW t \in Current, Current' \subseteq {t} \/ \E u : Current' = {u} /\ u.token = t.token,
         UNCHANGED <<issued, family, closed, login, logouts, leaving>>,
         active' \notin {None, active} => Fresh(active'),
         pending' \in {pending, t.token},
         Holds(family[t.token])',
         active' = None => Current' = {} \/ active = None,
         leaving.pc = "remove" => pending' # None,
         \A u \in Current' : /\ u.stage = "remove" => pending' # None
                             /\ u.stage = "recheck" => pending' # None \/ active' = u.pair
  PROVE  KeysInv'
<1>0. /\ LoginTaskInv /\ LoginInv /\ LogoutInv /\ \A p \in 1..issued : p # None
  BY AppFacts
<1>1. /\ Current = {t} /\ t.token \in 1..issued
      /\ login.pc \in {"none", "pending"}
      /\ login.pc = "pending" => /\ login.token \notin {None, active, pending, t.token}
                                 /\ active # None
      /\ leaving.pc # "none" => family[leaving.token] = family[t.token]
      /\ \A l \in logouts : l.token # None => l.token \notin {active, pending, leaving.token, t.token}
  BY CurrentFacts
<1>2. \A u \in Current' : u.token = t.token
  OBVIOUS
<1>3. LoginInv'
  BY <1>1, <1>2 DEF LoginInv, Fresh, InUse
<1>4. CurrentInv'
  BY <1>2 DEF CurrentInv
<1>5. LeavingInv'
  BY <1>1, <1>2 DEF LeavingInv
<1>6. LogoutInv'
  BY <1>1, <1>2 DEF LogoutInv, Fresh, InUse
<1> QED
  BY <1>3, <1>4, <1>5, <1>6 DEF KeysInv

(* A task ends, or changes its stage. *)
LEMMA TaskEnds ==
  ASSUME AuthInv, NEW t \in refreshes, refreshes' = refreshes \ {t}, UNCHANGED <<issued, family>>
  PROVE  refreshes' \subseteq RefreshTask /\ RefreshTasksInv' /\ Current' = Current \ {t}
<1>0. TasksOK /\ RefreshTasksInv
  BY AppFacts
<1>1. Current' = Current \ {t}
  BY DEF Current
<1> QED
  BY <1>0, <1>1 DEF TasksOK, RefreshTasksInv

LEMMA TaskMoves ==
  ASSUME AuthInv, NEW t \in Current, NEW u \in RefreshTask, ~u.stale, u.token = t.token,
         u.stage \in {"check", "store", "recheck"} =>
           u.pair \in 1..issued /\ family[u.pair] = family[u.token],
         refreshes' = (refreshes \ {t}) \cup {u}, UNCHANGED <<issued, family>>
  PROVE  refreshes' \subseteq RefreshTask /\ RefreshTasksInv' /\ Current' = {u}
<1>0. /\ TasksOK /\ RefreshTasksInv /\ Current = {t} /\ t \in refreshes /\ t.token \in 1..issued
  BY AppFacts, CurrentFacts
<1>1. Current' = {u}
  BY <1>0 DEF Current
<1>2. refreshes' \subseteq RefreshTask
  BY <1>0 DEF TasksOK
<1>3. \A v, w \in refreshes' : v.token = w.token => v = w
  BY <1>0 DEF RefreshTasksInv
<1>4. \A w \in refreshes' : /\ w.token \in 1..issued
                            /\ w.stale => w.stage = "sent"
                            /\ w.stage \in {"check", "store", "recheck"} =>
                                 w.pair \in 1..issued /\ family[w.pair] = family[w.token]
  BY <1>0 DEF RefreshTasksInv
<1> QED
  BY <1>1, <1>2, <1>3, <1>4 DEF RefreshTasksInv

(* Messages for the other tasks. *)
LEMMA OtherRefreshMail ==
  ASSUME AuthInv, NEW t \in refreshes, refreshes \ {t} \subseteq refreshes',
         UNCHANGED <<issued, family, closed, login, logouts>>, NEW m \in net,
         m.from = "refresh" => m.id # t.token
  PROVE  Sendable(m)' /\ Mail(m)'
<1>1. Mail(m)
  BY DEF AuthInv, MailInv
<1>2. m.from = "refresh" => \E u \in refreshes' : u.stage = "sent" /\ u.token = m.id
  BY <1>1 DEF Mail, RefreshMail
<1>3. m.from = "logout" => \E l \in logouts' : l.id = m.id /\ l.token = m.token /\ l.token # None
  BY <1>1 DEF Mail, LogoutMail, Revoking
<1> QED
  BY <1>2, <1>3, MailStill

LEMMA BusyMail ==
  ASSUME AuthInv, NEW t \in refreshes, t.stage # "sent"
  PROVE  \A m \in net : m.from = "refresh" => m.id # t.token
  BY AppFacts DEF AuthInv, MailInv, Mail, RefreshMail, RefreshTasksInv

\* the app's tasks other than the refreshes stay
OtherTasksSame == UNCHANGED <<serverVars, phase, login, logouts, leaving>>

LEMMA OtherTasksKeep ==
  ASSUME AuthInv, OtherTasksSame, refreshes' \subseteq RefreshTask, RefreshTasksInv'
  PROVE  /\ TablesOK' /\ SessionsInv' /\ FlowsOK' /\ UNCHANGED <<issued, family, closed>>
         /\ TasksOK' /\ TasksInv'
<1>0. TasksOK /\ LoginTaskInv /\ LeavingTaskInv /\ LogoutTasksInv
  BY AppFacts
<1>1. TablesOK' /\ SessionsInv' /\ FlowsOK' /\ UNCHANGED <<issued, family, closed>>
  BY ServerStill DEF OtherTasksSame
<1>2. TasksOK'
  BY <1>0 DEF TasksOK, OtherTasksSame
<1>3. LoginTaskInv' /\ LeavingTaskInv' /\ LogoutTasksInv'
  BY <1>0, <1>1 DEF LoginTaskInv, LeavingTaskInv, LogoutTasksInv, OtherTasksSame
<1> QED
  BY <1>1, <1>2, <1>3 DEF TasksInv

LEMMA StartRefreshKeeps ==
  ASSUME AuthInv, OneSessionInv, StartRefresh
  PROVE  AuthInv'
<1>0. /\ KeychainOK /\ TasksOK /\ BoundsOK /\ LoginTaskInv /\ LeavingTaskInv /\ RefreshTasksInv
      /\ LoginInv /\ CurrentInv /\ LeavingInv /\ LogoutInv /\ StoredIsKept /\ HandedOutIsCurrent
      /\ issued \in Nat /\ 0 \in Maybe
      /\ \A p \in 1..issued : p # None /\ p \in Maybe /\ p \in Pairs
      /\ \A p \in 0..issued : p # None => p \in 1..issued
  BY AppFacts
<1>1. /\ OtherTasksSame /\ UNCHANGED <<active, pending, stored>> /\ Current = {}
      /\ mem' \in {mem, None} /\ (pending = None \/ (phase # "loading" /\ mem' = None))
      /\ active # None /\ \A t \in refreshes : t.token # active
  BY DEF StartRefresh, keyVars, OtherTasksSame
<1>2. active \in 1..issued /\ active \in Pairs /\ active \in Maybe
  BY <1>0, <1>1 DEF KeychainOK
<1>3. PICK u \in RefreshTask : /\ u.token = active /\ ~u.stale /\ u.stage = "sent"
                               /\ refreshes' = refreshes \cup {u}
  <2> DEFINE u == [token |-> active, pair |-> None, stale |-> FALSE, stage |-> "sent"]
  <2>1. u \in RefreshTask
    BY <1>0, <1>2 DEF RefreshTask, None
  <2> QED
    BY <2>1 DEF StartRefresh
<1>4. PICK n \in Message : /\ n.kind = "refresh" /\ n.token = active /\ n.attempt = "none"
                           /\ n.from = "refresh" /\ n.id = active /\ net' = net \cup {n}
  <2> DEFINE n == [kind |-> "refresh", token |-> active, attempt |-> "none", from |-> "refresh",
                   id |-> active]
  <2>1. active \in Nat
    BY <1>0, <1>2
  <2>2. n \in Message
    BY <1>2, <2>1 DEF Message
  <2> QED
    BY <2>2 DEF StartRefresh, Request
<1>5. UNCHANGED <<issued, family, closed, login, logouts, leaving>>
  BY <1>1 DEF OtherTasksSame, serverVars
<1>6. refreshes' \subseteq RefreshTask /\ RefreshTasksInv' /\ Current' = {u}
  <2>1. Current' = {u}
    BY <1>1, <1>3 DEF Current
  <2>2. \A t, v \in refreshes' : t.token = v.token => t = v
    BY <1>0, <1>1, <1>3 DEF RefreshTasksInv
  <2>3. \A t \in refreshes' : /\ t.token \in 1..issued
                              /\ t.stale => t.stage = "sent"
                              /\ t.stage \in {"check", "store", "recheck"} =>
                                   t.pair \in 1..issued /\ family[t.pair] = family[t.token]
    BY <1>0, <1>2, <1>3 DEF RefreshTasksInv
  <2> QED
    BY <1>0, <1>3, <1>5, <2>1, <2>2, <2>3 DEF TasksOK, RefreshTasksInv
<1>7. BoundsOK' /\ KeychainOK'
  BY <1>0, <1>1, <1>5, AuthAssumption DEF BoundsOK, KeychainOK, StartRefresh
<1>8. \A m \in net : Sendable(m)' /\ Mail(m)' /\ (m.from = "refresh" => m.id # active)
  <2> SUFFICES ASSUME NEW m \in net
               PROVE  Sendable(m)' /\ Mail(m)' /\ (m.from = "refresh" => m.id # active)
    OBVIOUS
  <2>1. Mail(m)
    BY DEF AuthInv, MailInv
  <2>2. m.from = "refresh" => (\E t \in refreshes' : t.stage = "sent" /\ t.token = m.id) /\ m.id # active
    BY <1>1, <1>3, <2>1 DEF Mail, RefreshMail
  <2>3. m.from = "logout" => \E l \in logouts' : l.id = m.id /\ l.token = m.token /\ l.token # None
    BY <1>5, <2>1 DEF Mail, LogoutMail, Revoking
  <2> QED
    BY <1>5, <2>2, <2>3, MailStill
<1>9. Sendable(n)' /\ Mail(n)' /\ ~NewPair(n)
  BY <1>2, <1>3, <1>4, <1>5 DEF Sendable, Mail, RefreshMail, NewPair
<1>10. net' \subseteq Message /\ MailInv'
  <2>1. \A m \in net' : m.from = n.from /\ m.id = n.id => m = n
    BY <1>4, <1>8
  <2> QED
    BY <1>4, <1>8, <1>9, <2>1, MailAdds
<1>11. FreshInv'
  <2>1. \A p : InUse(p)' => InUse(p) \/ p = None
    BY <1>1, <1>3, <1>5 DEF InUse
  <2> QED
    BY <1>3, <1>4, <1>5, <1>9, <2>1, FreshFrame
<1>12. KeysInv'
  <2>1. LoginInv'
    BY <1>0, <1>1, <1>3, <1>5, <1>6 DEF LoginInv, LoginTaskInv
  <2>2. CurrentInv'
    BY <1>1, <1>3, <1>5, <1>6 DEF CurrentInv, Holds, OneSessionInv
  <2>3. LeavingInv'
    BY <1>0, <1>1, <1>3, <1>5, <1>6 DEF LeavingInv, Holds
  <2>4. LogoutInv'
    BY <1>0, <1>1, <1>3, <1>5, <1>6 DEF LogoutInv
  <2> QED
    BY <2>1, <2>2, <2>3, <2>4 DEF KeysInv
<1>13. StoredIsKept' /\ HandedOutIsCurrent'
  BY <1>0, <1>1, <1>5 DEF StoredIsKept, HandedOutIsCurrent
<1> QED
  BY <1>1, <1>6, <1>7, <1>10, <1>11, <1>12, <1>13, OtherTasksKeep, TypePartsNext DEF AuthInv

(* The refresh is over for a task of an old generation, or goes wrong for the present one. *)
LEMMA StaleEnds ==
  ASSUME AuthInv, NEW t \in refreshes, t.stale, refreshes' = refreshes \ {t}, OtherTasksSame,
         UNCHANGED <<active, pending, stored, mem>>, \A m \in net' : NewPair(m) => m \in net
  PROVE  /\ KeychainOK' /\ TasksOK' /\ TasksInv' /\ FreshInv' /\ KeysInv'
         /\ StoredIsKept' /\ HandedOutIsCurrent'
<1>0. /\ KeychainOK /\ LoginInv /\ CurrentInv /\ LeavingInv /\ LogoutInv
      /\ StoredIsKept /\ HandedOutIsCurrent
  BY AppFacts
<1>1. UNCHANGED <<issued, family, closed, login, logouts, leaving>>
  BY DEF OtherTasksSame, serverVars
<1>2. Current' = Current /\ TasksOK' /\ TasksInv'
  <2>1. refreshes' \subseteq RefreshTask /\ RefreshTasksInv' /\ Current' = Current \ {t}
    BY <1>1, TaskEnds
  <2>2. t \notin Current
    BY DEF Current
  <2> QED
    BY <2>1, <2>2, OtherTasksKeep
<1>3. KeychainOK'
  BY <1>0, <1>1 DEF KeychainOK
<1>4. FreshInv'
  <2>1. \A p : InUse(p)' => InUse(p) \/ p = None
    BY <1>1 DEF InUse
  <2> QED
    BY <1>1, <2>1, FreshFrame
<1>5. KeysInv'
  BY <1>0, <1>1, <1>2 DEF KeysInv, LoginInv, CurrentInv, LeavingInv, LogoutInv, Holds
<1>6. StoredIsKept' /\ HandedOutIsCurrent'
  BY <1>0, <1>1 DEF StoredIsKept, HandedOutIsCurrent
<1> QED
  BY <1>2, <1>3, <1>4, <1>5, <1>6

LEMMA Quarantines ==
  ASSUME AuthInv, NEW t \in Current, mem' = None, pending' = t.token, Move(t, "remove"),
         OtherTasksSame, UNCHANGED <<active, stored>>, \A m \in net' : NewPair(m) => m \in net
  PROVE  /\ KeychainOK' /\ TasksOK' /\ TasksInv' /\ FreshInv' /\ KeysInv'
         /\ StoredIsKept' /\ HandedOutIsCurrent'
<1>0. KeychainOK /\ StoredIsKept /\ issued \in Nat /\ \A p \in 1..issued : p # None
  BY AppFacts
<1>1. UNCHANGED <<issued, family, closed, login, logouts, leaving>>
  BY DEF OtherTasksSame, serverVars
<1>2. /\ Current = {t} /\ t \in refreshes /\ t \in RefreshTask /\ t.token \in 1..issued
      /\ Holds(family[t.token])
  BY CurrentFacts
<1>3. PICK u \in RefreshTask : /\ u.token = t.token /\ u.stage = "remove" /\ ~u.stale
                               /\ refreshes' = (refreshes \ {t}) \cup {u}
  <2>1. ~t.stale
    BY DEF Current
  <2> QED
    BY <1>2, <2>1 DEF Move, RefreshTask
<1>4. refreshes' \subseteq RefreshTask /\ RefreshTasksInv' /\ Current' = {u}
  BY <1>1, <1>3, TaskMoves
<1>5. TasksOK' /\ TasksInv'
  BY <1>4, OtherTasksKeep
<1>6. KeychainOK'
  <2>1. t.token \in 0..issued
    BY <1>0, <1>2
  <2> QED
    BY <1>0, <1>1, <2>1 DEF KeychainOK, None
<1>7. FreshInv'
  <2>1. \A p : InUse(p)' => InUse(p) \/ p = None
    BY <1>1, <1>2, <1>3 DEF InUse
  <2> QED
    BY <1>1, <1>3, <2>1, FreshFrame
<1>8. KeysInv'
  <2>1. Holds(family[t.token])'
    BY <1>1, <1>2 DEF Holds
  <2>2. pending' # None
    BY <1>0, <1>2
  <2> QED
    BY <1>1, <1>2, <1>3, <1>4, <2>1, <2>2, CurrentKeeps, CurrentFacts
<1>9. StoredIsKept' /\ HandedOutIsCurrent'
  BY <1>0, <1>1, <1>2 DEF StoredIsKept, HandedOutIsCurrent, Holds
<1> QED
  BY <1>5, <1>6, <1>7, <1>8, <1>9

(* The task stops where a keychain call threw: the active credential stays. *)
LEMMA CurrentStops ==
  ASSUME AuthInv, NEW t \in Current, refreshes' = refreshes \ {t}, OtherTasksSame,
         UNCHANGED <<active, stored>>,
         (mem' = None /\ pending' \in {pending, t.token}) \/ UNCHANGED <<mem, pending>>,
         \A m \in net' : NewPair(m) => m \in net
  PROVE  /\ KeychainOK' /\ TasksOK' /\ TasksInv' /\ FreshInv' /\ KeysInv'
         /\ StoredIsKept' /\ HandedOutIsCurrent'
<1>0. /\ KeychainOK /\ StoredIsKept /\ HandedOutIsCurrent
      /\ issued \in Nat /\ \A p \in 1..issued : p # None
  BY AppFacts
<1>1. UNCHANGED <<issued, family, closed, login, logouts, leaving>>
  BY DEF OtherTasksSame, serverVars
<1>2. /\ Current = {t} /\ t \in refreshes /\ t.token \in 1..issued /\ Holds(family[t.token])
      /\ leaving.pc = "remove" => pending # None
  BY CurrentFacts
<1>3. refreshes' \subseteq RefreshTask /\ RefreshTasksInv' /\ Current' = {}
  BY <1>1, <1>2, TaskEnds
<1>4. TasksOK' /\ TasksInv'
  BY <1>3, OtherTasksKeep
<1>5. KeychainOK'
  <2>1. t.token \in 0..issued /\ None \in 0..issued
    BY <1>0, <1>2 DEF None
  <2> QED
    BY <1>0, <1>1, <2>1 DEF KeychainOK
<1>6. FreshInv'
  <2>1. \A p : InUse(p)' => InUse(p)
    BY <1>1, <1>2 DEF InUse
  <2> QED
    BY <1>1, <2>1, FreshFrame
<1>7. Holds(family[t.token])'
  BY <1>1, <1>2 DEF Holds
<1>8. KeysInv'
  BY <1>0, <1>1, <1>2, <1>3, <1>7, CurrentKeeps
<1>9. StoredIsKept' /\ HandedOutIsCurrent'
  BY <1>0, <1>1, <1>2, <1>7 DEF StoredIsKept, HandedOutIsCurrent, Holds
<1> QED
  BY <1>4, <1>5, <1>6, <1>8, <1>9

LEMMA RefreshAnsweredKeeps ==
  ASSUME AuthInv, NEW t \in refreshes, RefreshAnswered(t)
  PROVE  AuthInv'
<1>0. /\ KeychainOK /\ TasksOK /\ BoundsOK /\ RefreshTasksInv /\ StoredIsKept /\ HandedOutIsCurrent
      /\ issued \in Nat /\ \A p \in 1..issued : p # None /\ p \in Maybe /\ p \in Pairs
  BY AppFacts
<1>1. /\ OtherTasksSame /\ UNCHANGED <<active, stored, rotations, signOuts>>
      /\ t.stage = "sent" /\ ActorFree
  BY DEF RefreshAnswered, OtherTasksSame
<1>2. UNCHANGED <<issued, family, closed, login, logouts, leaving>>
  BY <1>1 DEF OtherTasksSame, serverVars
<1>3. TablesOK' /\ SessionsInv' /\ FlowsOK'
  BY <1>1, ServerStill DEF OtherTasksSame
<1>4. BoundsOK'
  <2>1. UNCHANGED faults \/ Fault
    BY DEF RefreshAnswered
  <2> QED
    BY <1>0, <1>1, <2>1, AuthAssumption DEF Fault, BoundsOK
<1>5. t \in RefreshTask /\ t.token \in 1..issued
  BY <1>0 DEF TasksOK, RefreshTasksInv
<1>6. refreshes \ {t} \subseteq refreshes'
  BY DEF RefreshAnswered, Move
\* once t has its answer, nothing else is under way for it
<1>7. ASSUME \A n \in net' : \/ n \in net /\ (n.from = "refresh" => n.id # t.token)
                             \/ Mute(n) /\ ~NewPair(n)
      PROVE  net' \subseteq Message /\ MailInv' /\ \A n \in net' : NewPair(n) => n \in net
  <2>1. \A n \in net' : Sendable(n)' /\ Mail(n)'
    BY <1>2, <1>6, <1>7, OtherRefreshMail, MuteStill
  <2>2. net' \subseteq Message /\ MailInv'
    BY <1>7, <2>1, MailFrame DEF Mute
  <2> QED
    BY <1>7, <2>2
<1>8. ASSUME NEW m \in Reply("refresh", t.token)
      PROVE  /\ m \in net /\ m.from = "refresh" /\ m.id = t.token
             /\ \A n \in net \ {m} : n.from = "refresh" => n.id # t.token
             /\ m.kind = "ok" => /\ NewPair(m) /\ Fresh(m.token) /\ m.token \in 1..issued
                                 /\ family[m.token] = family[t.token]
  <2>1. m \in net /\ m.from = "refresh" /\ m.id = t.token
    BY DEF Reply
  <2>2. \A n \in net \ {m} : n.from = "refresh" => n.id # t.token
    BY <2>1 DEF AuthInv, MailInv
  <2>3. m.kind = "ok" => NewPair(m) /\ Fresh(m.token)
    BY <2>1 DEF NewPair, AuthInv, FreshInv
  <2>4. m.kind = "ok" => m.token \in 1..issued /\ family[m.token] = family[t.token]
    BY <2>1 DEF AuthInv, MailInv, Mail, RefreshMail
  <2> QED
    BY <2>1, <2>2, <2>3, <2>4
<1>9. ASSUME NEW m \in Reply("refresh", t.token), m.kind = "ok", UNCHANGED <<mem, pending>>, t.stale,
             refreshes' = refreshes \ {t}, net' = (net \ {m}) \cup Dropped(m.token)
      PROVE  AuthInv'
  <2>1. net' \subseteq Message /\ MailInv' /\ \A n \in net' : NewPair(n) => n \in net
    BY <1>7, <1>8, <1>9, DroppedIsMute
  <2> QED
    BY <1>1, <1>3, <1>4, <1>9, <2>1, StaleEnds, TypePartsNext DEF AuthInv
<1>10. ASSUME NEW m \in Reply("refresh", t.token), m.kind = "ok", UNCHANGED <<mem, pending>>, ~t.stale,
              net' = net \ {m},
              refreshes' = (refreshes \ {t}) \cup {[t EXCEPT !.stage = "check", !.pair = m.token]}
       PROVE  AuthInv'
  <2>1. t \in Current
    BY <1>10 DEF Current
  <2>2. PICK u \in RefreshTask : /\ u.token = t.token /\ u.stage = "check" /\ ~u.stale
                                 /\ u.pair = m.token /\ refreshes' = (refreshes \ {t}) \cup {u}
    <3>1. m.token \in Maybe
      BY <1>0, <1>8, <1>10
    <3> QED
      BY <1>5, <1>10, <3>1 DEF RefreshTask
  <2>3. refreshes' \subseteq RefreshTask /\ RefreshTasksInv' /\ Current' = {u}
    BY <1>2, <1>8, <1>10, <2>1, <2>2, TaskMoves
  <2>4. TasksOK' /\ TasksInv'
    BY <1>1, <2>3, OtherTasksKeep
  <2>5. net' \subseteq Message /\ MailInv'
    BY <1>7, <1>8, <1>10
  <2>6. KeychainOK'
    BY <1>0, <1>1, <1>2, <1>10 DEF KeychainOK
  <2>7. FreshInv'
    <3>1. \A p : InUse(p)' => InUse(p)
      BY <1>1, <1>2, <1>10, <2>2 DEF InUse
    <3>2. \A p : Fresh(p) => Fresh(p)'
      BY <1>2, <3>1 DEF Fresh
    <3>3. \A n \in net' : NewPair(n) => Fresh(n.token)'
      BY <1>10, <3>2 DEF AuthInv, FreshInv
    <3>4. \A n, x \in net' : NewPair(n) /\ NewPair(x) /\ n.token = x.token => n = x
      BY <1>10 DEF AuthInv, FreshInv
    <3>5. \A w \in refreshes' : w.stage \in {"check", "store"} => w = u
      BY <1>1, <2>2 DEF ActorFree
    <3>6. Fresh(u.pair)' /\ \A n \in net' : NewPair(n) => n.token # u.pair
      BY <1>8, <1>10, <2>2, <3>2 DEF AuthInv, FreshInv
    <3> QED
      BY <3>3, <3>4, <3>5, <3>6 DEF FreshInv, NewPair
  <2>8. KeysInv'
    <3>1. Holds(family[t.token])'
      BY <1>1, <1>2, <1>10, <2>1, CurrentFacts DEF Holds
    <3> QED
      BY <1>1, <1>2, <1>10, <2>1, <2>2, <2>3, <3>1, CurrentKeeps, CurrentFacts
  <2>9. StoredIsKept' /\ HandedOutIsCurrent'
    BY <1>0, <1>1, <1>2, <1>10 DEF StoredIsKept, HandedOutIsCurrent
  <2> QED
    BY <1>3, <1>4, <2>4, <2>5, <2>6, <2>7, <2>8, <2>9, TypePartsNext DEF AuthInv
<1>11. ASSUME \/ \E m \in Reply("refresh", t.token) : net' = net \ {m}
              \/ Reply("refresh", t.token) = {} /\ net' = Abandon(Open("refresh", t.token)),
              IF t.stale THEN refreshes' = refreshes \ {t} /\ UNCHANGED <<mem, pending>>
                         ELSE /\ mem' = None
                              /\ \/ pending' = t.token /\ Move(t, "remove")
                                 \/ UNCHANGED pending /\ refreshes' = refreshes \ {t}
       PROVE  AuthInv'
  <2>1. \A n \in net' : \/ n \in net /\ (n.from = "refresh" => n.id # t.token)
                        \/ Mute(n) /\ ~NewPair(n)
    <3>1. ASSUME NEW m \in Reply("refresh", t.token), net' = net \ {m}
          PROVE  \A n \in net' : n \in net /\ (n.from = "refresh" => n.id # t.token)
      BY <1>8, <3>1
    <3>2. CASE Reply("refresh", t.token) = {} /\ net' = Abandon(Open("refresh", t.token))
      <4>1. /\ Open("refresh", t.token) \subseteq net
            /\ \A m \in Open("refresh", t.token) : m.kind \notin {"ok", "denied"}
        BY DEF Open
      <4>2. \A n \in net : n.from = "refresh" /\ n.id = t.token => n \in Open("refresh", t.token)
        BY <3>2 DEF Open, Reply
      <4> QED
        BY <3>2, <4>1, <4>2, AbandonIsMute
    <3> QED
      BY <1>11, <3>1, <3>2
  <2>2. net' \subseteq Message /\ MailInv' /\ \A n \in net' : NewPair(n) => n \in net
    BY <1>7, <2>1
  <2>3. CASE t.stale
    BY <1>1, <1>3, <1>4, <1>11, <2>2, <2>3, StaleEnds, TypePartsNext DEF AuthInv
  <2>4. CASE ~t.stale
    <3>1. t \in Current
      BY <2>4 DEF Current
    <3>2. CASE pending' = t.token /\ Move(t, "remove")
      BY <1>1, <1>3, <1>4, <1>11, <2>2, <2>4, <3>1, <3>2, Quarantines, TypePartsNext DEF AuthInv
    <3>3. CASE UNCHANGED pending /\ refreshes' = refreshes \ {t}
      BY <1>1, <1>3, <1>4, <1>11, <2>2, <2>4, <3>1, <3>3, CurrentStops, TypePartsNext DEF AuthInv
    <3> QED
      BY <1>11, <2>4, <3>2, <3>3
  <2> QED
    BY <2>3, <2>4
<1> QED
  BY <1>9, <1>10, <1>11 DEF RefreshAnswered

(* A pair is given back: the task ends, and the server is told. *)
LEMMA GiveBackKeeps ==
  ASSUME AuthInv, NEW t \in refreshes, t.stage \in {"check", "store", "recheck"}, GiveBack(t),
         OtherTasksSame, active' \in {None, active}, pending' \in {pending, t.token},
         pending' # None, BoundsOK', UNCHANGED stored
  PROVE  AuthInv'
<1>0. /\ KeychainOK /\ TasksOK /\ RefreshTasksInv /\ StoredIsKept
      /\ issued \in Nat /\ \A p \in 1..issued : p # None
      /\ t \in Current
  BY AppFacts
<1>1. UNCHANGED <<issued, family, closed, login, logouts, leaving>>
  BY DEF OtherTasksSame, serverVars
<1>2. TablesOK' /\ SessionsInv' /\ FlowsOK'
  BY ServerStill DEF OtherTasksSame
<1>3. refreshes' = refreshes \ {t} /\ net' = net \cup Dropped(t.pair) /\ mem' = None
  BY DEF GiveBack
<1>4. /\ Current = {t} /\ t.token \in 1..issued /\ Holds(family[t.token]) /\ t.pair \in 1..issued
  BY <1>0, CurrentFacts DEF RefreshTasksInv
<1>5. refreshes' \subseteq RefreshTask /\ RefreshTasksInv' /\ Current' = {}
  BY <1>1, <1>3, <1>4, TaskEnds
<1>6. TasksOK' /\ TasksInv'
  BY <1>5, OtherTasksKeep
<1>7. KeychainOK'
  <2>1. t.token \in 0..issued /\ None \in 0..issued
    BY <1>0, <1>4 DEF None
  <2> QED
    BY <1>0, <1>1, <1>3, <2>1 DEF KeychainOK
<1>8. net' \subseteq Message /\ MailInv' /\ \A n \in net' : NewPair(n) => n \in net
  <2>1. \A n \in net' : n \in net \/ (Mute(n) /\ ~NewPair(n))
    BY <1>3, <1>4, DroppedIsMute
  <2>2. \A n \in net : Sendable(n)' /\ Mail(n)'
    BY <1>1, <1>3, BusyMail, OtherRefreshMail
  <2>3. \A n \in net' : Sendable(n)' /\ Mail(n)'
    BY <1>1, <2>1, <2>2, MuteStill
  <2>4. net' \subseteq Message /\ MailInv'
    BY <2>1, <2>3, MailFrame DEF Mute
  <2> QED
    BY <2>1, <2>4
<1>9. FreshInv'
  <2>1. \A p : InUse(p)' => InUse(p) \/ p = None
    BY <1>1, <1>3 DEF InUse
  <2> QED
    BY <1>1, <1>3, <1>8, <2>1, FreshFrame
<1>10. Holds(family[t.token])'
  BY <1>1, <1>4 DEF Holds
<1>11. KeysInv'
  BY <1>0, <1>1, <1>5, <1>10, CurrentKeeps
<1>12. StoredIsKept' /\ HandedOutIsCurrent'
  BY <1>0, <1>1, <1>4, <1>10 DEF StoredIsKept, HandedOutIsCurrent, Holds
<1> QED
  BY <1>2, <1>6, <1>7, <1>8, <1>9, <1>11, <1>12, TypePartsNext DEF AuthInv

LEMMA RefreshCheckedKeeps ==
  ASSUME AuthInv, NEW t \in refreshes, RefreshChecked(t)
  PROVE  AuthInv'
<1>0. /\ KeychainOK /\ BoundsOK /\ RefreshTasksInv /\ StoredIsKept /\ HandedOutIsCurrent
  BY AppFacts
<1>1. /\ OtherTasksSame /\ UNCHANGED <<active, pending, stored, rotations, signOuts, faults>>
      /\ t.stage = "check"
  BY DEF RefreshChecked, OtherTasksSame, keyVars, boundVars
<1>2. UNCHANGED <<issued, family, closed, login, logouts, leaving>>
  BY <1>1 DEF OtherTasksSame, serverVars
<1>3. TablesOK' /\ SessionsInv' /\ FlowsOK' /\ BoundsOK'
  BY <1>0, <1>1, ServerStill DEF OtherTasksSame, BoundsOK
<1>4. CASE pending # None
  BY <1>1, <1>3, <1>4, GiveBackKeeps DEF RefreshChecked
<1>5. CASE pending = None
  <2>1. Move(t, "store") /\ UNCHANGED <<net, mem>> /\ t \in Current /\ t \in RefreshTask
    BY <1>1, <1>5, AppFacts, CurrentFacts DEF RefreshChecked
  <2>2. PICK u \in RefreshTask : /\ u.token = t.token /\ u.stage = "store" /\ ~u.stale
                                 /\ u.pair = t.pair /\ refreshes' = (refreshes \ {t}) \cup {u}
    <3>1. ~t.stale
      BY <2>1 DEF Current
    <3> QED
      BY <2>1, <3>1 DEF Move, RefreshTask
  <2>3. u.pair \in 1..issued /\ family[u.pair] = family[u.token]
    BY <1>0, <1>1, <2>2 DEF RefreshTasksInv
  <2>4. refreshes' \subseteq RefreshTask /\ RefreshTasksInv' /\ Current' = {u}
    BY <1>2, <2>1, <2>2, <2>3, TaskMoves
  <2>5. TasksOK' /\ TasksInv'
    BY <1>1, <2>4, OtherTasksKeep
  <2>6. net' \subseteq Message /\ MailInv'
    <3>1. \A n \in net : Sendable(n)' /\ Mail(n)'
      BY <1>1, <1>2, <2>2, BusyMail, OtherRefreshMail
    <3> QED
      BY <2>1, <3>1, MailFrame
  <2>7. KeychainOK'
    BY <1>0, <1>1, <1>2, <2>1 DEF KeychainOK
  <2>8. FreshInv'
    <3>1. \A p : InUse(p)' => InUse(p) \/ p = None
      BY <1>1, <1>2, <2>2 DEF InUse
    <3> QED
      BY <1>1, <1>2, <2>1, <2>2, <3>1, FreshFrame
  <2>9. KeysInv'
    <3>1. Holds(family[t.token])'
      BY <1>1, <1>2, <2>1, CurrentFacts DEF Holds
    <3> QED
      BY <1>1, <1>2, <2>1, <2>2, <2>4, <3>1, CurrentKeeps, CurrentFacts
  <2>10. StoredIsKept' /\ HandedOutIsCurrent'
    BY <1>0, <1>1, <1>2, <2>1 DEF StoredIsKept, HandedOutIsCurrent
  <2> QED
    BY <1>3, <2>5, <2>6, <2>7, <2>8, <2>9, <2>10, TypePartsNext DEF AuthInv
<1> QED
  BY <1>4, <1>5

LEMMA RefreshStoredKeeps ==
  ASSUME AuthInv, NEW t \in refreshes, RefreshStored(t)
  PROVE  AuthInv'
<1>0. /\ KeychainOK /\ BoundsOK /\ RefreshTasksInv /\ StoredIsKept /\ HandedOutIsCurrent
      /\ issued \in Nat /\ \A p \in 1..issued : p # None /\ family[p] \in 1..issued
  BY AppFacts
<1>1. /\ OtherTasksSame /\ UNCHANGED <<rotations, signOuts>> /\ t.stage = "store"
  BY DEF RefreshStored, OtherTasksSame
<1>2. UNCHANGED <<issued, family, closed, login, logouts, leaving>>
  BY <1>1 DEF OtherTasksSame, serverVars
<1>3. TablesOK' /\ SessionsInv' /\ FlowsOK' /\ BoundsOK'
  <2>1. UNCHANGED faults \/ Fault
    BY DEF RefreshStored
  <2>2. BoundsOK'
    BY <1>0, <1>1, <2>1, AuthAssumption DEF Fault, BoundsOK
  <2> QED
    BY <1>1, <2>2, ServerStill DEF OtherTasksSame
<1>4. /\ t \in Current /\ t \in RefreshTask /\ t.token \in 1..issued /\ Current = {t}
      /\ Holds(family[t.token]) /\ t.pair \in 1..issued /\ family[t.pair] = family[t.token]
  BY <1>0, <1>1, AppFacts, CurrentFacts DEF RefreshTasksInv
<1>5. CASE pending' = t.token /\ active' = None /\ GiveBack(t) /\ UNCHANGED stored
  BY <1>0, <1>1, <1>3, <1>4, <1>5, GiveBackKeeps
<1>6. CASE /\ active' = t.pair /\ stored' = stored \cup {family[t.pair]} /\ Move(t, "recheck")
           /\ UNCHANGED <<pending, net, mem>>
  <2>1. /\ Fresh(t.pair) /\ t.pair # None
        /\ \A m \in net : NewPair(m) => m.token # t.pair
    BY <1>0, <1>1, <1>4 DEF AuthInv, FreshInv
  <2>2. PICK u \in RefreshTask : /\ u.token = t.token /\ u.stage = "recheck" /\ ~u.stale
                                 /\ u.pair = t.pair /\ refreshes' = (refreshes \ {t}) \cup {u}
    <3>1. ~t.stale
      BY <1>4 DEF Current
    <3> QED
      BY <1>4, <1>6, <3>1 DEF Move, RefreshTask
  <2>3. refreshes' \subseteq RefreshTask /\ RefreshTasksInv' /\ Current' = {u}
    BY <1>2, <1>4, <2>2, TaskMoves
  <2>4. TasksOK' /\ TasksInv'
    BY <1>1, <2>3, OtherTasksKeep
  <2>5. net' \subseteq Message /\ MailInv'
    <3>1. \A n \in net : Sendable(n)' /\ Mail(n)'
      BY <1>1, <1>2, <2>2, BusyMail, OtherRefreshMail
    <3> QED
      BY <1>6, <3>1, MailFrame
  <2>6. KeychainOK'
    <3>1. t.pair \in 0..issued /\ family[t.pair] \in 1..issued
      BY <1>0, <1>4
    <3> QED
      BY <1>0, <1>2, <1>6, <3>1 DEF KeychainOK
  <2>7. FreshInv'
    <3>1. \A p : InUse(p)' => InUse(p) \/ p = t.pair
      BY <1>2, <1>6, <2>2 DEF InUse
    <3>2. \A p : Fresh(p) /\ p # t.pair => Fresh(p)'
      BY <1>2, <3>1 DEF Fresh
    <3>3. \A n \in net' : NewPair(n) => Fresh(n.token)'
      BY <1>6, <2>1, <3>2 DEF AuthInv, FreshInv
    <3>4. \A n, x \in net' : NewPair(n) /\ NewPair(x) /\ n.token = x.token => n = x
      BY <1>6 DEF AuthInv, FreshInv
    <3>5. \A w \in refreshes' : w.stage \notin {"check", "store"}
      BY <1>4, <2>2, AppFacts
    <3> QED
      BY <3>3, <3>4, <3>5 DEF FreshInv, NewPair
  <2>8. KeysInv'
    <3>1. Holds(family[t.token])'
      BY <1>2, <1>4, <1>6 DEF Holds
    <3> QED
      BY <1>2, <1>4, <1>6, <2>1, <2>2, <2>3, <3>1, CurrentKeeps, CurrentFacts
  <2>9. StoredIsKept'
    BY <1>0, <1>2, <1>4, <1>6, <2>1 DEF StoredIsKept, Holds
  <2>10. HandedOutIsCurrent'
    BY <1>0, <1>2, <1>4, <1>6, <2>1 DEF HandedOutIsCurrent, Holds
  <2> QED
    BY <1>3, <2>4, <2>5, <2>6, <2>7, <2>8, <2>9, <2>10, TypePartsNext DEF AuthInv
<1> QED
  BY <1>5, <1>6 DEF RefreshStored

(* The task ends, without anything to give back. *)
LEMMA RefreshDoneKeeps ==
  ASSUME AuthInv, NEW t \in refreshes, t.stage \in {"recheck", "remove"}, refreshes' = refreshes \ {t},
         OtherTasksSame, UNCHANGED <<pending, stored, net, rotations, signOuts, faults>>,
         \/ active' = None /\ pending # None /\ mem' = mem
         \/ active' = active /\ pending = None /\ active = t.pair /\ mem' = t.pair /\ t.stage = "recheck"
  PROVE  AuthInv'
<1>0. /\ KeychainOK /\ BoundsOK /\ RefreshTasksInv /\ StoredIsKept
      /\ issued \in Nat /\ \A p \in 1..issued : p # None
  BY AppFacts
<1>1. UNCHANGED <<issued, family, closed, login, logouts, leaving>>
  BY DEF OtherTasksSame, serverVars
<1>2. TablesOK' /\ SessionsInv' /\ FlowsOK' /\ BoundsOK'
  BY <1>0, ServerStill DEF OtherTasksSame, BoundsOK
<1>3. /\ t \in Current /\ Current = {t} /\ t.token \in 1..issued /\ Holds(family[t.token])
      /\ t.stage = "recheck" => t.pair \in 1..issued
  BY <1>0, AppFacts, CurrentFacts DEF RefreshTasksInv
<1>4. refreshes' \subseteq RefreshTask /\ RefreshTasksInv' /\ Current' = {}
  BY <1>1, <1>3, TaskEnds
<1>5. TasksOK' /\ TasksInv'
  BY <1>4, OtherTasksKeep
<1>6. net' \subseteq Message /\ MailInv'
  <2>1. \A n \in net : Sendable(n)' /\ Mail(n)'
    BY <1>1, BusyMail, OtherRefreshMail
  <2> QED
    BY <2>1, MailFrame
<1>7. KeychainOK'
  BY <1>0, <1>1 DEF KeychainOK, None
<1>8. FreshInv'
  <2>1. \A p : InUse(p)' => InUse(p) \/ p = None
    BY <1>1 DEF InUse
  <2> QED
    BY <1>1, <2>1, FreshFrame
<1>9. Holds(family[t.token])'
  BY <1>1, <1>3 DEF Holds
<1>10. KeysInv'
  BY <1>1, <1>3, <1>4, <1>9, CurrentKeeps, CurrentFacts
<1>11. StoredIsKept' /\ HandedOutIsCurrent'
  BY <1>0, <1>1, <1>3 DEF StoredIsKept, HandedOutIsCurrent, Holds
<1> QED
  BY <1>2, <1>5, <1>6, <1>7, <1>8, <1>10, <1>11, TypePartsNext DEF AuthInv

LEMMA RefreshRecheckedKeeps ==
  ASSUME AuthInv, NEW t \in refreshes, RefreshRechecked(t)
  PROVE  AuthInv'
<1>1. /\ OtherTasksSame /\ UNCHANGED <<pending, stored, rotations, signOuts, faults>>
      /\ t.stage = "recheck"
  BY DEF RefreshRechecked, OtherTasksSame, boundVars
<1>2. CASE pending # None
  <2>1. BoundsOK'
    BY <1>1, AppFacts DEF BoundsOK
  <2> QED
    BY <1>1, <1>2, <2>1, GiveBackKeeps DEF RefreshRechecked
<1>3. CASE pending = None
  <2>1. active = t.pair
    BY <1>1, <1>3, AppFacts DEF CurrentInv
  <2> QED
    BY <1>1, <1>3, <2>1, RefreshDoneKeeps DEF RefreshRechecked
<1> QED
  BY <1>2, <1>3

LEMMA RefreshRemovedKeeps ==
  ASSUME AuthInv, NEW t \in refreshes, RefreshRemoved(t)
  PROVE  AuthInv'
<1>1. pending # None
  BY AppFacts DEF RefreshRemoved, CurrentInv
<1> QED
  BY <1>1, RefreshDoneKeeps DEF RefreshRemoved, OtherTasksSame, boundVars

LEMMA RefreshKeychainFailsKeeps ==
  ASSUME AuthInv, NEW t \in refreshes, RefreshKeychainFails(t)
  PROVE  AuthInv'
<1>0. BoundsOK /\ RefreshTasksInv
  BY AppFacts
<1>1. /\ OtherTasksSame /\ UNCHANGED <<active, stored, rotations, signOuts>> /\ Fault
      /\ refreshes' = refreshes \ {t} /\ t.stage # "sent"
  BY DEF RefreshKeychainFails, OtherTasksSame
<1>2. UNCHANGED <<issued, family, closed, login, logouts, leaving>>
  BY <1>1 DEF OtherTasksSame, serverVars
<1>3. TablesOK' /\ SessionsInv' /\ FlowsOK' /\ BoundsOK'
  <2>1. BoundsOK'
    BY <1>0, <1>1, AuthAssumption DEF Fault, BoundsOK
  <2> QED
    BY <1>1, <2>1, ServerStill DEF OtherTasksSame
<1>4. t \in Current
  BY <1>0, <1>1 DEF Current, RefreshTasksInv
<1>5. \A n \in net' : n \in net \/ (Mute(n) /\ ~NewPair(n))
  <2>1. CASE t.stage = "check" /\ GiveBack(t)
    <3>1. t.pair \in 1..issued
      BY <1>0, <2>1 DEF RefreshTasksInv
    <3> QED
      BY <2>1, <3>1, DroppedIsMute DEF GiveBack
  <2>2. CASE net' = net
    BY <2>2
  <2> QED
    BY <2>1, <2>2 DEF RefreshKeychainFails
<1>6. net' \subseteq Message /\ MailInv' /\ \A n \in net' : NewPair(n) => n \in net
  <2>1. \A n \in net : Sendable(n)' /\ Mail(n)'
    BY <1>1, <1>2, BusyMail, OtherRefreshMail
  <2>2. \A n \in net' : Sendable(n)' /\ Mail(n)'
    BY <1>2, <1>5, <2>1, MuteStill
  <2>3. net' \subseteq Message /\ MailInv'
    BY <1>5, <2>2, MailFrame DEF Mute
  <2> QED
    BY <1>5, <2>3
<1>7. (mem' = None /\ pending' \in {pending, t.token}) \/ UNCHANGED <<mem, pending>>
  BY DEF RefreshKeychainFails, GiveBack
<1> QED
  BY <1>1, <1>3, <1>4, <1>6, <1>7, CurrentStops, TypePartsNext DEF AuthInv

LEMMA LogoutRunsKeeps ==
  ASSUME AuthInv, NEW l \in logouts, LogoutRuns(l)
  PROVE  AuthInv'
<1> DEFINE token == IF pending # None THEN pending ELSE active
<1>0. /\ KeychainOK /\ TasksOK /\ BoundsOK /\ LoginTaskInv /\ LeavingTaskInv /\ LogoutTasksInv
      /\ LoginInv /\ CurrentInv /\ LeavingInv /\ LogoutInv /\ StoredIsKept
      /\ issued \in Nat /\ 0 \in Maybe
      /\ \A p \in 1..issued : p # None /\ p \in Maybe
      /\ \A p \in 0..issued : p # None => p \in 1..issued
  BY AppFacts
<1>1. /\ UNCHANGED <<serverVars, stored, phase, leaving, rotations, signOuts, faults>>
      /\ ActorFree /\ Invalidate /\ l.token = None
      /\ login' = IF login = NoLogin THEN login ELSE LoginStale
  BY DEF LogoutRuns, boundVars
<1>2. TablesOK' /\ SessionsInv' /\ FlowsOK' /\ UNCHANGED <<issued, family, closed>>
  BY <1>1, ServerStill
<1>3. /\ refreshes' \subseteq RefreshTask /\ Current' = {} /\ RefreshTasksInv' /\ mem' = None
      /\ \A u \in refreshes' : u.stage = "sent" /\ \E t \in refreshes : t.token = u.token
      /\ \A t \in refreshes : \E u \in refreshes' : u.stage = "sent" /\ u.token = t.token
  BY <1>1, <1>2, StaleKeeps
<1>4. /\ login' \in LoginTask /\ login'.pc = login.pc /\ login'.token = login.token
      /\ login'.attempt = login.attempt
      /\ login'.pc # "none" => login'.stale
      /\ login'.pc = "none" => login' = NoLogin
  <2>1. login \in LoginTask /\ (login.pc = "none" => login = NoLogin) /\ NoLogin.pc = "none"
    BY <1>0 DEF TasksOK, LoginTaskInv, NoLogin
  <2>2. CASE login = NoLogin
    BY <1>1, <2>1, <2>2
  <2>3. CASE login # NoLogin
    BY <1>1, <2>1, <2>3 DEF LoginStale, LoginTask
  <2> QED
    BY <2>2, <2>3
<1>5. \A m \in net : m.from = "logout" => m.id # l.id
  BY <1>0, <1>1 DEF AuthInv, MailInv, Mail, LogoutMail, LogoutTasksInv
<1>6. logouts \ {l} \subseteq logouts'
  BY DEF LogoutRuns
<1>7. \A m \in net : Sendable(m)' /\ Mail(m)'
  <2> SUFFICES ASSUME NEW m \in net PROVE Sendable(m)' /\ Mail(m)'
    OBVIOUS
  <2>1. Mail(m)
    BY DEF AuthInv, MailInv
  <2>2. m.from = "refresh" => \E t \in refreshes' : t.stage = "sent" /\ t.token = m.id
    BY <1>3, <2>1 DEF Mail, RefreshMail
  <2>3. m.from = "logout" => \E k \in logouts' : k.id = m.id /\ k.token = m.token /\ k.token # None
    BY <1>5, <1>6, <2>1 DEF Mail, LogoutMail, Revoking
  <2> QED
    BY <1>2, <1>4, <2>2, <2>3, MailStill
<1>8. LoginTaskInv' /\ LeavingTaskInv'
  BY <1>0, <1>1, <1>2, <1>4 DEF LoginTaskInv, LeavingTaskInv
<1>9. BoundsOK'
  BY <1>0, <1>1 DEF BoundsOK
<1>10. IsFiniteSet(logouts \ {l})
  BY <1>0, FS_RemoveElement DEF LogoutTasksInv
<1>11. CASE logouts' = logouts \ {l} /\ UNCHANGED <<net, active, pending>>
  <2>1. KeychainOK' /\ TasksOK'
    <3>1. KeychainOK'
      BY <1>0, <1>1, <1>2, <1>3, <1>11 DEF KeychainOK, None
    <3> QED
      BY <1>0, <1>1, <1>3, <1>4, <1>11, <3>1 DEF TasksOK
  <2>2. TasksInv'
    BY <1>0, <1>2, <1>3, <1>8, <1>10, <1>11 DEF TasksInv, LogoutTasksInv
  <2>3. net' \subseteq Message /\ MailInv'
    BY <1>7, <1>11, MailFrame
  <2>4. FreshInv'
    <3>1. \A p : InUse(p)' => InUse(p) \/ p = None
      BY <1>1, <1>3, <1>4, <1>11 DEF InUse
    <3> QED
      BY <1>2, <1>3, <1>11, <3>1, FreshFrame
  <2>5. KeysInv'
    <3>1. LoginInv'
      BY <1>0, <1>3, <1>4, <1>11 DEF LoginInv
    <3>2. CurrentInv'
      BY <1>3 DEF CurrentInv
    <3>3. LeavingInv'
      BY <1>0, <1>1, <1>2, <1>3, <1>11 DEF LeavingInv, Holds
    <3>4. LogoutInv'
      BY <1>0, <1>1, <1>3, <1>4, <1>11 DEF LogoutInv
    <3> QED
      BY <3>1, <3>2, <3>3, <3>4 DEF KeysInv
  <2>6. StoredIsKept' /\ HandedOutIsCurrent'
    BY <1>0, <1>1, <1>2, <1>3, <1>11 DEF StoredIsKept, HandedOutIsCurrent
  <2> QED
    BY <1>2, <1>9, <2>1, <2>2, <2>3, <2>4, <2>5, <2>6, TypePartsNext DEF AuthInv
<1>12. CASE /\ ~Blocked /\ token # None /\ pending' = token /\ active' = None
            /\ logouts' = (logouts \ {l}) \cup {[l EXCEPT !.token = token]}
            /\ net' = net \cup {RevokeFor("logout", l.id, token)}
  <2>1. /\ token \in 1..issued /\ token \in {active, pending}
        /\ active # None => active = token
        /\ pending # None => pending = token
    BY <1>0, <1>12 DEF Blocked, KeychainOK
  <2>2. PICK p \in 1..issued : p = token
    BY <2>1
  <2>3. /\ p \in {active, pending} /\ p # None /\ p \in Maybe
        /\ active # None => active = p
        /\ pending # None => pending = p
        /\ pending' = p /\ active' = None
        /\ logouts' = (logouts \ {l}) \cup {[l EXCEPT !.token = p]}
        /\ net' = net \cup {RevokeFor("logout", l.id, p)}
    BY <1>0, <1>12, <2>1, <2>2
  <2> HIDE DEF token
  <2>4. PICK k \in LogoutTask : /\ k.id = l.id /\ k.token = p
                                /\ logouts' = (logouts \ {l}) \cup {k}
    <3>1. l \in LogoutTask
      BY <1>0 DEF TasksOK
    <3> QED
      BY <2>3, <3>1 DEF LogoutTask
  <2>5. PICK n \in Message : /\ n = RevokeFor("logout", l.id, p) /\ n.kind = "revoke"
                             /\ n.token = p /\ n.attempt = "none"
                             /\ n.from = "logout" /\ n.id = l.id
    <3>1. l.id \in Nat
      BY <1>0 DEF TasksOK, LogoutTask
    <3> QED
      BY <3>1, RevokeSent
  <2>6. KeychainOK' /\ TasksOK'
    <3>1. KeychainOK'
      BY <1>0, <1>1, <1>2, <1>3, <2>3 DEF KeychainOK, None
    <3> QED
      BY <1>0, <1>1, <1>3, <1>4, <2>4, <3>1 DEF TasksOK
  <2>7. TasksInv'
    <3>1. IsFiniteSet(logouts')
      BY <1>10, <2>4, FS_AddElement
    <3>2. \A x, y \in logouts' : x.id = y.id => x = y
      BY <1>0, <2>4 DEF LogoutTasksInv
    <3>3. p \in 0..issued
      BY <1>0
    <3>4. \A x \in logouts' : x.token \in 0..issued
      BY <1>0, <2>4, <3>3 DEF LogoutTasksInv
    <3> QED
      BY <1>2, <1>3, <1>8, <3>1, <3>2, <3>4 DEF TasksInv, LogoutTasksInv
  <2>8. net' \subseteq Message /\ MailInv' /\ \A m \in net' : NewPair(m) => m \in net
    <3>1. Sendable(n)' /\ Mail(n)' /\ ~NewPair(n)
      BY <1>2, <2>3, <2>4, <2>5 DEF Sendable, Mail, LogoutMail, Revoking, NewPair
    <3>2. net' = net \cup {n}
      BY <2>3, <2>5
    <3>3. \A m \in net' : m.from = n.from /\ m.id = n.id => m = n
      BY <1>5, <2>5, <3>2
    <3>4. net' \subseteq Message /\ MailInv'
      BY <1>7, <3>1, <3>2, <3>3, MailAdds
    <3> QED
      BY <3>1, <3>2, <3>4
  <2>9. FreshInv'
    <3>1. \A x : InUse(x)' => InUse(x) \/ x = None
      BY <1>1, <1>3, <1>4, <2>3, <2>4 DEF InUse
    <3> QED
      BY <1>2, <1>3, <2>8, <3>1, FreshFrame
  <2>10. KeysInv'
    <3>1. LoginInv'
      BY <1>0, <1>3, <1>4, <2>3 DEF LoginInv, LoginTaskInv
    <3>2. CurrentInv'
      BY <1>3 DEF CurrentInv
    <3>3. LeavingInv'
      BY <1>0, <1>1, <1>2, <1>3, <2>3 DEF LeavingInv, Holds
    <3>4. LogoutInv'
      BY <1>1, <1>3, <1>4, <2>3 DEF LogoutInv
    <3> QED
      BY <3>1, <3>2, <3>3, <3>4 DEF KeysInv
  <2>11. StoredIsKept' /\ HandedOutIsCurrent'
    BY <1>0, <1>1, <1>2, <1>3, <2>3 DEF StoredIsKept, HandedOutIsCurrent
  <2> QED
    BY <1>2, <1>9, <2>6, <2>7, <2>8, <2>9, <2>10, <2>11, TypePartsNext DEF AuthInv
<1> QED
  BY <1>11, <1>12 DEF LogoutRuns

LEMMA LogoutRevokedKeeps ==
  ASSUME AuthInv, NEW l \in logouts, LogoutRevoked(l)
  PROVE  AuthInv'
<1>0. /\ KeychainOK /\ TasksOK /\ BoundsOK /\ LoginTaskInv /\ LeavingTaskInv /\ LogoutTasksInv
      /\ RefreshTasksInv
      /\ LoginInv /\ CurrentInv /\ LeavingInv /\ LogoutInv /\ StoredIsKept /\ HandedOutIsCurrent
      /\ issued \in Nat /\ \A p \in 1..issued : p # None
  BY AppFacts
<1>1. /\ UNCHANGED <<serverVars, stored, mem, phase, login, refreshes, leaving, rotations, signOuts>>
      /\ logouts' = logouts \ {l} /\ l.token # None
  BY DEF LogoutRevoked
<1>2. TablesOK' /\ SessionsInv' /\ FlowsOK' /\ UNCHANGED <<issued, family, closed>>
  BY <1>1, ServerStill
<1>3. BoundsOK'
  <2>1. UNCHANGED faults \/ Fault
    BY DEF LogoutRevoked
  <2> QED
    BY <1>0, <1>1, <2>1, AuthAssumption DEF Fault, BoundsOK
<1>4. \A n \in net' : \/ n \in net /\ (n.from = "logout" => n.id # l.id)
                      \/ Mute(n) /\ ~NewPair(n)
  <2>1. CASE Reply("logout", l.id) # {} /\ net' = net \ Reply("logout", l.id)
    <3>1. \A n \in net : n.from = "logout" /\ n.id = l.id => n \in Reply("logout", l.id)
      BY <2>1 DEF Reply, AuthInv, MailInv
    <3> QED
      BY <2>1, <3>1
  <2>2. CASE Reply("logout", l.id) = {} /\ net' = Abandon(Open("logout", l.id))
    <3>1. /\ Open("logout", l.id) \subseteq net
          /\ \A m \in Open("logout", l.id) : m.kind \notin {"ok", "denied"}
      BY DEF Open
    <3>2. \A n \in net : n.from = "logout" /\ n.id = l.id => n \in Open("logout", l.id)
      BY <2>2 DEF Open, Reply
    <3> QED
      BY <2>2, <3>1, <3>2, AbandonIsMute
  <2> QED
    BY <2>1, <2>2 DEF LogoutRevoked
<1>5. \/ UNCHANGED <<active, pending>>
      \/ /\ family[l.token] \in closed /\ pending = l.token /\ pending' = None /\ UNCHANGED active
  <2>1. CASE Reply("logout", l.id) # {} /\ ForgetRevoked(l.token)
    <3>1. PICK m \in net : m.from = "logout" /\ m.id = l.id /\ m.kind \in {"ok", "denied"}
      BY <2>1 DEF Reply
    <3>2. family[l.token] \in closed
      BY <1>0, <3>1 DEF AuthInv, MailInv, Mail, LogoutMail, Revoking, LogoutTasksInv
    <3>3. active # l.token
      BY <1>0, <1>1 DEF LogoutInv
    <3> QED
      BY <2>1, <3>2, <3>3 DEF ForgetRevoked
  <2> QED
    BY <2>1 DEF LogoutRevoked
<1>6. pending # pending' => active = None /\ mem = None /\ Current = {}
  BY <1>0, <1>1, <1>5 DEF LogoutInv
<1>7. Current' = Current
  BY <1>1 DEF Current
<1>8. KeychainOK' /\ TasksOK'
  <2>1. KeychainOK'
    BY <1>0, <1>1, <1>2, <1>5 DEF KeychainOK, None
  <2> QED
    BY <1>0, <1>1, <2>1 DEF TasksOK
<1>9. TasksInv'
  <2>1. IsFiniteSet(logouts')
    BY <1>0, <1>1, FS_RemoveElement DEF LogoutTasksInv
  <2>2. LogoutTasksInv'
    BY <1>0, <1>1, <1>2, <2>1 DEF LogoutTasksInv
  <2>3. LoginTaskInv' /\ LeavingTaskInv'
    BY <1>0, <1>1, <1>2 DEF LoginTaskInv, LeavingTaskInv
  <2>4. RefreshTasksInv'
    BY <1>0, <1>1, <1>2, <1>7 DEF RefreshTasksInv
  <2> QED
    BY <2>2, <2>3, <2>4 DEF TasksInv
<1>10. net' \subseteq Message /\ MailInv'
  <2>1. ASSUME NEW n \in net, n.from = "logout" => n.id # l.id PROVE Sendable(n)' /\ Mail(n)'
    <3>1. Mail(n)
      BY DEF AuthInv, MailInv
    <3>2. n.from = "refresh" => \E t \in refreshes' : t.stage = "sent" /\ t.token = n.id
      BY <1>1, <3>1 DEF Mail, RefreshMail
    <3>3. n.from = "logout" => \E k \in logouts' : k.id = n.id /\ k.token = n.token /\ k.token # None
      BY <1>1, <2>1, <3>1 DEF Mail, LogoutMail, Revoking
    <3> QED
      BY <1>1, <1>2, <3>2, <3>3, MailStill
  <2>2. \A n \in net' : Sendable(n)' /\ Mail(n)'
    BY <1>2, <1>4, <2>1, MuteStill
  <2> QED
    BY <1>4, <2>2, MailFrame DEF Mute
<1>11. FreshInv'
  <2>1. \A p : InUse(p)' => InUse(p) \/ p = None
    BY <1>1, <1>5 DEF InUse
  <2> QED
    BY <1>1, <1>2, <1>4, <2>1, FreshFrame
<1>12. KeysInv'
  <2>1. LoginInv'
    BY <1>0, <1>1, <1>5, <1>6, <1>7 DEF LoginInv, LoginTaskInv
  <2>2. CurrentInv'
    BY <1>0, <1>1, <1>2, <1>5, <1>6, <1>7 DEF CurrentInv, Holds
  <2>3. LeavingInv'
    BY <1>0, <1>1, <1>2, <1>5, <1>6, <1>7 DEF LeavingInv, Holds
  <2>4. LogoutInv'
    BY <1>0, <1>1, <1>5, <1>7 DEF LogoutInv
  <2> QED
    BY <2>1, <2>2, <2>3, <2>4 DEF KeysInv
<1>13. StoredIsKept' /\ HandedOutIsCurrent'
  BY <1>0, <1>1, <1>2, <1>5, <1>6 DEF StoredIsKept, HandedOutIsCurrent
<1> QED
  BY <1>2, <1>3, <1>8, <1>9, <1>10, <1>11, <1>12, <1>13, TypePartsNext DEF AuthInv

(* A logout() that is queued has an id of its own: one of the first n + 1 numbers is not *)
(* the id of any of the n at work.                                                       *)
LEMMA QueueKeeps ==
  ASSUME AuthInv, QueueLogout, UNCHANGED issued
  PROVE  /\ logouts' \subseteq LogoutTask /\ LogoutTasksInv'
         /\ \E k : k.token = None /\ logouts' = logouts \cup {k}
<1> DEFINE n == Cardinality(logouts)
           free(i) == \A l \in logouts : l.id # i
           id == CHOOSE i \in 1..(n + 1) : free(i)
<1>0. LogoutTasksInv /\ logouts \subseteq LogoutTask /\ issued \in Nat /\ 0 \in Maybe
  BY AppFacts DEF TasksOK
<1>1. IsFiniteSet(logouts) /\ n \in Nat
  BY <1>0, FS_CardinalityType DEF LogoutTasksInv
<1>2. \E i \in 1..(n + 1) : free(i)
  <2> SUFFICES ASSUME \A i \in 1..(n + 1) : \E l \in logouts : l.id = i
               PROVE  FALSE
    OBVIOUS
  <2> DEFINE S == {l \in logouts : l.id \in 1..(n + 1)}
             f == [l \in S |-> l.id]
  <2>1. f \in Surjection(S, 1..(n + 1))
    BY DEF Surjection
  <2>2. S \in SUBSET logouts
    OBVIOUS
  <2>3. IsFiniteSet(S) /\ Cardinality(S) <= n /\ Cardinality(S) \in Nat
    BY <1>1, <2>2, FS_Subset, FS_CardinalityType
  <2>4. Cardinality(1..(n + 1)) <= Cardinality(S)
    BY <2>1, <2>3, FS_Surjection
  <2>5. Cardinality(1..(n + 1)) = n + 1
    <3>1. n + 1 \in Int /\ 1 \in Int /\ n + 1 >= 1
      BY <1>1
    <3> QED
      BY <1>1, <3>1, FS_Interval
  <2> QED
    BY <1>1, <2>3, <2>4, <2>5
<1>3. id \in 1..(n + 1) /\ free(id)
  <2> HIDE DEF n, free
  <2> QED
    BY <1>2
<1>4. id \in Nat
  BY <1>1, <1>3
<1>5. logouts' = logouts \cup {[id |-> id, token |-> None]}
  BY DEF QueueLogout
<1> HIDE DEF id
<1>6. PICK k \in LogoutTask : k.id = id /\ k.token = None /\ logouts' = logouts \cup {k}
  BY <1>0, <1>4, <1>5 DEF LogoutTask, None
<1>7. logouts' \subseteq LogoutTask
  BY <1>0, <1>6
<1>8. LogoutTasksInv'
  <2>1. IsFiniteSet(logouts')
    BY <1>1, <1>6, FS_AddElement
  <2>2. \A l, h \in logouts' : l.id = h.id => l = h
    BY <1>0, <1>3, <1>6 DEF LogoutTasksInv
  <2>3. \A l \in logouts' : l.token \in 0..issued
    BY <1>0, <1>6 DEF LogoutTasksInv, None
  <2> QED
    BY <2>1, <2>2, <2>3 DEF LogoutTasksInv
<1> QED
  BY <1>6, <1>7, <1>8

(* The keychain and the tasks of the coordinator stay, or change only within the session *)
(* that is being left.                                                                   *)
LEMMA LeavingFrame ==
  ASSUME AuthInv, UNCHANGED <<serverVars, net, mem, login, refreshes, stored>>, BoundsOK', KeychainOK',
         phase' \in {"signedIn", "signedOut"}, phase = "signedIn",
         leaving' \in LeavingTask, LeavingTaskInv',
         \/ UNCHANGED logouts
         \/ QueueLogout,
         {active', pending', leaving'.token} \subseteq {active, pending, leaving.token, None},
         KeysInv', StoredIsKept', HandedOutIsCurrent'
  PROVE  AuthInv'
<1>0. /\ TasksOK /\ LoginTaskInv /\ RefreshTasksInv /\ LogoutTasksInv
  BY AppFacts
<1>1. TablesOK' /\ SessionsInv' /\ FlowsOK' /\ UNCHANGED <<issued, family, closed>>
  BY ServerStill
<1>2. /\ logouts' \subseteq LogoutTask /\ LogoutTasksInv' /\ logouts \subseteq logouts'
      /\ \A l \in logouts' : l \in logouts \/ l.token = None
  <2>1. CASE UNCHANGED logouts
    BY <1>0, <1>1, <2>1 DEF TasksOK, LogoutTasksInv
  <2>2. CASE QueueLogout
    BY <1>1, <2>2, QueueKeeps
  <2> QED
    BY <2>1, <2>2
<1>3. TasksOK'
  BY <1>0, <1>2 DEF TasksOK
<1>4. TasksInv'
  <2>1. LoginTaskInv'
    BY <1>0, <1>1 DEF LoginTaskInv
  <2>2. Current' = Current
    BY DEF Current
  <2>3. RefreshTasksInv'
    BY <1>0, <1>1, <2>2 DEF RefreshTasksInv
  <2> QED
    BY <1>2, <2>1, <2>3 DEF TasksInv
<1>5. net' \subseteq Message /\ MailInv'
  <2>1. ASSUME NEW n \in net PROVE Sendable(n)' /\ Mail(n)'
    <3>1. Mail(n)
      BY DEF AuthInv, MailInv
    <3>2. n.from = "refresh" => \E t \in refreshes' : t.stage = "sent" /\ t.token = n.id
      BY <3>1 DEF Mail, RefreshMail
    <3>3. n.from = "logout" => \E k \in logouts' : k.id = n.id /\ k.token = n.token /\ k.token # None
      BY <1>2, <3>1 DEF Mail, LogoutMail, Revoking
    <3> QED
      BY <1>1, <3>2, <3>3, MailStill
  <2> QED
    BY <2>1, MailFrame
<1>6. FreshInv'
  <2>1. \A p : InUse(p)' => InUse(p) \/ p = None
    BY <1>2 DEF InUse
  <2> QED
    BY <1>1, <2>1, FreshFrame
<1> QED
  BY <1>1, <1>3, <1>4, <1>5, <1>6, TypePartsNext DEF AuthInv

LEMMA BeginLeavingKeeps ==
  ASSUME AuthInv, SignOut \/ Unauthorized
  PROVE  AuthInv'
<1>0. /\ KeychainOK /\ TasksOK /\ BoundsOK /\ LoginTaskInv /\ LeavingTaskInv
      /\ LoginInv /\ CurrentInv /\ LeavingInv /\ LogoutInv /\ StoredIsKept /\ HandedOutIsCurrent
      /\ \A p \in 1..issued : p # None /\ p \in Maybe
      /\ \A p \in 0..issued : p # None => p \in 1..issued
  BY AppFacts
<1>1. /\ BeginLeaving
      /\ UNCHANGED <<serverVars, net, active, pending, stored, mem, login, refreshes>>
  BY DEF SignOut, Unauthorized, keyVars
<1>2. BoundsOK'
  <2>1. \/ UNCHANGED <<rotations, signOuts, faults>>
        \/ signOuts < MaxSignOuts /\ signOuts' = signOuts + 1 /\ UNCHANGED <<rotations, faults>>
    BY DEF SignOut, Unauthorized, boundVars
  <2> QED
    BY <1>0, <2>1, AuthAssumption DEF BoundsOK
<1>3. UNCHANGED <<issued, family, closed>> /\ phase = "signedIn" /\ leaving = NotGoing
  BY <1>1 DEF serverVars, BeginLeaving
<1>4. KeychainOK' /\ StoredIsKept' /\ HandedOutIsCurrent'
  BY <1>0, <1>1, <1>3 DEF KeychainOK, StoredIsKept, HandedOutIsCurrent
<1>5. Current' = Current /\ login.pc = "none" /\ NotGoing.pc = "none" /\ NotGoing.token = None
  BY <1>0, <1>1, <1>3 DEF Current, LoginTaskInv, NotGoing
<1>6. LoginInv' /\ CurrentInv'
  BY <1>0, <1>1, <1>3, <1>5 DEF LoginInv, CurrentInv, Holds
<1>7. CASE ~Blocked /\ active # None /\ leaving' = [pc |-> "store", token |-> active]
           /\ UNCHANGED <<phase, logouts>>
  <2>1. active \in 1..issued /\ active \in Maybe
    BY <1>0, <1>7 DEF KeychainOK
  <2>2. leaving' \in LeavingTask /\ leaving'.pc = "store" /\ leaving'.token = active
    BY <1>7, <2>1 DEF LeavingTask
  <2>3. LeavingTaskInv'
    BY <1>3, <1>7, <2>1, <2>2 DEF LeavingTaskInv
  <2>4. LeavingInv'
    BY <1>0, <1>1, <1>3, <1>5, <1>7, <2>2 DEF LeavingInv, Holds, CurrentInv, Blocked
  <2>5. LogoutInv'
    BY <1>0, <1>1, <1>5, <1>7, <2>2 DEF LogoutInv
  <2> QED
    BY <1>1, <1>2, <1>3, <1>4, <1>6, <1>7, <2>2, <2>3, <2>4, <2>5, LeavingFrame DEF KeysInv
<1>8. CASE UNCHANGED leaving /\ ((UNCHANGED <<phase, logouts>>) \/ (phase' = "signedOut" /\ QueueLogout))
  <2>1. leaving' \in LeavingTask /\ LeavingTaskInv' /\ LeavingInv'
    BY <1>0, <1>3, <1>5, <1>8 DEF TasksOK, LeavingTaskInv, LeavingInv
  <2>2. \A l \in logouts' : l \in logouts \/ l.token = None
    BY <1>3, <1>8, QueueKeeps
  <2>3. LogoutInv'
    BY <1>0, <1>1, <1>3, <1>5, <1>8, <2>2 DEF LogoutInv
  <2> QED
    BY <1>1, <1>2, <1>3, <1>4, <1>6, <1>8, <2>1, <2>3, LeavingFrame DEF KeysInv
<1> QED
  BY <1>1, <1>7, <1>8 DEF BeginLeaving

LEMMA LeaveStoredKeeps ==
  ASSUME AuthInv, LeaveStored
  PROVE  AuthInv'
<1>0. /\ KeychainOK /\ TasksOK /\ BoundsOK /\ LoginTaskInv /\ LeavingTaskInv
      /\ LoginInv /\ CurrentInv /\ LeavingInv /\ LogoutInv /\ StoredIsKept
      /\ issued \in Nat /\ \A p \in 1..issued : p # None
  BY AppFacts
<1>1. /\ UNCHANGED <<serverVars, net, active, stored, mem, phase, login, refreshes, logouts,
                     rotations, signOuts, faults>>
      /\ leaving.pc = "store" /\ pending' = leaving.token
      /\ leaving' = [leaving EXCEPT !.pc = "remove"]
  BY DEF LeaveStored, boundVars
<1>2. UNCHANGED <<issued, family, closed>> /\ BoundsOK'
  BY <1>0, <1>1 DEF serverVars, BoundsOK
<1>3. /\ leaving' \in LeavingTask /\ leaving'.pc = "remove" /\ leaving'.token = leaving.token
      /\ leaving.token \in 1..issued /\ leaving.token # None /\ phase = "signedIn" /\ login.pc = "none"
  BY <1>0, <1>1 DEF TasksOK, LeavingTask, LeavingTaskInv, LoginTaskInv
<1>4. Current' = Current /\ LeavingTaskInv'
  BY <1>1, <1>2, <1>3 DEF Current, LeavingTaskInv
<1>5. KeychainOK'
  <2>1. leaving.token \in 0..issued
    BY <1>0, <1>3
  <2> QED
    BY <1>0, <1>1, <1>2, <2>1 DEF KeychainOK
<1>6. KeysInv'
  <2>1. LoginInv'
    BY <1>1, <1>3 DEF LoginInv
  <2>2. CurrentInv'
    BY <1>0, <1>1, <1>2, <1>3, <1>4 DEF CurrentInv, LeavingInv, Holds
  <2>3. LeavingInv'
    BY <1>0, <1>1, <1>2, <1>3, <1>4 DEF LeavingInv, Holds
  <2>4. LogoutInv'
    BY <1>0, <1>1, <1>3, <1>4 DEF LogoutInv
  <2> QED
    BY <2>1, <2>2, <2>3, <2>4 DEF KeysInv
<1>7. StoredIsKept' /\ HandedOutIsCurrent'
  BY <1>0, <1>1, <1>2, <1>3 DEF StoredIsKept, HandedOutIsCurrent, LeavingInv, Holds
<1> QED
  BY <1>1, <1>2, <1>3, <1>4, <1>5, <1>6, <1>7, LeavingFrame

LEMMA LeaveRemovedKeeps ==
  ASSUME AuthInv, LeaveRemoved
  PROVE  AuthInv'
<1>0. /\ KeychainOK /\ TasksOK /\ BoundsOK /\ LoginTaskInv /\ LeavingTaskInv
      /\ LoginInv /\ CurrentInv /\ LeavingInv /\ LogoutInv /\ StoredIsKept
      /\ issued \in Nat /\ 0 \in Maybe
  BY AppFacts
<1>1. /\ UNCHANGED <<serverVars, net, pending, stored, mem, login, refreshes, rotations, signOuts,
                     faults>>
      /\ leaving.pc = "remove" /\ active' = None /\ leaving' = NotGoing /\ phase' = "signedOut"
      /\ QueueLogout
  BY DEF LeaveRemoved, boundVars
<1>2. UNCHANGED <<issued, family, closed>> /\ BoundsOK'
  BY <1>0, <1>1 DEF serverVars, BoundsOK
<1>3. /\ NotGoing \in LeavingTask /\ NotGoing.pc = "none" /\ NotGoing.token = None
      /\ phase = "signedIn" /\ login.pc = "none"
  BY <1>0, <1>1 DEF NotGoing, LeavingTask, LeavingTaskInv, LoginTaskInv, None
<1>4. Current' = Current /\ LeavingTaskInv'
  BY <1>1, <1>3 DEF Current, LeavingTaskInv
<1>5. KeychainOK'
  BY <1>0, <1>1, <1>2 DEF KeychainOK, None
<1>6. KeysInv'
  <2>1. LoginInv'
    BY <1>1, <1>3 DEF LoginInv
  <2>2. CurrentInv'
    BY <1>0, <1>1, <1>2, <1>4 DEF CurrentInv, LeavingInv, Holds
  <2>3. LeavingInv'
    BY <1>1, <1>3 DEF LeavingInv
  <2>4. \A l \in logouts' : l \in logouts \/ l.token = None
    BY <1>1, <1>2, QueueKeeps
  <2>5. LogoutInv'
    BY <1>0, <1>1, <1>3, <1>4, <2>4 DEF LogoutInv
  <2> QED
    BY <2>1, <2>2, <2>3, <2>5 DEF KeysInv
<1>7. StoredIsKept' /\ HandedOutIsCurrent'
  BY <1>0, <1>1, <1>2 DEF StoredIsKept, HandedOutIsCurrent, LeavingInv, Holds
<1> QED
  BY <1>1, <1>2, <1>3, <1>4, <1>5, <1>6, <1>7, LeavingFrame

-----------------------------------------------------------------------------
(* The theorems.                                                            *)

LEMMA InitKeeps ==
  ASSUME Init
  PROVE  AuthInv
<1>0. MaxPairs \in Nat /\ 0 \in Maybe /\ 0 \in 0..MaxRotations /\ 0 \in 0..MaxSignOuts
      /\ 0 \in 0..MaxFaults
  BY AuthAssumption DEF Maybe
<1>1. FlowsOK
  <2>1. Outstanding = {}
    BY DEF Init, Outstanding
  <2> QED
    BY <2>1, FS_EmptySet, AuthAssumption DEF FlowsOK, Init
<1>2. TablesOK
  BY <1>0 DEF TablesOK, Init, None
<1>3. NoLogin \in LoginTask /\ NotGoing \in LeavingTask /\ NoLogin.pc = "none" /\ NotGoing.pc = "none"
      /\ NoLogin.token = None
  BY <1>0 DEF NoLogin, NotGoing, LoginTask, LeavingTask, None
<1>4. TypeOK
  <2>1. KeychainOK /\ BoundsOK /\ net \subseteq Message
    BY <1>0 DEF KeychainOK, BoundsOK, Init, None
  <2>2. TasksOK
    BY <1>3 DEF TasksOK, Init
  <2> QED
    BY <1>1, <1>2, <2>1, <2>2, TypeParts
<1>5. SessionsInv
  <2>1. \A p \in Pairs : ~(p <= issued) /\ family[p] = None
    BY <1>0 DEF Init, Pairs
  <2>2. revoked = {} /\ closed = {} /\ 1..issued = {}
    BY DEF Init
  <2> QED
    BY <2>1, <2>2 DEF SessionsInv
<1>6. MailInv /\ FreshInv
  BY DEF MailInv, FreshInv, Init
<1>7. TasksInv
  BY <1>3, FS_EmptySet DEF TasksInv, LoginTaskInv, LeavingTaskInv, RefreshTasksInv, LogoutTasksInv,
     Current, Init
<1>8. KeysInv
  BY <1>3 DEF KeysInv, LoginInv, CurrentInv, LeavingInv, LogoutInv, Current, Init
<1>9. StoredIsKept /\ HandedOutIsCurrent
  BY DEF StoredIsKept, HandedOutIsCurrent, Init
<1> QED
  BY <1>4, <1>5, <1>6, <1>7, <1>8, <1>9 DEF AuthInv

LEMMA StutterKeeps ==
  ASSUME AuthInv, UNCHANGED authVars
  PROVE  AuthInv'
<1>1. AppSame /\ UNCHANGED <<issued, family, consumed, revoked, closed, net>>
  BY DEF authVars, AppSame, keyVars
<1>2. FlowsOK /\ BoundsOK /\ TablesOK
  BY TypeParts DEF AuthInv
<1>3. FlowsOK' /\ BoundsOK' /\ TablesOK'
  BY <1>2 DEF FlowsOK, BoundsOK, TablesOK, Outstanding, authVars
<1> QED
  BY <1>1, <1>3, MeanwhileKeeps

(* The steps that leave the keychain, the shell and the sign-in alone. *)
LEMMA OneSessionStill ==
  ASSUME AuthInv, OneSessionInv, Grows, UNCHANGED <<active, pending, phase, login, refreshes>>
  PROVE  OneSessionInv'
<1>1. \A p \in {active, pending} : p # None => family'[p] = family[p]
  BY AppFacts DEF KeychainOK, Grows
<1>2. Current' = Current
  BY DEF Current
<1> QED
  BY <1>1, <1>2 DEF OneSessionInv

LEMMA OneSessionServed ==
  ASSUME AuthInv, OneSessionInv, NEW m \in net, Serve(m)
  PROVE  OneSessionInv'
<1>0. TablesOK /\ issued \in Nat /\ family \in [Pairs -> Maybe] /\ MaxPairs \in Nat
  BY AppFacts, TypeParts, AuthAssumption DEF AuthInv, TablesOK
<1>1. UNCHANGED <<active, pending, phase, login, refreshes>>
  BY DEF Serve, ServeExchange, ServeRefresh, ServeRevoke, keyVars
<1>2. \A p \in 1..issued : family'[p] = family[p]
  <2>1. ASSUME NEW s, family' = [family EXCEPT ![issued + 1] = s]
        PROVE  \A p \in 1..issued : family'[p] = family[p]
    BY <1>0, <2>1
  <2>2. family' = family \/ \E s : family' = [family EXCEPT ![issued + 1] = s]
    BY DEF Serve, ServeExchange, ServeRefresh, ServeRevoke, Rotate
  <2> QED
    BY <2>1, <2>2
<1>3. \A p \in {active, pending} : p # None => family'[p] = family[p]
  BY <1>2, AppFacts DEF KeychainOK
<1>4. Current' = Current
  BY <1>1 DEF Current
<1> QED
  BY <1>1, <1>3, <1>4 DEF OneSessionInv

(* The steps of the sign-in. *)
LEMMA OneSessionLogin ==
  ASSUME AuthInv, OneSessionInv, SignIn \/ LoginStep \/ LoginFails
  PROVE  OneSessionInv'
<1>0. LoginTaskInv /\ LoginInv /\ KeychainOK /\ TasksOK
  BY AppFacts
<1>1. NoLogin.pc = "none" /\ NoLogin.token = None /\ family' = family
  BY DEF NoLogin, SignIn, LoginStep, LoginFails, LoginStart, LoginCallback, LoginRevoked,
         LoginExchanged, serverVars
<1>2. CASE SignIn
  <2>1. Current' = {}
    <3>1. \A t \in refreshes : t \in RefreshTask /\ [t EXCEPT !.stale = TRUE].stale
      BY <1>0 DEF TasksOK, RefreshTask
    <3>2. \A u \in refreshes' : u.stale
      BY <1>2, <3>1 DEF SignIn, Invalidate
    <3> QED
      BY <3>2 DEF Current
  <2> QED
    BY <1>1, <1>2, <2>1 DEF SignIn, OneSessionInv, NoLogin
<1>3. ASSUME refreshes' = refreshes PROVE Current' = Current
  BY <1>3 DEF Current
<1>4. CASE LoginStart
  BY <1>0, <1>1, <1>3, <1>4 DEF LoginStart, LoginEnds, keyVars, OneSessionInv, LoginTaskInv,
     TasksOK, LoginTask
<1>5. CASE LoginCallback
  BY <1>0, <1>1, <1>3, <1>5 DEF LoginCallback, LoginEnds, keyVars, OneSessionInv, LoginTaskInv,
     TasksOK, LoginTask
<1>6. ASSUME NEW m \in net, LoginRevoked(m) PROVE OneSessionInv'
  BY <1>0, <1>1, <1>3, <1>6 DEF LoginRevoked, LoginEnds, ForgetRevoked, OneSessionInv,
     LoginTaskInv, TasksOK, LoginTask
<1>7. ASSUME NEW m \in net, LoginExchanged(m) PROVE OneSessionInv'
  BY <1>0, <1>1, <1>3, <1>7 DEF LoginExchanged, LoginEnds, OneSessionInv, LoginTaskInv
<1>8. CASE LoginFails
  BY <1>1, <1>8 DEF LoginFails, LoginEnds, keyVars, OneSessionInv
<1> QED
  BY <1>2, <1>4, <1>5, <1>6, <1>7, <1>8 DEF LoginStep

(* The steps of a refresh: a task of the present generation works for the session of *)
(* the keychain, and there is none beside a sign-in that counts.                     *)
LEMMA OneSessionRefresh ==
  ASSUME AuthInv, OneSessionInv, NEW t \in refreshes,
         \/ RefreshAnswered(t) \/ RefreshChecked(t) \/ RefreshStored(t)
         \/ RefreshRechecked(t) \/ RefreshRemoved(t) \/ RefreshKeychainFails(t)
  PROVE  OneSessionInv'
<1>0. CurrentInv /\ RefreshTasksInv /\ TasksOK /\ \A p \in 1..issued : p # None
  BY AppFacts
<1>1. UNCHANGED <<family, phase, login>>
  BY DEF RefreshAnswered, RefreshChecked, RefreshStored, RefreshRechecked, RefreshRemoved,
         RefreshKeychainFails, serverVars
<1>2. CASE t.stale
  <2>1. refreshes' = refreshes \ {t} /\ UNCHANGED <<active, pending>>
    BY <1>0, <1>2 DEF RefreshAnswered, RefreshChecked, RefreshStored, RefreshRechecked,
       RefreshRemoved, RefreshKeychainFails, RefreshTasksInv
  <2>2. Current' = Current
    BY <1>2, <2>1 DEF Current
  <2> QED
    BY <1>1, <2>1, <2>2 DEF OneSessionInv
<1>3. CASE ~t.stale
  <2>1. t \in Current
    BY <1>3 DEF Current
  <2>2. /\ active' # None => active' = active \/ family[active'] = family[t.token]
        /\ pending' \in {pending, t.token}
    BY <1>0 DEF RefreshAnswered, RefreshChecked, RefreshStored, RefreshRechecked,
       RefreshRemoved, RefreshKeychainFails, RefreshTasksInv, keyVars
  <2> QED
    BY <1>0, <1>1, <2>1, <2>2 DEF OneSessionInv, CurrentInv, Holds
<1> QED
  BY <1>2, <1>3

(* The sign-out, by the shell and by logout(). *)
LEMMA OneSessionLeaves ==
  ASSUME AuthInv, OneSessionInv,
         \/ \E l \in logouts : LogoutRuns(l) \/ LogoutRevoked(l)
         \/ ShellStep \/ SignOut \/ Crash
  PROVE  OneSessionInv'
<1>0. LoginTaskInv /\ LeavingTaskInv /\ LeavingInv /\ LogoutInv /\ KeychainOK /\ TasksOK
  BY AppFacts
<1>1. NoLogin.pc = "none" /\ family' = family
  BY DEF NoLogin, LogoutRuns, LogoutRevoked, ShellStep, Restore, LeaveStored, LeaveRemoved,
         Unauthorized, SignOut, Crash, serverVars
<1>2. ASSUME refreshes' = refreshes PROVE Current' = Current
  BY <1>2 DEF Current
<1>3. ASSUME NEW l \in logouts, LogoutRuns(l) PROVE OneSessionInv'
  BY <1>0, <1>1, <1>3 DEF LogoutRuns, LoginStale, OneSessionInv, TasksOK, LoginTask
<1>4. ASSUME NEW l \in logouts, LogoutRevoked(l) PROVE OneSessionInv'
  BY <1>0, <1>1, <1>2, <1>4 DEF LogoutRevoked, ForgetRevoked, OneSessionInv, LogoutInv
<1>5. CASE Restore
  BY <1>0, <1>1, <1>5 DEF Restore, keyVars, OneSessionInv, LoginTaskInv
<1>6. CASE LeaveStored
  BY <1>0, <1>1, <1>6 DEF LeaveStored, OneSessionInv, LoginTaskInv, LeavingTaskInv, LeavingInv, Holds
<1>7. CASE LeaveRemoved
  BY <1>0, <1>1, <1>7 DEF LeaveRemoved, OneSessionInv, LoginTaskInv, LeavingTaskInv
<1>8. CASE Unauthorized \/ SignOut
  BY <1>1, <1>2, <1>8 DEF Unauthorized, SignOut, BeginLeaving, keyVars, OneSessionInv
<1>9. CASE Crash
  BY <1>1, <1>9 DEF Crash, keyVars, OneSessionInv
<1> QED
  BY <1>3, <1>4, <1>5, <1>6, <1>7, <1>8, <1>9 DEF ShellStep

LEMMA OneSessionKeeps ==
  ASSUME AuthInv, OneSessionInv, [Next]_authVars
  PROVE  OneSessionInv'
<1>0. LoginTaskInv /\ LoginInv /\ TasksOK /\ issued \in Nat
  BY AppFacts
<1>1. CASE StartRefresh
  <2>1. UNCHANGED <<active, pending, phase, login, family>>
    BY <1>1 DEF StartRefresh, serverVars, keyVars
  <2>2. ~(login.pc # "none" /\ ~login.stale)
    <3> SUFFICES ASSUME login.pc # "none", ~login.stale PROVE FALSE
      OBVIOUS
    <3>1. phase = "loading" /\ pending = None /\ active # None
      BY <1>0, <1>1 DEF StartRefresh, LoginTaskInv
    <3>2. login.token = None
      BY <3>1 DEF OneSessionInv
    <3>3. login.pc \in {"start", "browser", "exchange"}
      BY <1>0, <3>2 DEF LoginTaskInv, TasksOK, LoginTask, None
    <3> QED
      BY <1>0, <3>1, <3>3 DEF LoginInv
  <2> QED
    BY <2>1, <2>2 DEF OneSessionInv
<1>2. ASSUME UNCHANGED <<active, pending, phase, login, refreshes, issued, family, closed>>
      PROVE  OneSessionInv'
  BY <1>0, <1>2, OneSessionStill DEF Grows
<1>3. ASSUME NEW a \in Attempts, Callback(a) \/ FlowExpires(a) \/ CodeExpires(a)
      PROVE  OneSessionInv'
  BY <1>2, <1>3 DEF Callback, FlowExpires, CodeExpires, keyVars
<1>4. CASE TokensExpire \/ UNCHANGED authVars
  BY <1>2, <1>4 DEF TokensExpire, keyVars, authVars
<1>5. CASE TaskStep
  BY <1>5, OneSessionRefresh, OneSessionLeaves DEF TaskStep
<1> QED
  BY <1>1, <1>3, <1>4, <1>5, OneSessionServed, OneSessionLogin, OneSessionLeaves DEF Next

(* The server's tables, the messages, the tasks and the keychain stay in order, whatever *)
(* the learner, the network and the clock do to AuthService and the coordinator.         *)
THEOREM AuthInvariant == Spec => [](AuthInv /\ OneSessionInv)
<1>1. Init => AuthInv /\ OneSessionInv
  BY InitKeeps DEF Init, OneSessionInv, NoLogin
<1>2. AuthInv /\ OneSessionInv /\ [Next]_authVars => (AuthInv /\ OneSessionInv)'
  <2> SUFFICES ASSUME AuthInv, OneSessionInv, [Next]_authVars PROVE AuthInv'
    BY OneSessionKeeps
  <2>1. ASSUME NEW m \in net, Serve(m) PROVE AuthInv'
    BY <2>1, ServeExchangeKeeps, ServeRefreshKeeps, ServeRevokeKeeps DEF Serve
  <2>2. ASSUME NEW a \in Attempts, Callback(a) \/ FlowExpires(a) \/ CodeExpires(a) PROVE AuthInv'
    BY <2>2, FlowStepKeeps
  <2>3. CASE LoginStep
    BY <2>3, LoginStartKeeps, LoginCallbackKeeps, LoginRevokedKeeps, LoginExchangedKeeps
       DEF LoginStep
  <2>4. CASE TaskStep
    BY <2>4, RefreshAnsweredKeeps, RefreshCheckedKeeps, RefreshStoredKeeps, RefreshRecheckedKeeps,
       RefreshRemovedKeeps, RefreshKeychainFailsKeeps, LogoutRunsKeeps, LogoutRevokedKeeps DEF TaskStep
  <2>5. CASE ShellStep
    BY <2>5, RestoreKeeps, LeaveStoredKeeps, LeaveRemovedKeeps, BeginLeavingKeeps DEF ShellStep
  <2>6. CASE UNCHANGED authVars
    BY <2>6, StutterKeeps
  <2> QED
    BY <2>1, <2>2, <2>3, <2>4, <2>5, <2>6, TokensExpireKeeps, SignInKeeps, LoginFailsKeeps,
       StartRefreshKeeps, BeginLeavingKeeps, CrashKeeps DEF Next
<1> QED
  BY <1>1, <1>2, PTL DEF Spec

(* The tables and tasks have their types, and create_native_oauth_flow never lets the *)
(* outstanding flows exceed their capacity.                                           *)
THEOREM TypeOKHolds == Spec => []TypeOK
<1>1. AuthInv => TypeOK
  BY DEF AuthInv
<1> QED
  BY <1>1, AuthInvariant, PTL

(* Whatever is rotated, replayed, revoked or expires, find_active_native_session meets *)
(* exactly one usable refresh token of an open session, and none of a closed one.      *)
THEOREM OneLiveTokenHolds == Spec => []OneLiveToken
<1>1. AuthInv => OneLiveToken
  <2> SUFFICES ASSUME AuthInv, NEW s \in 1..issued, family[s] = s
               PROVE  LET usable == Family(s) \ (consumed \cup revoked) IN
                      IF s \in closed THEN usable = {} ELSE \E p \in usable : usable = {p}
    BY DEF OneLiveToken
  <2>1. SessionsInv
    BY DEF AuthInv
  <2>2. CASE s \in closed
    BY <2>1, <2>2 DEF SessionsInv, Family
  <2>3. CASE s \notin closed
    <3>1. Family(s) \ (consumed \cup revoked) = Family(s) \ consumed
      BY <2>1, <2>3 DEF SessionsInv, Family
    <3> QED
      BY <2>1, <2>3, <3>1 DEF SessionsInv
  <2> QED
    BY <2>2, <2>3
<1> QED
  BY <1>1, AuthInvariant, PTL

(* No lost answer, sign-out, failing keychain call or crash of the app makes the *)
(* coordinator forget a credential whose session the server still honours.       *)
THEOREM StoredIsKeptHolds == Spec => []StoredIsKept
<1>1. AuthInv => StoredIsKept
  BY DEF AuthInv
<1> QED
  BY <1>1, AuthInvariant, PTL

(* currentAccessToken hands out tokens of the session of the active credential only: *)
(* no late refresh brings back a session that the learner left.                      *)
THEOREM HandedOutIsCurrentHolds == Spec => []HandedOutIsCurrent
<1>1. AuthInv => HandedOutIsCurrent
  BY DEF AuthInv
<1> QED
  BY <1>1, AuthInvariant, PTL
=============================================================================
