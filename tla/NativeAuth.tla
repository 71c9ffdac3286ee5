------------------------------ MODULE NativeAuth ------------------------------
(***************************************************************************)
(* Native sign-in: the app's NativeAuthenticationCoordinator (an actor),   *)
(* its keychain and the shell's sign-out on the main actor, against the    *)
(* native half of AuthService and SqlAlchemyAuthRepository.                *)
(*                                                                         *)
(* Access and refresh tokens are minted together, so one number names the  *)
(* pair; a session is named by its first pair.  Each repository method is  *)
(* one transaction, because every one of them locks or updates the rows it *)
(* decides on.  The actor runs from one await to the next without          *)
(* interruption, but the keychain is also written by quarantineActive-     *)
(* RefreshCredential on the main actor, so the steps between two keychain  *)
(* calls are kept apart.  A caller that gives up leaves its request behind *)
(* for "nobody": the server may still serve it, or never.                  *)
(***************************************************************************)
EXTENDS Integers, FiniteSets

CONSTANTS
  MaxPairs,      \* bound: token pairs minted in a behaviour
  Attempts,      \* slots for sign-in attempts whose OAuth flow is not expired
  FlowCapacity,  \* _NATIVE_OAUTH_FLOW_CAPACITY
  MaxRotations,  \* bound: refreshes the app starts
  MaxSignOuts,   \* bound: sign-outs the learner asks for
  MaxFaults      \* bound: errors, give-ups, expiries and crashes

ASSUME AuthAssumption ==
  /\ {MaxPairs, FlowCapacity} \subseteq Nat \ {0}
  /\ {MaxRotations, MaxSignOuts, MaxFaults} \subseteq Nat
  /\ IsFiniteSet(Attempts) /\ "none" \notin Attempts

VARIABLES
  \* the server's tables
  flow,       \* native_oauth_flows, by attempt
  code,       \* native_exchange_codes, by attempt
  issued,     \* number of pairs minted
  family,     \* native_refresh_tokens.session_id
  consumed, revoked, expired,   \* refresh tokens with that timestamp set or passed
  access,     \* native_auth_sessions.access_token_hash
  lapsed,     \* access tokens past access_expires_at
  closed,     \* sessions with revoked_at
  \* the network
  net,        \* requests under way and replies not yet seen
  \* the app
  active, pending,   \* the two keychain items
  mem,        \* accessToken
  phase,      \* ShellSessionPhase; "restoring" is loading at launch
  login,      \* the one login() at work
  refreshes,  \* refreshAccessToken tasks, the current and the stale
  logouts,    \* logout() tasks
  leaving,    \* quarantineActiveRefreshCredential on the main actor
  stored,     \* history: sessions whose token was the active credential
  rotations, signOuts, faults

serverVars == <<flow, code, issued, family, consumed, revoked, expired, access, lapsed, closed>>
keyVars    == <<active, pending, stored>>
boundVars  == <<rotations, signOuts, faults>>
authVars   == <<flow, code, issued, family, consumed, revoked, expired, access, lapsed, closed,
                net, active, pending, mem, phase, login, refreshes, logouts, leaving,
                stored, rotations, signOuts, faults>>

Pairs == 1..MaxPairs
None  == 0
Maybe == 0..MaxPairs

NoLogin  == [pc |-> "none", stale |-> FALSE, attempt |-> "none", token |-> None]
NotGoing == [pc |-> "none", token |-> None]

Message == [kind: {"exchange", "refresh", "revoke", "ok", "denied"}, token: Maybe,
            attempt: Attempts \cup {"none"}, from: {"login", "refresh", "logout", "nobody"},
            id: Nat]

\* Types; the outstanding flows stay within their capacity.
TypeOK ==
  /\ Cardinality({a \in Attempts : flow[a] # "none"}) <= FlowCapacity
  /\ flow \in [Attempts -> {"none", "open", "consumed"}]
  /\ code \in [Attempts -> {"none", "open"}]
  /\ issued \in Maybe /\ family \in [Pairs -> Maybe] /\ access \in [Pairs -> Maybe]
  /\ consumed \cup revoked \cup expired \cup lapsed \cup closed \cup stored \subseteq 1..issued
  /\ net \subseteq Message
  /\ {active, pending, mem} \subseteq 0..issued
  /\ phase \in {"restoring", "loading", "signedOut", "signedIn"}
  /\ login \in [pc: {"none", "pending", "active", "start", "browser", "exchange"},
                stale: BOOLEAN, attempt: Attempts \cup {"none"}, token: Maybe]
  /\ refreshes \subseteq [token: Pairs, pair: Maybe, stale: BOOLEAN,
                          stage: {"sent", "check", "store", "recheck", "remove"}]
  /\ logouts \subseteq [id: Nat, token: Maybe]
  /\ leaving \in [pc: {"none", "store", "remove"}, token: Maybe]
  /\ rotations \in 0..MaxRotations /\ signOuts \in 0..MaxSignOuts /\ faults \in 0..MaxFaults

Init ==
  /\ flow = [a \in Attempts |-> "none"] /\ code = [a \in Attempts |-> "none"]
  /\ issued = 0 /\ family = [p \in Pairs |-> None] /\ access = [p \in Pairs |-> None]
  /\ consumed = {} /\ revoked = {} /\ expired = {} /\ lapsed = {} /\ closed = {}
  /\ net = {} /\ active = None /\ pending = None /\ mem = None
  /\ phase = "restoring" /\ login = NoLogin /\ refreshes = {} /\ logouts = {}
  /\ leaving = NotGoing /\ stored = {}
  /\ rotations = 0 /\ signOuts = 0 /\ faults = 0

-----------------------------------------------------------------------------
(* Messages.                                                                *)

Request(kind, token, attempt, from, id) ==
  [kind |-> kind, token |-> token, attempt |-> attempt, from |-> from, id |-> id]

RevokeFor(from, id, token) == Request("revoke", token, "none", from, id)

\* `try? await http.revoke(...)`: nothing depends on whether it arrives
Dropped(token) == {RevokeFor("nobody", 0, token)}

\* the request m is served and, if somebody waits for it, answered
Answered(m, kind, token) ==
  (net \ {m}) \cup (IF m.from = "nobody" THEN {}
                    ELSE {[m EXCEPT !.kind = kind, !.token = token]})

Open(from, id)   == {m \in net : m.from = from /\ m.id = id /\ m.kind \notin {"ok", "denied"}}
Reply(from, id)  == {m \in net : m.from = from /\ m.id = id /\ m.kind \in {"ok", "denied"}}

\* give up on a request: an error to the caller, while the server may still serve it
Abandon(ms) == (net \ ms) \cup {[m EXCEPT !.from = "nobody", !.id = 0] : m \in ms}

Fault == faults < MaxFaults /\ faults' = faults + 1

-----------------------------------------------------------------------------
(* The server.                                                              *)

Family(s) == {p \in Pairs : family[p] = s}
Live(p)   == p \notin consumed /\ p \notin revoked /\ p \notin expired

\* revoke the session and every token of it that is not revoked yet
CloseSession(s) ==
  /\ closed' = closed \cup {s}
  /\ revoked' = revoked \cup Family(s)

\* find_active_native_session
Honoured(a) ==
  LET s == family[a] IN
  /\ access[s] = a /\ a \notin lapsed /\ s \notin closed
  /\ \E p \in Family(s) : Live(p)

\* consume_native_exchange_and_create_session
ServeExchange(m) ==
  /\ m \in net /\ m.kind = "exchange"
  /\ \/ /\ code[m.attempt] = "open" /\ issued < MaxPairs
        /\ LET p == issued + 1 IN
           /\ issued' = p
           /\ family' = [family EXCEPT ![p] = p] /\ access' = [access EXCEPT ![p] = p]
           /\ net' = Answered(m, "ok", p)
        /\ code' = [code EXCEPT ![m.attempt] = "none"]
     \/ /\ code[m.attempt] # "open"
        /\ net' = Answered(m, "denied", None)
        /\ UNCHANGED <<code, issued, family, access>>
  /\ UNCHANGED <<flow, consumed, revoked, expired, lapsed, closed, keyVars, mem, phase, login,
                 refreshes, logouts, leaving, boundVars>>

RotateWithoutConsume(m) ==
  LET r == m.token  s == family[r] IN
  IF r \in consumed \cup revoked \cup expired \/ s \in closed
  THEN /\ IF r \in consumed /\ s \notin closed THEN CloseSession(s)
                                                ELSE UNCHANGED <<closed, revoked>>
       /\ net' = Answered(m, "denied", None)
       /\ UNCHANGED <<issued, family, access, consumed>>
  ELSE /\ issued < MaxPairs
       /\ LET p == issued + 1 IN
          /\ issued' = p /\ family' = [family EXCEPT ![p] = s]
          /\ access' = [access EXCEPT ![s] = p]
          /\ net' = Answered(m, "ok", p)
       /\ UNCHANGED <<consumed, closed, revoked>>

\* rotate_native_refresh_token: a token that was already consumed closes its session
Rotate(m) ==
  LET r == m.token  s == family[r] IN
  IF r \in consumed \cup revoked \cup expired \/ s \in closed
  THEN /\ IF r \in consumed /\ s \notin closed THEN CloseSession(s)
                                                ELSE UNCHANGED <<closed, revoked>>
       /\ net' = Answered(m, "denied", None)
       /\ UNCHANGED <<issued, family, access, consumed>>
  ELSE /\ issued < MaxPairs
       /\ LET p == issued + 1 IN
          /\ issued' = p /\ family' = [family EXCEPT ![p] = s]
          /\ access' = [access EXCEPT ![s] = p]
          /\ net' = Answered(m, "ok", p)
       /\ consumed' = consumed \cup {r}
       /\ UNCHANGED <<closed, revoked>>

ServeRefresh(m) ==
  /\ m \in net /\ m.kind = "refresh"
  /\ Rotate(m)
  /\ UNCHANGED <<flow, code, expired, lapsed, keyVars, mem, phase, login, refreshes, logouts,
                 leaving, boundVars>>

\* revoke_native_session: any token of the session will do, consumed or expired too
RevokeSession(m) == CloseSession(family[m.token])

ServeRevoke(m) ==
  /\ m \in net /\ m.kind = "revoke"
  /\ RevokeSession(m)
  /\ net' = Answered(m, "ok", m.token)
  /\ UNCHANGED <<flow, code, issued, family, consumed, expired, access, lapsed, keyVars, mem,
                 phase, login, refreshes, logouts, leaving, boundVars>>

\* complete_native_login: the flow is consumed before GitHub is asked who it is
Callback(a) ==
  /\ flow[a] = "open" /\ flow' = [flow EXCEPT ![a] = "consumed"]
  /\ UNCHANGED <<code, issued, family, consumed, revoked, expired, access, lapsed, closed, net,
                 keyVars, mem, phase, login, refreshes, logouts, leaving, boundVars>>

\* the time to live passes: a flow no longer counts and is deleted by the next start
FlowExpires(a) ==
  /\ flow[a] # "none" /\ (login.attempt = a => login.pc = "exchange")
  /\ flow' = [flow EXCEPT ![a] = "none"]
  /\ UNCHANGED <<code, issued, family, consumed, revoked, expired, access, lapsed, closed, net,
                 keyVars, mem, phase, login, refreshes, logouts, leaving, boundVars>>

CodeExpires(a) ==
  /\ code[a] = "open" /\ code' = [code EXCEPT ![a] = "none"]
  /\ IF login.attempt = a THEN Fault ELSE UNCHANGED faults
  /\ UNCHANGED <<flow, issued, family, consumed, revoked, expired, access, lapsed, closed, net,
                 keyVars, mem, phase, login, refreshes, logouts, leaving, rotations,
                 signOuts>>

TokensExpire ==
  /\ Fault
  /\ \/ \E p \in 1..issued \ expired :
          /\ \A q \in 1..(p - 1) : family[q] = family[p] => q \in expired
          /\ expired' = expired \cup {p} /\ UNCHANGED lapsed
     \/ \E p \in 1..issued \ lapsed : lapsed' = lapsed \cup {p} /\ UNCHANGED expired
  /\ UNCHANGED <<flow, code, issued, family, consumed, revoked, access, closed, net, keyVars,
                 mem, phase, login, refreshes, logouts, leaving, rotations, signOuts>>

-----------------------------------------------------------------------------
(* The coordinator.  While a refresh task is between two of its keychain    *)
(* calls the actor does nothing else.                                       *)

ActorFree == \A t \in refreshes : t.stage = "sent"

InvalidateKeepsMemory ==
  refreshes' = {[t EXCEPT !.stale = TRUE] : t \in refreshes} /\ UNCHANGED mem

\* invalidateSession: what is under way belongs to an old generation from here on
Invalidate == refreshes' = {[t EXCEPT !.stale = TRUE] : t \in refreshes} /\ mem' = None

\* quarantineActiveRefreshCredential refuses to overwrite another pending token
Blocked == active # None /\ pending \notin {None, active}

LoginStale == [login EXCEPT !.stale = TRUE]

\* signIn and the first part of login(): revoke what is left, or go to the browser
SignIn ==
  /\ phase = "signedOut" /\ login = NoLogin /\ ActorFree /\ leaving = NotGoing
  /\ phase' = "loading" /\ Invalidate
  /\ LET token == IF pending # None THEN pending ELSE active IN
     IF token = None
     THEN login' = [NoLogin EXCEPT !.pc = "start"] /\ UNCHANGED <<net, active, pending>>
     ELSE /\ login' = [NoLogin EXCEPT !.pc = IF pending # None THEN "pending" ELSE "active",
                                      !.token = token]
          /\ net' = net \cup {RevokeFor("login", 0, token)}
          /\ pending' = token
          /\ active' = IF pending # None THEN active ELSE None
  /\ UNCHANGED <<serverVars, logouts, leaving, stored, boundVars>>

LoginEnds ==
  /\ login' = NoLogin /\ phase' = "signedOut"

ForgetWhateverIsThere(token) == active' = None /\ pending' = None

\* what retryPendingRevocation does to the keychain once `token` is revoked
ForgetRevoked(token) ==
  /\ active'  = IF active = token THEN None ELSE active
  /\ pending' = IF pending = token THEN None ELSE pending

LoginRevoked(m) ==
  /\ m \in Reply("login", 0) /\ login.pc \in {"pending", "active"} /\ ActorFree
  /\ LET left == IF active = login.token THEN None ELSE active IN
     IF ~login.stale /\ login.pc = "pending" /\ left # None /\ pending = login.token
     THEN /\ pending' = left /\ active' = None          \* revokeActiveCredential
          /\ login' = [login EXCEPT !.pc = "active", !.token = left]
          /\ net' = (net \ {m}) \cup {RevokeFor("login", 0, left)}
          /\ UNCHANGED phase
     ELSE /\ ForgetRevoked(login.token) /\ net' = net \ {m}
          /\ IF login.stale \/ (login.pc = "pending" /\ left # None) THEN LoginEnds
             ELSE login' = [login EXCEPT !.pc = "start", !.token = None] /\ UNCHANGED phase
  /\ UNCHANGED <<serverVars, mem, refreshes, logouts, leaving, stored, boundVars>>

Outstanding == {a \in Attempts : flow[a] # "none"}

AdmittedOffByOne == Cardinality(Outstanding) <= FlowCapacity

\* create_native_oauth_flow counts what is left after deleting expired flows
Admitted == Cardinality(Outstanding) < FlowCapacity

\* start_native_login: a new flow, or a refusal at capacity
LoginStart ==
  /\ login.pc = "start" /\ ActorFree
  /\ \/ /\ Admitted
        /\ \E a \in Attempts \ Outstanding :
             /\ code[a] = "none" /\ \A m \in net : m.attempt # a     \* a fresh attempt
             /\ flow' = [flow EXCEPT ![a] = "open"]
             /\ IF login.stale THEN LoginEnds
                ELSE login' = [login EXCEPT !.pc = "browser", !.attempt = a] /\ UNCHANGED phase
     \/ /\ ~Admitted
        /\ LoginEnds /\ UNCHANGED flow
  /\ UNCHANGED <<code, issued, family, consumed, revoked, expired, access, lapsed, closed, net,
                 keyVars, mem, refreshes, logouts, leaving, boundVars>>

\* create_native_exchange and the redirect to the app, which sends the code back
LoginCallback ==
  LET a == login.attempt IN
  /\ login.pc = "browser" /\ flow[a] = "consumed" /\ ActorFree
  /\ code' = [code EXCEPT ![a] = "open"]
  /\ IF login.stale THEN LoginEnds /\ UNCHANGED net
     ELSE /\ login' = [login EXCEPT !.pc = "exchange"]
          /\ net' = net \cup {Request("exchange", None, a, "login", 0)} /\ UNCHANGED phase
  /\ UNCHANGED <<flow, issued, family, consumed, revoked, expired, access, lapsed, closed,
                 keyVars, mem, refreshes, logouts, leaving, boundVars>>

\* the pair arrives: kept, or given back when the session changed meanwhile
LoginExchanged(m) ==
  /\ m \in Reply("login", 0) /\ login.pc = "exchange" /\ ActorFree
  /\ \/ /\ m.kind = "ok" /\ ~login.stale
        /\ active' = m.token /\ stored' = stored \cup {family[m.token]}
        /\ mem' = m.token /\ login' = NoLogin /\ phase' = "signedIn"
        /\ net' = net \ {m} /\ UNCHANGED faults
     \/ /\ m.kind = "ok"
        /\ IF login.stale THEN UNCHANGED faults ELSE Fault    \* the keychain refuses it
        /\ LoginEnds /\ net' = (net \ {m}) \cup Dropped(m.token)
        /\ mem' = IF login.stale THEN mem ELSE None
        /\ UNCHANGED <<active, stored>>
     \/ /\ m.kind = "denied" /\ LoginEnds /\ net' = net \ {m}
        /\ UNCHANGED <<active, stored, mem, faults>>
  /\ UNCHANGED <<serverVars, pending, refreshes, logouts, leaving, rotations, signOuts>>

\* a request of login() fails, the browser is cancelled, or the identity is refused
LoginFails ==
  /\ Fault /\ login.pc # "none" /\ Reply("login", 0) = {} /\ ActorFree
  /\ LoginEnds /\ net' = Abandon(Open("login", 0))
  /\ UNCHANGED <<serverVars, keyVars, mem, refreshes, logouts, leaving, rotations,
                 signOuts>>

Current == {t \in refreshes : ~t.stale}

\* rotateAccessToken: for currentAccessToken, which refuses while a revocation is pending,
\* or for refreshedAccessTokenAfterUnauthorized, which drops the token and does not ask,
\* as long as logout() has not ended the generation of the caller's lease.  A caller
\* joins the refresh it finds; one left behind with the active token is of an old lease.
StartRefresh ==
  /\ active # None /\ Current = {} /\ ActorFree
  /\ \A t \in refreshes : t.token # active
  /\ \/ pending = None /\ UNCHANGED mem
     \/ /\ phase \in {"signedIn", "signedOut"} /\ mem' = None
        /\ phase = "signedOut" => \E l \in logouts : l.token = None
  /\ rotations < MaxRotations /\ rotations' = rotations + 1
  /\ refreshes' = refreshes \cup {[token |-> active, pair |-> None, stale |-> FALSE,
                                   stage |-> "sent"]}
  /\ net' = net \cup {Request("refresh", active, "none", "refresh", active)}
  /\ UNCHANGED <<serverVars, keyVars, phase, login, logouts, leaving, signOuts, faults>>

Move(t, stage) == refreshes' = (refreshes \ {t}) \cup {[t EXCEPT !.stage = stage]}

\* the answer of http.refresh, or its failure
RefreshAnswered(t) ==
  /\ t \in refreshes /\ t.stage = "sent" /\ ActorFree
  /\ \/ \E m \in Reply("refresh", t.token) :
          /\ m.kind = "ok" /\ UNCHANGED <<mem, pending, faults>>
          /\ IF t.stale
             THEN refreshes' = refreshes \ {t} /\ net' = (net \ {m}) \cup Dropped(m.token)
             ELSE /\ net' = net \ {m}
                  /\ refreshes' = (refreshes \ {t}) \cup {[t EXCEPT !.stage = "check",
                                                                    !.pair = m.token]}
     \/ /\ \/ \E m \in Reply("refresh", t.token) :
                m.kind = "denied" /\ net' = net \ {m} /\ UNCHANGED faults
           \/ /\ Fault /\ Reply("refresh", t.token) = {}
              /\ net' = Abandon(Open("refresh", t.token))
        /\ IF t.stale
           THEN refreshes' = refreshes \ {t} /\ UNCHANGED <<mem, pending>>
           ELSE /\ mem' = None
                /\ \/ pending' = t.token /\ Move(t, "remove")
                   \/ UNCHANGED pending /\ refreshes' = refreshes \ {t}   \* the keychain refuses it
  /\ UNCHANGED <<serverVars, active, stored, phase, login, logouts, leaving, rotations,
                 signOuts>>

\* the keychain calls of refreshAccessToken, one by one
GiveBack(t) ==
  /\ refreshes' = refreshes \ {t} /\ net' = net \cup Dropped(t.pair) /\ mem' = None

RefreshChecked(t) ==
  /\ t \in refreshes /\ t.stage = "check"
  /\ IF pending # None THEN GiveBack(t) ELSE Move(t, "store") /\ UNCHANGED <<net, mem>>
  /\ UNCHANGED <<serverVars, keyVars, phase, login, logouts, leaving, boundVars>>

RefreshStored(t) ==
  /\ t \in refreshes /\ t.stage = "store"
  /\ \/ /\ active' = t.pair /\ stored' = stored \cup {family[t.pair]} /\ Move(t, "recheck")
        /\ UNCHANGED <<pending, net, mem, faults>>
     \/ /\ Fault /\ pending' = t.token /\ active' = None /\ GiveBack(t) /\ UNCHANGED stored
  /\ UNCHANGED <<serverVars, phase, login, logouts, leaving, rotations, signOuts>>

RefreshRechecked(t) ==
  /\ t \in refreshes /\ t.stage = "recheck"
  /\ IF pending # None
     THEN active' = (IF active = t.pair THEN None ELSE active) /\ GiveBack(t)
     ELSE mem' = t.pair /\ refreshes' = refreshes \ {t} /\ UNCHANGED <<active, net>>
  /\ UNCHANGED <<serverVars, pending, stored, phase, login, logouts, leaving, boundVars>>

RefreshRemoved(t) ==
  /\ t \in refreshes /\ t.stage = "remove"
  /\ active' = None /\ refreshes' = refreshes \ {t}
  /\ UNCHANGED <<serverVars, net, pending, stored, mem, phase, login, logouts, leaving,
                 boundVars>>

\* a keychain call of the task t throws: the error path skips what came after it
RefreshKeychainFails(t) ==
  /\ Fault /\ t \in refreshes /\ refreshes' = refreshes \ {t}
  /\ \/ t.stage = "check" /\ GiveBack(t) /\ UNCHANGED <<active, pending>>
     \/ /\ t.stage = "store" /\ mem' = None /\ pending' \in {pending, t.token}
        /\ UNCHANGED <<active, net>>
     \/ t.stage \in {"recheck", "remove"} /\ UNCHANGED <<active, pending, mem, net>>
  /\ UNCHANGED <<serverVars, stored, phase, login, logouts, leaving, rotations, signOuts>>

\* logout(), queued by the sign-out
LogoutRuns(l) ==
  /\ l \in logouts /\ l.token = None /\ ActorFree
  /\ Invalidate /\ login' = (IF login = NoLogin THEN login ELSE LoginStale)
  /\ LET token == IF pending # None THEN pending ELSE active IN
     IF Blocked \/ token = None
     THEN logouts' = logouts \ {l} /\ UNCHANGED <<net, active, pending>>
     ELSE /\ pending' = token /\ active' = None
          /\ logouts' = (logouts \ {l}) \cup {[l EXCEPT !.token = token]}
          /\ net' = net \cup {RevokeFor("logout", l.id, token)}
  /\ UNCHANGED <<serverVars, stored, phase, leaving, boundVars>>

LogoutRevoked(l) ==
  /\ l \in logouts /\ l.token # None /\ ActorFree
  /\ \/ /\ Reply("logout", l.id) # {} /\ ForgetRevoked(l.token)
        /\ net' = net \ Reply("logout", l.id) /\ UNCHANGED faults
     \/ /\ Fault /\ Reply("logout", l.id) = {} /\ net' = Abandon(Open("logout", l.id))
        /\ UNCHANGED <<active, pending>>
  /\ logouts' = logouts \ {l}
  /\ UNCHANGED <<serverVars, stored, mem, phase, login, refreshes, leaving, rotations,
                 signOuts>>

-----------------------------------------------------------------------------
(* The shell on the main actor.                                             *)

\* restore(): currentAccessToken at launch
Restore ==
  /\ phase = "restoring" /\ refreshes = {}
  /\ \/ mem # None /\ pending = None /\ phase' = "signedIn"
     \/ (pending # None \/ mem = None) /\ phase' = "signedOut"
  /\ UNCHANGED <<serverVars, net, keyVars, mem, login, refreshes, logouts, leaving,
                 boundVars>>

\* Task { await actions.logout() }
QueueLogout ==
  logouts' = logouts \cup {[id |-> CHOOSE i \in 1..(Cardinality(logouts) + 1) :
                                     \A l \in logouts : l.id # i, token |-> None]}

\* enterSignedOut(revokingCredentials: true): the first read of the keychain
BeginLeaving ==
  /\ phase = "signedIn" /\ leaving = NotGoing
  /\ \/ Blocked /\ UNCHANGED <<leaving, phase, logouts>>
     \/ /\ ~Blocked /\ active # None
        /\ leaving' = [pc |-> "store", token |-> active] /\ UNCHANGED <<phase, logouts>>
     \/ active = None /\ phase' = "signedOut" /\ QueueLogout /\ UNCHANGED leaving

SignOut ==
  /\ signOuts < MaxSignOuts /\ signOuts' = signOuts + 1 /\ BeginLeaving
  /\ UNCHANGED <<serverVars, net, keyVars, mem, login, refreshes, rotations, faults>>

\* A call answered 401, or a bearer token that cannot be had, ends the session.  The
\* call may carry an older token of the session than the one in memory.
Unauthorized ==
  /\ \/ \E a \in Pairs : /\ mem # None /\ a \in Family(family[mem]) /\ a <= mem
                         /\ ~Honoured(a)
     \/ pending # None \/ (active = None /\ mem = None)
  /\ BeginLeaving
  /\ UNCHANGED <<serverVars, net, keyVars, mem, login, refreshes, boundVars>>

LeaveStored ==
  /\ leaving.pc = "store"
  /\ pending' = leaving.token /\ leaving' = [leaving EXCEPT !.pc = "remove"]
  /\ UNCHANGED <<serverVars, net, active, stored, mem, phase, login, refreshes, logouts,
                 boundVars>>

LeaveRemoved ==
  /\ leaving.pc = "remove"
  /\ active' = None /\ leaving' = NotGoing /\ phase' = "signedOut"
  /\ QueueLogout
  /\ UNCHANGED <<serverVars, net, pending, stored, mem, login, refreshes, boundVars>>

\* the app dies and is started again: only the keychain is left
Crash ==
  /\ Fault
  /\ phase' = "restoring" /\ mem' = None /\ login' = NoLogin /\ refreshes' = {} /\ logouts' = {}
  /\ leaving' = NotGoing
  /\ net' = {[m EXCEPT !.from = "nobody", !.id = 0] :
               m \in {n \in net : n.kind \notin {"ok", "denied"}}}
  /\ UNCHANGED <<serverVars, keyVars, rotations, signOuts>>

-----------------------------------------------------------------------------
Serve(m)   == ServeExchange(m) \/ ServeRefresh(m) \/ ServeRevoke(m)
LoginStep  == LoginStart \/ LoginCallback \/ \E m \in net : LoginRevoked(m) \/ LoginExchanged(m)
TaskStep   == \/ \E t \in refreshes : RefreshAnswered(t) \/ RefreshChecked(t) \/ RefreshStored(t)
                                        \/ RefreshRechecked(t) \/ RefreshRemoved(t)
                                        \/ RefreshKeychainFails(t)
              \/ \E l \in logouts : LogoutRuns(l) \/ LogoutRevoked(l)
ShellStep  == Restore \/ LeaveStored \/ LeaveRemoved \/ Unauthorized

Next ==
  \/ \E m \in net : Serve(m)
  \/ \E a \in Attempts : Callback(a) \/ FlowExpires(a) \/ CodeExpires(a)
  \/ TokensExpire \/ SignIn \/ LoginStep \/ LoginFails \/ StartRefresh \/ TaskStep
  \/ ShellStep \/ SignOut \/ Crash

Spec == Init /\ [][Next]_authVars

-----------------------------------------------------------------------------
(* Properties.                                                              *)

\* A session that is open has exactly one usable refresh token, so
\* find_active_native_session never meets two, and a closed one has none.
OneLiveToken ==
  \A s \in 1..issued : family[s] = s =>
    LET usable == Family(s) \ (consumed \cup revoked) IN
    IF s \in closed THEN usable = {} ELSE \E p \in usable : usable = {p}

\* A session whose token was once the app's active credential is revoked on the
\* server, or the keychain still holds a token that can revoke it: through lost
\* answers, races with the sign-out, failing keychain calls and crashes.
StoredIsKept ==
  \A s \in stored : s \in closed \/ \E p \in {active, pending} \ {None} : family[p] = s

\* The access token that currentAccessToken would hand out belongs to the session
\* of the active credential: no late refresh brings back a session that was left.
HandedOutIsCurrent ==
  mem # None /\ pending = None => active # None /\ family[mem] = family[active]
=============================================================================
