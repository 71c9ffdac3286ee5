------------------------------- MODULE StudyDay -------------------------------
(***************************************************************************)
(* One study day: its activities, their timers and receipts on the server  *)
(* (ActivityService, and close_day of the Today repository), and the       *)
(* activity workspaces of the learner's devices.                           *)
(*                                                                         *)
(* A command is one transaction, because it begins by locking the rows of  *)
(* the activity and of its day.  A command carries its idempotency key.  A *)
(* device sends only a heartbeat or a pause again under the same key, from *)
(* its journal; every other command gets a fresh key each time, so only    *)
(* those two receipts (and no timer's key) can be met again.  A device     *)
(* that stops waiting (an error, a closed window, a sleep, a cancelled     *)
(* task) leaves its request in the network.                                *)
(***************************************************************************)
EXTENDS Integers, FiniteSets, Sequences, Functions

CONSTANTS
  Devices, Activities,
  Required,      \* activities whose task is required and is not the daily close
  MaxGap,        \* MAX_HEARTBEAT_GAP_SECONDS
  DayLimit,      \* seconds of the day that may be counted
  Minute,        \* seconds to a minute
  MaxCommands,   \* bound: commands issued
  MaxTime,       \* bound: the clock
  MaxFaults      \* bound: answers given up on

ASSUME StudyAssumption ==
  /\ IsFiniteSet(Activities) /\ Required \subseteq Activities
  /\ {MaxGap, DayLimit, Minute, MaxCommands} \subseteq Nat \ {0}
  /\ {MaxTime, MaxFaults} \subseteq Nat

VARIABLES
  now,        \* the server's clock
  status, focused,   \* the study_days row
  handoff,    \* daily_handoffs: what the close recorded of each activity
  state, version, hidden,   \* activity_instances
  timer,      \* the open activity_timer_sessions row of each activity
  banked,     \* counted seconds of its ended timers
  attempt,    \* attempts: was the source hidden when the output was committed
  reviewed,   \* self_reviews
  issued,     \* number of keys used
  receipt,    \* command_receipts of heartbeats and pauses, by key
  net,        \* requests under way
  replies,    \* answers not yet seen
  view,       \* the workspace of each device
  waiting,    \* what each device's running command waits for
  journal,    \* the pending heartbeat or pause, on the device's disk
  worked,     \* history: seconds each activity had an open timer
  past,       \* history: the state each version of an activity had
  faults

serverVars == <<status, focused, handoff, state, version, hidden, timer, banked, attempt, reviewed>>
deviceVars == <<view, waiting, journal>>
studyVars  == <<now, status, focused, handoff, state, version, hidden, timer, banked, attempt,
                reviewed, issued, receipt, net, replies, view, waiting, journal, worked, past,
                faults>>

None == 0

\* _COMPLETED_FOR_CLOSE, of the states that are reached
CompletedForClose == {"self_review_complete", "ai_processing", "feedback_ready", "incomplete"}

NoTimer   == [open |-> FALSE, last |-> 0, counted |-> 0, seq |-> 0]
NoAttempt == [made |-> FALSE, hidden |-> FALSE]
NoCommand == [key |-> None]
Idle      == [key |-> None, then |-> "none"]
Closed    == [act |-> "none", version |-> 0, state |-> "ready", seq |-> 0]

\* ensure_current_day has planned the day; nothing is open yet
Init ==
  /\ now = 0 /\ faults = 0 /\ status = "planned" /\ focused = 0
  /\ handoff = [a \in Activities |-> "none"]
  /\ state = [a \in Activities |-> "ready"] /\ version = [a \in Activities |-> 1]
  /\ hidden = [a \in Activities |-> FALSE] /\ timer = [a \in Activities |-> NoTimer]
  /\ banked = [a \in Activities |-> 0] /\ worked = [a \in Activities |-> 0]
  /\ attempt = [a \in Activities |-> NoAttempt] /\ reviewed = {}
  /\ issued = 0 /\ receipt = [k \in {} |-> Closed] /\ net = {} /\ replies = {}
  /\ view = [d \in Devices |-> Closed] /\ waiting = [d \in Devices |-> Idle]
  /\ journal = [d \in Devices |-> [a \in Activities |-> NoCommand]]
  /\ past = [a \in Activities |-> <<"ready">>]

-----------------------------------------------------------------------------
(* Timers.                                                                  *)

\* _activity_seconds and _day_seconds
Counted(a) == banked[a] + timer[a].counted
DaySeconds == FoldFunctionOnSet(+, 0, [a \in Activities |-> Counted(a)], Activities)

Least(x, y) == IF x < y THEN x ELSE y

AddedWithoutLimit(a) == Least(now - timer[a].last, MaxGap)

\* apply_heartbeat: what a heartbeat now adds
Added(a) == Least(Least(now - timer[a].last, MaxGap), DayLimit - DaySeconds)

\* _apply_timer_heartbeat, with the timer kept open or ended
Beat(a, seq, keep) ==
  /\ LET counted == timer[a].counted + Added(a) IN
     IF keep THEN /\ timer' = [timer EXCEPT ![a].last = now, ![a].counted = counted,
                                            ![a].seq = seq]
                  /\ UNCHANGED banked
     ELSE /\ timer' = [timer EXCEPT ![a] = NoTimer]
          /\ banked' = [banked EXCEPT ![a] = @ + counted]
  /\ focused' = Least(DayLimit \div Minute, (DaySeconds + Added(a)) \div Minute)

\* start_timer
OpenTimer(a) == timer' = [timer EXCEPT ![a] = [NoTimer EXCEPT !.open = TRUE, !.last = now]]

\* the timer of a heartbeat must be open, and its sequence must increase
MayBeat(a, seq) == timer[a].open /\ seq > timer[a].seq

-----------------------------------------------------------------------------
(* Commands.                                                                *)

\* _TRANSITIONS, of the targets a command can ask for
Transitions == {<<"ready", "active">>, <<"active", "paused">>, <<"active", "output_committed">>,
                <<"active", "incomplete">>, <<"paused", "active">>, <<"paused", "incomplete">>,
                <<"output_committed", "self_review_complete">>}

\* transition(): the version, the pair of states, and whether the day lets work begin
Allowed(a, target, expected) ==
  /\ version[a] = expected /\ <<state[a], target>> \in Transitions
  /\ target = "active" =>
       /\ status \in {"planned", "in_progress"}
       /\ state[a] = "paused" => status = "in_progress"

MoveToKeepingVersion(a, target) ==
  /\ state' = [state EXCEPT ![a] = target]
  /\ past' = [past EXCEPT ![a] = Append(@, target)]
  /\ UNCHANGED version

\* the new state and version of the activity
MoveTo(a, target) ==
  /\ state' = [state EXCEPT ![a] = target]
  /\ version' = [version EXCEPT ![a] = @ + 1]
  /\ past' = [past EXCEPT ![a] = Append(@, target)]

Start(a, c) ==
  /\ Allowed(a, "active", c.version) /\ state[a] = "ready"     \* started_at is write-once
  /\ status' = "in_progress" /\ OpenTimer(a) /\ MoveTo(a, "active")
  /\ UNCHANGED <<focused, handoff, hidden, banked, attempt, reviewed>>

Heartbeat(a, c) ==
  /\ version[a] = c.version /\ state[a] = "active" /\ MayBeat(a, c.seq)
  /\ Beat(a, c.seq, TRUE)
  /\ UNCHANGED <<status, handoff, state, version, past, hidden, attempt, reviewed>>

Pause(a, c) ==
  /\ Allowed(a, "paused", c.version) /\ MayBeat(a, c.seq)
  /\ Beat(a, c.seq, FALSE) /\ MoveTo(a, "paused")
  /\ UNCHANGED <<status, handoff, hidden, attempt, reviewed>>

Resume(a, c) ==
  /\ Allowed(a, "active", c.version) /\ state[a] = "paused"    \* started_at must be set
  /\ ~timer[a].open
  /\ OpenTimer(a) /\ MoveTo(a, "active")
  /\ UNCHANGED <<status, focused, handoff, hidden, banked, attempt, reviewed>>

\* set_source_visibility; the other value is the only one that changes anything
SetSourceVisibility(a, c) ==
  /\ version[a] = c.version /\ state[a] \in {"ready", "active", "paused"}
  /\ hidden' = [hidden EXCEPT ![a] = ~@] /\ MoveTo(a, state[a])
  /\ UNCHANGED <<status, focused, handoff, timer, banked, attempt, reviewed>>

\* classify_incomplete ends the timer of active work, under a sequence of its own
ClassifyIncomplete(a, c) ==
  /\ Allowed(a, "incomplete", c.version)
  /\ IF timer[a].open THEN Beat(a, timer[a].seq + 1, FALSE)
                      ELSE UNCHANGED <<timer, banked, focused>>
  /\ MoveTo(a, "incomplete")
  /\ UNCHANGED <<status, handoff, hidden, attempt, reviewed>>

\* commit_output; a reading must have its source hidden, so the attempt records it
CommitOutput(a, c) ==
  /\ Allowed(a, "output_committed", c.version) /\ MayBeat(a, c.seq)
  /\ Beat(a, c.seq, FALSE) /\ MoveTo(a, "output_committed")
  /\ attempt' = [attempt EXCEPT ![a] = [made |-> TRUE, hidden |-> hidden[a]]]
  /\ UNCHANGED <<status, handoff, hidden, reviewed>>

SubmitSelfReview(a, c) ==
  /\ Allowed(a, "self_review_complete", c.version) /\ attempt[a].made
  /\ reviewed' = reviewed \cup {a} /\ MoveTo(a, "self_review_complete")
  /\ UNCHANGED <<status, focused, handoff, hidden, timer, banked, attempt>>

Execute(c) ==
  LET a == c.act IN
  \/ c.kind = "start"     /\ Start(a, c)
  \/ c.kind = "heartbeat" /\ Heartbeat(a, c)
  \/ c.kind = "pause"     /\ Pause(a, c)
  \/ c.kind = "resume"    /\ Resume(a, c)
  \/ c.kind = "hide"      /\ SetSourceVisibility(a, c)
  \/ c.kind = "classify"  /\ ClassifyIncomplete(a, c)
  \/ c.kind = "commit"    /\ CommitOutput(a, c)
  \/ c.kind = "review"    /\ SubmitSelfReview(a, c)

\* what the handler accepts; the complement is a 409
Accepts(c) ==
  LET a == c.act IN
  CASE c.kind = "start"     -> Allowed(a, "active", c.version) /\ state[a] = "ready"
    [] c.kind = "heartbeat" -> version[a] = c.version /\ state[a] = "active" /\ MayBeat(a, c.seq)
    [] c.kind = "pause"     -> Allowed(a, "paused", c.version) /\ MayBeat(a, c.seq)
    [] c.kind = "resume"    -> Allowed(a, "active", c.version) /\ state[a] = "paused"
                                 /\ ~timer[a].open
    [] c.kind = "hide"      -> version[a] = c.version /\ state[a] \in {"ready", "active", "paused"}
    [] c.kind = "classify"  -> Allowed(a, "incomplete", c.version)
    [] c.kind = "commit"    -> Allowed(a, "output_committed", c.version) /\ MayBeat(a, c.seq)
    [] c.kind = "review"    -> Allowed(a, "self_review_complete", c.version) /\ attempt[a].made

\* the commands a device may send again under their key
Repeatable == {"heartbeat", "pause"}

Answer(c, ok, v) ==
  IF waiting[c.device].key = c.key
  THEN replies' = replies \cup {[to |-> c, ok |-> ok, view |-> v]}
  ELSE UNCHANGED replies

ReplayedHeartbeat(c) == c.key \in DOMAIN receipt /\ c.kind = "heartbeat"

\* _duplicate: there is a receipt under the key
Replayed(c) == c.key \in DOMAIN receipt

\* _response: the activity as it is after the command
Summary(a) == [act |-> a, version |-> version'[a], state |-> state'[a], seq |-> timer'[a].seq]

\* _save_receipt
SaveReceipt(c) ==
  receipt' = IF c.kind \notin Repeatable THEN receipt
             ELSE [k \in DOMAIN receipt \cup {c.key} |->
                     IF k = c.key THEN Summary(c.act) ELSE receipt[k]]

\* one command: its receipt again, or its effect and a new receipt, or a conflict
Serve(c) ==
  /\ c \in net /\ net' = net \ {c}
  /\ \/ /\ Replayed(c) /\ Answer(c, TRUE, receipt[c.key])
        /\ UNCHANGED <<serverVars, past, receipt>>
     \/ ~Replayed(c) /\ Execute(c) /\ SaveReceipt(c) /\ Answer(c, TRUE, Summary(c.act))
     \/ /\ ~Replayed(c) /\ ~Accepts(c) /\ Answer(c, FALSE, Closed)
        /\ UNCHANGED <<serverVars, past, receipt>>
  /\ UNCHANGED <<now, issued, deviceVars, worked, faults>>

-----------------------------------------------------------------------------
(* The rest of the server.                                                  *)

OutcomeFor(s) == CASE s = "incomplete" -> "deferred"
                   [] s \in CompletedForClose \ {"incomplete"} -> "completed"
                   [] OTHER -> "unfinished"

CloseDespiteTimer(unfinished) ==
  /\ status \in {"planned", "in_progress"}
  /\ ~unfinished => \A a \in Required : state[a] \in CompletedForClose

\* close_day's own checks; `unfinished` is unfinished_classification # "none"
MayClose(unfinished) ==
  /\ status \in {"planned", "in_progress"}
  /\ \A a \in Activities : ~timer[a].open
  /\ ~unfinished => \A a \in Required : state[a] \in CompletedForClose

CloseDay(unfinished) ==
  /\ MayClose(unfinished)
  /\ status' = IF unfinished THEN "incomplete" ELSE "closed"
  /\ handoff' = [a \in Activities |-> OutcomeFor(state[a])]
  /\ UNCHANGED <<now, focused, state, version, hidden, timer, banked, attempt, reviewed, issued,
                 receipt, net, replies, deviceVars, worked, past, faults>>

\* the review pipeline moves a reviewed activity on
ReviewMoves(a) ==
  /\ \/ state[a] = "self_review_complete" /\ MoveTo(a, "ai_processing")
     \/ state[a] = "ai_processing" /\ MoveTo(a, "feedback_ready")
  /\ UNCHANGED <<now, status, focused, handoff, hidden, timer, banked, attempt, reviewed, issued,
                 receipt, net, replies, deviceVars, worked, faults>>

Tick ==
  /\ now < MaxTime /\ now' = now + 1
  /\ worked' = [a \in Activities |-> worked[a] + IF timer[a].open THEN 1 ELSE 0]
  /\ UNCHANGED <<serverVars, issued, receipt, net, replies, deviceVars, past, faults>>

-----------------------------------------------------------------------------
(* The workspace of a device.                                               *)

Busy(d) == waiting[d] # Idle

\* open() and get_activity: read the activity, also after a conflict
Open(d, a) ==
  /\ ~Busy(d)
  /\ view' = [view EXCEPT ![d] = [act |-> a, version |-> version[a], state |-> state[a],
                                  seq |-> timer[a].seq]]
  /\ view' # view
  /\ UNCHANGED <<now, serverVars, issued, receipt, net, replies, waiting, journal, worked, past,
                 faults>>

Journalled(d) == journal[d][view[d].act]

\* nextSequence, when the journal is empty or is about to be ignored
NextSeq(d) ==
  LET pending == Journalled(d) IN
  1 + (IF pending # NoCommand /\ pending.seq > view[d].seq THEN pending.seq ELSE view[d].seq)

\* a command under a new key, based on what the device knows: v
Send(d, v, kind, seq, kept) ==
  LET c == [key |-> issued + 1, device |-> d, act |-> v.act, kind |-> kind,
            version |-> v.version, seq |-> seq] IN
  /\ issued < MaxCommands /\ issued' = issued + 1
  /\ net' = net \cup {c}
  /\ waiting' = [waiting EXCEPT ![d] = [key |-> c.key, then |-> "none"]]
  /\ journal' = IF kind \in Repeatable THEN [kept EXCEPT ![d][v.act] = c] ELSE kept

\* perform(): whatever the journal holds is sent again before anything new
Resend(d, then) ==
  LET c == Journalled(d) IN
  /\ net' = net \cup {c} /\ waiting' = [waiting EXCEPT ![d] = [key |-> c.key, then |-> then]]
  /\ UNCHANGED <<issued, journal>>

Issue(d) ==
  LET v == view[d]  new(kind, seq) == Send(d, v, kind, seq, journal) IN
  /\ v # Closed /\ ~Busy(d)
  /\ \/ v.state = "ready" /\ new("start", 0)
     \/ v.state \in {"ready", "active", "paused"} /\ (new("hide", 0) \/ new("classify", 0))
     \/ v.state = "active" /\ new("commit", NextSeq(d))
     \/ v.state = "output_committed" /\ new("review", 0)
     \/ v.state = "active" /\ Journalled(d) = NoCommand
          /\ (new("heartbeat", NextSeq(d)) \/ new("pause", NextSeq(d)))
     \/ v.state = "active" /\ Journalled(d) # NoCommand
          /\ (Resend(d, "none") \/ (Journalled(d).kind = "heartbeat" /\ Resend(d, "pause")))
     \/ v.state = "paused" /\ Journalled(d) = NoCommand /\ new("resume", 0)
     \/ v.state = "paused" /\ Journalled(d) # NoCommand /\ Resend(d, "resume")
  /\ UNCHANGED <<now, serverVars, receipt, replies, view, worked, past, faults>>

\* A timer command that was answered leaves the journal, and so does what a commit or
\* a classification made pointless.
JournalAfter(d, r) ==
  IF r.to.kind \in Repeatable \/ (r.ok /\ r.to.kind \in {"commit", "classify"})
  THEN [journal EXCEPT ![d][r.to.act] = NoCommand] ELSE journal

\* The summary replaces what the device knows, even when it is an older receipt.  A
\* pause or a resume that waited behind the journalled command goes on from there; a
\* resume that finds the activity not paused is a conflict, and what it saw is dropped.
Receive(d, r) ==
  LET then == waiting[d].then
      follow == r.ok /\ \/ then = "pause" /\ r.view.state = "active"
                        \/ then = "resume" /\ r.view.state = "paused" IN
  /\ r \in replies /\ waiting[d].key = r.to.key /\ replies' = replies \ {r}
  /\ \/ /\ follow
        /\ Send(d, r.view, then, IF then = "pause" THEN r.view.seq + 1 ELSE 0, JournalAfter(d, r))
        /\ UNCHANGED view
     \/ /\ ~follow /\ journal' = JournalAfter(d, r)
        /\ waiting' = [waiting EXCEPT ![d] = Idle]
        /\ view' = [view EXCEPT ![d] = IF r.ok /\ then # "resume" THEN r.view ELSE @]
        /\ UNCHANGED <<issued, net>>
  /\ UNCHANGED <<now, serverVars, receipt, worked, past, faults>>

\* An error, a sleep, a closed window or a crash: the answer is not seen, the journal
\* stays.  "closed" also closes the workspace.  A 401 empties the journal; it answers
\* one copy of the command, and a copy sent before may still arrive.
GiveUp(d, how) ==
  /\ Busy(d) /\ faults < MaxFaults /\ faults' = faults + 1
  /\ waiting' = [waiting EXCEPT ![d] = Idle]
  /\ replies' = {r \in replies : r.to.key # waiting[d].key}
  /\ view' = IF how = "closed" THEN [view EXCEPT ![d] = Closed] ELSE view
  /\ journal' = IF how = "unauthorized" THEN [journal EXCEPT ![d][view[d].act] = NoCommand]
                ELSE journal
  /\ UNCHANGED <<now, serverVars, issued, receipt, net, worked, past>>

-----------------------------------------------------------------------------
Next ==
  \/ \E c \in net : Serve(c)
  \/ \E unfinished \in BOOLEAN : CloseDay(unfinished)
  \/ \E a \in Activities : ReviewMoves(a)
  \/ Tick
  \/ \E d \in Devices : \/ \E a \in Activities : Open(d, a)
                        \/ Issue(d)
                        \/ \E r \in replies : Receive(d, r)
                        \/ \E how \in {"unseen", "closed", "unauthorized"} : GiveUp(d, how)

Spec == Init /\ [][Next]_studyVars

-----------------------------------------------------------------------------
(* Properties.                                                              *)

\* The minutes of the day are those its timers measured, never more than the day
\* may count, and no activity is credited with more time than its timer was open:
\* however often heartbeats are lost, delayed or sent again.
FocusIsMeasured ==
  /\ focused = DaySeconds \div Minute /\ DaySeconds <= DayLimit
  /\ \A a \in Activities : Counted(a) <= worked[a]

\* After close_day nothing of the day is running, and a day closed without
\* unfinished work keeps all its required work done, whatever commands arrive late.
ClosedDayIsQuiet ==
  status \in {"closed", "incomplete"} =>
    /\ \A a \in Activities : state[a] # "active" /\ ~timer[a].open
    /\ status = "closed" => \A a \in Required : state[a] \in CompletedForClose

\* What a device shows is what the activity was at that version: an old receipt
\* replayed late may set a device back, but never to a state that did not exist.
SeenWasTrue ==
  \A d \in Devices : view[d] # Closed =>
    LET v == view[d] IN v.version <= version[v.act] /\ v.state = past[v.act][v.version]

\* A command that took effect is never answered with a conflict.
NoFalseConflict == \A r \in replies : ~r.ok => r.to.key \notin DOMAIN receipt
=============================================================================
