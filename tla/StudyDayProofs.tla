---------------------------- MODULE StudyDayProofs ----------------------------
(***************************************************************************)
(* What StudyDay promises for any devices, activities, limits and faults.  *)
(* Three arguments: a timer is open exactly while its activity is active,  *)
(* and what it has counted and still may count is time that passed; what a *)
(* device or a receipt holds of an activity is a version that existed, and *)
(* versions are only appended; a key names one command of one device, and  *)
(* a device that waits for an answer has not sent the command again.       *)
(***************************************************************************)
EXTENDS StudyDay, FiniteSetTheorems, WellFoundedInduction, TLAPS

States == {"ready", "active", "paused", "output_committed", "self_review_complete",
           "ai_processing", "feedback_ready", "incomplete"}
Kinds == {"start", "heartbeat", "pause", "resume", "hide", "classify", "commit", "review"}

Timer   == [open : BOOLEAN, last : Nat, counted : Nat, seq : Nat]
View    == [act : Activities, version : Nat \ {0}, state : States, seq : Nat]
Command == [key : Nat \ {0}, device : Devices, act : Activities, kind : Kinds,
            version : Nat, seq : Nat]
Reply   == [to : Command, ok : BOOLEAN, view : View \cup {Closed}]
Wait    == [key : Nat, then : {"none", "pause", "resume"}]

ServerTypeOK ==
  /\ now \in Nat /\ worked \in [Activities -> Nat]
  /\ status \in {"planned", "in_progress", "closed", "incomplete"}
  /\ state \in [Activities -> States] /\ version \in [Activities -> Nat \ {0}]
  /\ timer \in [Activities -> Timer] /\ banked \in [Activities -> Nat]
  /\ past \in [Activities -> Seq(States)]

DeviceTypeOK ==
  /\ issued \in Nat
  /\ receipt \in [DOMAIN receipt -> View]
  /\ net \subseteq Command /\ replies \subseteq Reply
  /\ view \in [Devices -> View \cup {Closed}]
  /\ waiting \in [Devices -> Wait]
  /\ journal \in [Devices -> [Activities -> Command \cup {NoCommand}]]

\* A timer that is not open holds nothing; what it counted and the time since its last
\* heartbeat is time that it was open.
Clock(a) ==
  /\ ~timer[a].open => timer[a] = NoTimer
  /\ timer[a].last <= now
  /\ Counted(a) + (IF timer[a].open THEN now - timer[a].last ELSE 0) <= worked[a]

TimerInv ==
  /\ \A a \in Activities : Clock(a)
  /\ \A a \in Activities : timer[a].open <=> state[a] = "active"

FocusInv == focused = DaySeconds \div Minute /\ DaySeconds <= DayLimit

\* The history has one entry for each version, and the last is the state.
PastInv == \A a \in Activities : Len(past[a]) = version[a] /\ past[a][version[a]] = state[a]

ServerInv == ServerTypeOK /\ TimerInv /\ FocusInv /\ PastInv /\ ClosedDayIsQuiet

\* a version that existed
TrueView(v) ==
  /\ v \in View
  /\ v.version <= version[v.act] /\ v.state = past[v.act][v.version]

TruthInv ==
  /\ \A d \in Devices : view[d] # Closed => TrueView(view[d])
  /\ \A k \in DOMAIN receipt : TrueView(receipt[k])
  /\ \A r \in replies : r.ok => TrueView(r.view)

\* the commands that are under way, answered or journalled
Known(c) ==
  \/ c \in net
  \/ \E r \in replies : c = r.to
  \/ c # NoCommand /\ \E d \in Devices, a \in Activities : c = journal[d][a]

\* A key names one command, and a device waits only for commands of its own.
KeysInv ==
  /\ \A c : Known(c) => c.key <= issued
  /\ \A c, e : Known(c) /\ Known(e) /\ c.key = e.key => c = e
  /\ \A c : Known(c) => \A d \in Devices : waiting[d].key = c.key => c.device = d
  /\ \A d \in Devices : waiting[d].key <= issued
  /\ \A d \in Devices, a \in Activities : journal[d][a] # NoCommand =>
       journal[d][a].device = d /\ journal[d][a].act = a

\* An answer is the only one to its command, its device waits for it, and the command
\* is not under way again.
AnswersInv ==
  /\ \A r \in replies : /\ waiting[r.to.device].key = r.to.key
                        /\ \A c \in net : c.key # r.to.key
  /\ \A r, q \in replies : r.to.key = q.to.key => r = q
  /\ NoFalseConflict

StudyInv == ServerInv /\ DeviceTypeOK /\ TruthInv /\ KeysInv /\ AnswersInv

-----------------------------------------------------------------------------
(* Sums over a finite set.  The fold of the library is a recursive function *)
(* on the subsets; that one exists, and what it adds up to, by induction.   *)

Pick(s) == CHOOSE x \in s : TRUE

Tabulates(f, g, D) ==
  /\ g \in [D -> Int]
  /\ \A s \in D : g[s] = IF s = {} THEN 0 ELSE f[Pick(s)] + g[s \ {Pick(s)}]

Total(f, S) == FoldFunctionOnSet(+, 0, f, S)

LEMMA LeastExists ==
  ASSUME NEW S, S \subseteq Nat, S # {}
  PROVE  \E x \in S : \A y \in S : x <= y
<1> DEFINE Less == {ss \in Nat \X Nat : ss[1] < ss[2]}
<1>1. IsWellFoundedOn(Less, Nat)
  BY NatLessThanWellFounded DEF OpToRel
<1>2. PICK x \in S : \A y \in S : ~(<<y, x>> \in Less)
  <2> HIDE DEF Less
  <2> QED
    BY <1>1, WFMin
<1>3. ASSUME NEW y \in S PROVE x <= y
  <2>1. x \in Nat /\ y \in Nat
    OBVIOUS
  <2>2. ~(y < x)
    BY <1>2, <2>1
  <2> QED
    BY <2>1, <2>2
<1> QED
  BY <1>3

LEMMA PickIn == ASSUME NEW s, s # {} PROVE Pick(s) \in s
  BY DEF Pick

LEMMA TableExists ==
  ASSUME NEW S, IsFiniteSet(S), NEW f \in [S -> Int]
  PROVE  \E g : Tabulates(f, g, SUBSET S)
<1> DEFINE L(n) == {s \in SUBSET S : Cardinality(s) <= n}
           Bad == {n \in Nat : ~\E g : Tabulates(f, g, L(n))}
<1>0. \A s \in SUBSET S : /\ IsFiniteSet(s) /\ Cardinality(s) \in Nat
                          /\ Cardinality(s) <= Cardinality(S)
                          /\ Cardinality(s) = 0 <=> s = {}
                          /\ s # {} => /\ Pick(s) \in s
                                       /\ s \ {Pick(s)} \in SUBSET S
                                       /\ Cardinality(s \ {Pick(s)}) = Cardinality(s) - 1
  <2> SUFFICES ASSUME NEW s \in SUBSET S
               PROVE  /\ IsFiniteSet(s) /\ Cardinality(s) \in Nat
                      /\ Cardinality(s) <= Cardinality(S)
                      /\ Cardinality(s) = 0 <=> s = {}
                      /\ s # {} => /\ Pick(s) \in s
                                   /\ s \ {Pick(s)} \in SUBSET S
                                   /\ Cardinality(s \ {Pick(s)}) = Cardinality(s) - 1
    OBVIOUS
  <2>1. IsFiniteSet(s) /\ Cardinality(s) <= Cardinality(S)
    BY FS_Subset
  <2>2. Cardinality(s) \in Nat
    BY <2>1, FS_CardinalityType
  <2>3. Cardinality(s) = 0 <=> s = {}
    BY <2>1, FS_EmptySet
  <2>4. ASSUME s # {} PROVE Pick(s) \in s /\ Cardinality(s \ {Pick(s)}) = Cardinality(s) - 1
    BY <2>1, <2>4, PickIn, FS_RemoveElement
  <2> QED
    BY <2>1, <2>2, <2>3, <2>4
<1>1. Bad = {}
  <2> SUFFICES ASSUME Bad # {} PROVE FALSE
    OBVIOUS
  <2>1. PICK n \in Bad : \A k \in Bad : n <= k
    <3>1. Bad \subseteq Nat
      OBVIOUS
    <3> HIDE DEF Bad
    <3> QED
      BY <3>1, LeastExists
  <2>2. n \in Nat
    OBVIOUS
  <2>3. CASE n = 0
    <3> DEFINE g == [s \in L(0) |-> 0]
    <3>1. \A s \in L(0) : s = {}
      <4> SUFFICES ASSUME NEW s \in SUBSET S, Cardinality(s) <= 0 PROVE s = {}
        OBVIOUS
      <4>1. Cardinality(s) \in Nat /\ (Cardinality(s) = 0 <=> s = {})
        BY <1>0
      <4> QED
        BY <4>1
    <3>2. Tabulates(f, g, L(0))
      BY <3>1 DEF Tabulates
    <3> QED
      BY <2>3, <3>2
  <2>4. CASE n # 0
    <3>1. n - 1 \in Nat /\ n - 1 \notin Bad
      <4>1. n - 1 \in Nat /\ ~(n <= n - 1)
        BY <2>2, <2>4
      <4> HIDE DEF Bad
      <4> QED
        BY <2>1, <4>1
    <3>2. PICK g : Tabulates(f, g, L(n - 1))
      BY <3>1
    <3> DEFINE h == [s \in L(n) |-> IF s = {} THEN 0 ELSE f[Pick(s)] + g[s \ {Pick(s)}]]
    <3>3. ASSUME NEW s \in L(n), s # {}
          PROVE  /\ s \ {Pick(s)} \in L(n - 1) /\ f[Pick(s)] \in Int
                 /\ g[s \ {Pick(s)}] \in Int
                 /\ h[s \ {Pick(s)}] = g[s \ {Pick(s)}]
      <4>1. s \ {Pick(s)} \in L(n - 1) /\ s \ {Pick(s)} \in L(n) /\ f[Pick(s)] \in Int
        BY <1>0, <2>2, <3>1, <3>3
      <4>2. h[s \ {Pick(s)}] = g[s \ {Pick(s)}]
        BY <3>2, <4>1 DEF Tabulates
      <4>3. g[s \ {Pick(s)}] \in Int
        BY <3>2, <4>1 DEF Tabulates
      <4> QED
        BY <4>1, <4>2, <4>3
    <3>4. h \in [L(n) -> Int]
      <4> SUFFICES ASSUME NEW s \in L(n) 
            PROVE (IF s = {} THEN 0 ELSE f[Pick(s)] + g[s \ {Pick(s)}]) \in Int
        OBVIOUS
      <4>1. CASE s = {}
        BY <4>1
      <4>2. CASE s # {}
        <5>1. f[Pick(s)] \in Int /\ g[s \ {Pick(s)}] \in Int
          BY <3>3, <4>2
        <5> QED
          BY <4>2, <5>1
      <4> QED
        BY <4>1, <4>2
    <3>5. Tabulates(f, h, L(n))
      <4> SUFFICES ASSUME NEW s \in L(n)
                   PROVE h[s] = IF s = {} THEN 0 ELSE f[Pick(s)] + h[s \ {Pick(s)}]
        BY <3>4 DEF Tabulates
      <4>1. h[s] = IF s = {} THEN 0 ELSE f[Pick(s)] + g[s \ {Pick(s)}]
        OBVIOUS
      <4> HIDE DEF h, L
      <4> QED
        BY <3>3, <4>1
    <3> QED
      BY <2>2, <3>5
  <2> QED
    BY <2>3, <2>4
<1>2. Cardinality(S) \in Nat
  BY FS_CardinalityType
<1>3. PICK g : Tabulates(f, g, L(Cardinality(S)))
  BY <1>1, <1>2
<1>4. L(Cardinality(S)) = SUBSET S
  BY <1>0
<1> QED
  BY <1>3, <1>4

LEMMA SubsetInduction ==
  ASSUME NEW S, IsFiniteSet(S), NEW Bad, Bad \subseteq SUBSET S, Bad # {}
  PROVE  \E s \in Bad : \A x \in s : s \ {x} \notin Bad
<1>1. IsWellFoundedOn(StrictSubsetOrdering(S), FiniteSubsetsOf(S))
  BY FS_StrictSubsetOrderingWellFounded
<1>2. Bad \subseteq FiniteSubsetsOf(S)
  BY FS_Subset DEF FiniteSubsetsOf
<1>3. PICK s \in Bad : \A u \in Bad : ~(<<u, s>> \in StrictSubsetOrdering(S))
  BY <1>1, <1>2, WFMin
<1>4. ASSUME NEW x \in s, s \ {x} \in Bad PROVE FALSE
  <2>1. s \ {x} \in SUBSET S /\ s \in SUBSET S /\ s \ {x} \subseteq s /\ s \ {x} # s
    BY <1>4
  <2>2. <<s \ {x}, s>> \in StrictSubsetOrdering(S)
    BY <2>1 DEF StrictSubsetOrdering
  <2> QED
    BY <1>3, <1>4, <2>2
<1> QED
  BY <1>4

LEMMA TotalIsTable ==
  ASSUME NEW S, IsFiniteSet(S), NEW f \in [S -> Int]
  PROVE  \E g : Tabulates(f, g, SUBSET S) /\ Total(f, S) = g[S]
<1> DEFINE B(g) == [s \in SUBSET S |-> IF s = {} THEN 0 ELSE f[Pick(s)] + g[s \ {Pick(s)}]]
           it == CHOOSE g : g = B(g)
<1>1. Total(f, S) = it[S]
  BY DEF Total, FoldFunctionOnSet, MapThenFoldSet, Pick
<1>2. PICK g : Tabulates(f, g, SUBSET S)
  BY TableExists
<1>3. g = B(g)
  BY <1>2 DEF Tabulates
<1>4. it = B(it)
  <2> HIDE DEF B
  <2> QED BY <1>3
<1> HIDE DEF it
<1>5. \A s \in SUBSET S : it[s] = IF s = {} THEN 0 ELSE f[Pick(s)] + it[s \ {Pick(s)}]
  BY <1>4
<1>6. \A s \in SUBSET S : g[s] = IF s = {} THEN 0 ELSE f[Pick(s)] + g[s \ {Pick(s)}]
  BY <1>2 DEF Tabulates
<1> DEFINE Bad == {s \in SUBSET S : it[s] # g[s]}
<1>7. Bad = {}
  <2> SUFFICES ASSUME Bad # {} PROVE FALSE
    OBVIOUS
  <2>1. PICK s \in Bad : \A x \in s : s \ {x} \notin Bad
    <3>1. Bad \subseteq SUBSET S
      OBVIOUS
    <3> HIDE DEF Bad
    <3> QED
      BY <3>1, SubsetInduction
  <2>2. s # {}
    BY <1>5, <1>6
  <2>3. Pick(s) \in s /\ s \ {Pick(s)} \in SUBSET S
    BY <2>2, PickIn
  <2>4. it[s \ {Pick(s)}] = g[s \ {Pick(s)}]
    BY <2>1, <2>3
  <2>5. it[s] = g[s]
    BY <1>5, <1>6, <2>2, <2>4
  <2> QED
    BY <2>5
<1> QED
  BY <1>1, <1>2, <1>7

(* One entry more by d: the total more by d. *)
LEMMA TotalChanges ==
  ASSUME NEW S, IsFiniteSet(S), NEW f \in [S -> Int], NEW a \in S, NEW d \in Int
  PROVE  Total([f EXCEPT ![a] = @ + d], S) = Total(f, S) + d
<1> DEFINE e == [f EXCEPT ![a] = @ + d]
<1>1. e \in [S -> Int] /\ e[a] = f[a] + d /\ \A x \in S \ {a} : e[x] = f[x]
  OBVIOUS
<1> HIDE DEF e
<1>2. PICK g : Tabulates(f, g, SUBSET S) /\ Total(f, S) = g[S]
  BY TotalIsTable
<1>3. PICK h : Tabulates(e, h, SUBSET S) /\ Total(e, S) = h[S]
  BY <1>1, TotalIsTable
<1>4. \A s \in SUBSET S : /\ g[s] \in Int /\ h[s] \in Int
                          /\ g[s] = IF s = {} THEN 0 ELSE f[Pick(s)] + g[s \ {Pick(s)}]
                          /\ h[s] = IF s = {} THEN 0 ELSE e[Pick(s)] + h[s \ {Pick(s)}]
  BY <1>2, <1>3 DEF Tabulates
<1> DEFINE Bad == {s \in SUBSET S : h[s] # g[s] + IF a \in s THEN d ELSE 0}
<1>5. Bad = {}
  <2> SUFFICES ASSUME Bad # {} PROVE FALSE
    OBVIOUS
  <2>1. PICK s \in Bad : \A x \in s : s \ {x} \notin Bad
    <3>1. Bad \subseteq SUBSET S
      OBVIOUS
    <3> HIDE DEF Bad
    <3> QED
      BY <3>1, SubsetInduction
  <2>2. s # {}
    <3> SUFFICES ASSUME s = {} PROVE FALSE
      OBVIOUS
    <3>1. h[s] = 0 /\ g[s] = 0 /\ a \notin s
      BY <1>4
    <3> QED
      BY <3>1
  <2> DEFINE x == Pick(s)  t == s \ {x}
  <2>3. x \in s /\ t \in SUBSET S /\ x \in S
    BY <2>2, PickIn
  <2>4. h[t] = g[t] + IF a \in t THEN d ELSE 0
    BY <2>1, <2>3
  <2>5. g[s] = f[x] + g[t] /\ h[s] = e[x] + h[t]
    BY <1>4, <2>2
  <2>6. g[t] \in Int /\ h[t] \in Int /\ f[x] \in Int
    BY <1>4, <2>3
  <2> HIDE DEF t, x
  <2>7. x = a => a \notin t /\ a \in s
    BY <2>3 DEF t
  <2>8. x # a => (a \in t <=> a \in s)
    BY <2>3 DEF t
  <2>9. h[s] = g[s] + IF a \in s THEN d ELSE 0
    <3>1. CASE x = a
      BY <1>1, <2>3, <2>4, <2>5, <2>6, <2>7, <3>1
    <3>2. CASE x # a
      <4>1. e[x] = f[x]
        BY <1>1, <2>3, <3>2
      <4> QED
        BY <2>4, <2>5, <2>6, <2>8, <3>2, <4>1
    <3> QED
      BY <3>1, <3>2
  <2> QED
    BY <2>9
<1>6. h[S] = g[S] + d
  BY <1>5
<1> QED
  BY <1>2, <1>3, <1>6 DEF e

LEMMA TotalOfZeros ==
  ASSUME NEW S, IsFiniteSet(S)
  PROVE  Total([a \in S |-> 0], S) = 0
<1> DEFINE f == [a \in S |-> 0]
<1>1. f \in [S -> Int] /\ \A x \in S : f[x] = 0
  OBVIOUS
<1> HIDE DEF f
<1>2. PICK g : Tabulates(f, g, SUBSET S) /\ Total(f, S) = g[S]
  BY <1>1, TotalIsTable
<1>3. \A s \in SUBSET S : g[s] = IF s = {} THEN 0 ELSE f[Pick(s)] + g[s \ {Pick(s)}]
  BY <1>2 DEF Tabulates
<1> DEFINE Bad == {s \in SUBSET S : g[s] # 0}
<1>4. Bad = {}
  <2> SUFFICES ASSUME Bad # {} PROVE FALSE
    OBVIOUS
  <2>1. PICK s \in Bad : \A x \in s : s \ {x} \notin Bad
    <3>1. Bad \subseteq SUBSET S
      OBVIOUS
    <3> HIDE DEF Bad
    <3> QED
      BY <3>1, SubsetInduction
  <2>2. s # {}
    BY <1>3
  <2>3. Pick(s) \in s /\ s \ {Pick(s)} \in SUBSET S
    BY <2>2, PickIn
  <2>4. g[s \ {Pick(s)}] = 0 /\ f[Pick(s)] = 0
    BY <1>1, <2>1, <2>3
  <2> QED
    BY <1>3, <2>2, <2>4
<1> QED
  BY <1>2, <1>4 DEF f

LEMMA DivMonotonic ==
  ASSUME NEW x \in Int, NEW y \in Int, NEW m \in Nat \ {0}, x <= y
  PROVE  x \div m <= y \div m /\ x \div m \in Int /\ y \div m \in Int
  OBVIOUS

-----------------------------------------------------------------------------
(* Timers.                                                                  *)

LEMMA DayIsTotal ==
  DaySeconds = Total([a \in Activities |-> Counted(a)], Activities)
  BY DEF DaySeconds, Total, FoldFunctionOnSet, MapThenFoldSet

LEMMA DayIsInt ==
  ASSUME ServerTypeOK
  PROVE  DaySeconds \in Int
<1> DEFINE f == [a \in Activities |-> Counted(a)]
<1>1. f \in [Activities -> Int]
  BY DEF ServerTypeOK, Counted, Timer
<1> HIDE DEF f
<1>2. PICK g : Tabulates(f, g, SUBSET Activities) /\ Total(f, Activities) = g[Activities]
  BY <1>1, TotalIsTable, StudyAssumption
<1>3. g[Activities] \in Int
  BY <1>2 DEF Tabulates
<1> QED
  BY <1>2, <1>3, DayIsTotal DEF f

(* What is counted of one activity grows by d, of the others not at all. *)
LEMMA DayGrows ==
  ASSUME ServerTypeOK, NEW a \in Activities, NEW d \in Int,
         Counted(a)' = Counted(a) + d,
         \A b \in Activities \ {a} : Counted(b)' = Counted(b)
  PROVE  DaySeconds' = DaySeconds + d
<1> DEFINE f == [b \in Activities |-> Counted(b)]
           g == [b \in Activities |-> Counted(b)']
<1>1. f \in [Activities -> Int]
  BY DEF ServerTypeOK, Counted, Timer
<1>2. g = [f EXCEPT ![a] = @ + d]
  OBVIOUS
<1>3. DaySeconds = Total(f, Activities)
  BY DayIsTotal
<1>4. DaySeconds' = Total(g, Activities)
  BY DEF DaySeconds, Total, FoldFunctionOnSet, MapThenFoldSet
<1> HIDE DEF f, g
<1> QED
  BY <1>1, <1>2, <1>3, <1>4, TotalChanges, StudyAssumption

LEMMA DaySame ==
  ASSUME \A b \in Activities : Counted(b)' = Counted(b)
  PROVE  DaySeconds' = DaySeconds
<1> DEFINE f == [b \in Activities |-> Counted(b)]
           g == [b \in Activities |-> Counted(b)']
<1>1. f = g
  OBVIOUS
<1>2. DaySeconds = Total(f, Activities)
  BY DayIsTotal
<1>3. DaySeconds' = Total(g, Activities)
  BY DEF DaySeconds, Total, FoldFunctionOnSet, MapThenFoldSet
<1> HIDE DEF f, g
<1> QED
  BY <1>1, <1>2, <1>3

(* _apply_timer_heartbeat *)
LEMMA BeatKeeps ==
  ASSUME ServerInv, NEW a \in Activities, NEW seq \in Nat, NEW keep \in BOOLEAN,
         timer[a].open, Beat(a, seq, keep), now' = now, worked' = worked
  PROVE  /\ timer' \in [Activities -> Timer] /\ banked' \in [Activities -> Nat]
         /\ (timer'[a].open <=> keep)
         /\ \A b \in Activities \ {a} : timer'[b] = timer[b]
         /\ \A b \in Activities : Clock(b)'
         /\ FocusInv'
<1> USE DEF ServerInv
<1>1. DaySeconds \in Int /\ DaySeconds <= DayLimit /\ DayLimit \in Nat /\ MaxGap \in Nat
  BY DayIsInt, StudyAssumption DEF FocusInv
<1>2. timer \in [Activities -> Timer] /\ banked \in [Activities -> Nat] /\ now \in Nat
  BY DEF ServerTypeOK
<1>3. timer[a].last \in Nat /\ timer[a].last <= now /\ timer[a].counted \in Nat
  BY <1>2 DEF TimerInv, Clock, Timer
<1>4. Added(a) \in Nat /\ Added(a) <= now - timer[a].last /\ Added(a) <= DayLimit - DaySeconds
  BY <1>1, <1>2, <1>3 DEF Added, Least
<1>5. PICK n \in Nat : n = Added(a)
  BY <1>4
<1>6. IF keep THEN timer' = [timer EXCEPT ![a] = [open |-> timer[a].open, last |-> now,
                                                 counted |-> timer[a].counted + n, seq |-> seq]]
                   /\ banked' = banked
      ELSE timer' = [timer EXCEPT ![a] = NoTimer]
           /\ banked' = [banked EXCEPT ![a] = @ + (timer[a].counted + n)]
  BY <1>2, <1>5 DEF Beat, Timer
<1>7. timer' \in [Activities -> Timer] /\ banked' \in [Activities -> Nat]
  <2>1. [open |-> timer[a].open, last |-> now, counted |-> timer[a].counted + n, seq |-> seq]
          \in Timer
    BY <1>2, <1>3 DEF Timer
  <2>2. NoTimer \in Timer
    BY DEF Timer, NoTimer
  <2>3. CASE keep
    BY <1>2, <1>6, <2>1, <2>3
  <2>4. CASE ~keep
    <3>1. banked[a] + (timer[a].counted + n) \in Nat
      BY <1>2, <1>3
    <3> QED
      BY <1>2, <1>6, <2>2, <2>4, <3>1
  <2> QED
    BY <2>3, <2>4
<1>8. (timer'[a].open <=> keep) /\ \A b \in Activities \ {a} : timer'[b] = timer[b]
  <2>1. CASE keep
    <3>1. timer[a].open = TRUE
      BY <1>2 DEF Timer
    <3> QED
      BY <1>2, <1>6, <2>1, <3>1
  <2>2. CASE ~keep
    BY <1>2, <1>6, <2>2 DEF NoTimer
  <2> QED
    BY <2>1, <2>2
<1>9. Counted(a)' = Counted(a) + n
  BY <1>2, <1>3, <1>6 DEF Counted, NoTimer
<1>10. \A b \in Activities \ {a} : Counted(b)' = Counted(b)
  BY <1>2, <1>6 DEF Counted
<1>11. DaySeconds' = DaySeconds + n
  BY <1>9, <1>10, DayGrows
<1>12. FocusInv'
  <2>1. focused' = Least(DayLimit \div Minute, DaySeconds' \div Minute)
    BY <1>5, <1>11 DEF Beat
  <2>2. DaySeconds' \in Int /\ DaySeconds' <= DayLimit
    BY <1>1, <1>4, <1>5, <1>11
  <2>3. DaySeconds' \div Minute <= DayLimit \div Minute
        /\ DaySeconds' \div Minute \in Int /\ DayLimit \div Minute \in Int
    BY <1>1, <2>2, DivMonotonic, StudyAssumption
  <2> QED
    BY <2>1, <2>2, <2>3 DEF Least, FocusInv
<1>13. ASSUME NEW b \in Activities PROVE Clock(b)'
  <2>1. Clock(b) /\ worked[b] \in Nat /\ Counted(b) \in Nat
    BY <1>2 DEF TimerInv, ServerTypeOK, Counted, Timer
  <2>2. CASE b # a
    BY <1>8, <1>10, <2>1, <2>2 DEF Clock
  <2>3. CASE b = a
    <3>1. Counted(a) + (now - timer[a].last) <= worked[a]
      BY <2>1, <2>3 DEF Clock
    <3>2. Counted(a)' <= worked'[a]
      BY <1>2, <1>3, <1>4, <1>5, <1>9, <2>1, <2>3, <3>1
    <3>3. CASE keep
      <4>1. timer'[a].open /\ timer'[a].last = now
        BY <1>2, <1>6, <3>3
      <4> QED
        BY <1>2, <1>9, <2>1, <2>3, <3>2, <4>1 DEF Clock
    <3>4. CASE ~keep
      <4>1. timer'[a] = NoTimer /\ ~timer'[a].open /\ timer'[a].last = 0
        BY <1>2, <1>6, <3>4 DEF NoTimer
      <4> QED
        BY <1>2, <1>9, <2>1, <2>3, <3>2, <4>1 DEF Clock
    <3> QED
      BY <3>3, <3>4
  <2> QED
    BY <2>2, <2>3
<1> QED
  BY <1>7, <1>8, <1>12, <1>13

(* start_timer *)
LEMMA OpenKeeps ==
  ASSUME ServerInv, NEW a \in Activities, ~timer[a].open, OpenTimer(a),
         banked' = banked, focused' = focused, now' = now, worked' = worked
  PROVE  /\ timer' \in [Activities -> Timer]
         /\ timer'[a].open
         /\ \A b \in Activities \ {a} : timer'[b] = timer[b]
         /\ \A b \in Activities : Clock(b)'
         /\ FocusInv'
<1> USE DEF ServerInv
<1>1. timer \in [Activities -> Timer] /\ banked \in [Activities -> Nat] /\ now \in Nat
  BY DEF ServerTypeOK
<1> DEFINE u == [NoTimer EXCEPT !.open = TRUE, !.last = now]
<1>2. u \in Timer /\ u.open /\ u.last = now /\ u.counted = 0
  BY <1>1 DEF Timer, NoTimer
<1>3. timer[a] = NoTimer /\ timer[a].counted = 0
  BY DEF TimerInv, Clock, NoTimer
<1>10. timer' = [timer EXCEPT ![a] = u]
  BY DEF OpenTimer
<1> HIDE DEF u
<1>4. timer' \in [Activities -> Timer]
  BY <1>1, <1>2, <1>10
<1>5. timer'[a].open /\ timer'[a].last = now /\ timer'[a].counted = 0
      /\ \A b \in Activities \ {a} : timer'[b] = timer[b]
  BY <1>1, <1>2, <1>10
<1>6. \A b \in Activities : Counted(b)' = Counted(b)
  BY <1>3, <1>5 DEF Counted
<1>7. FocusInv'
  BY <1>6, DaySame DEF FocusInv
<1>8. ASSUME NEW b \in Activities PROVE Clock(b)'
  <2>1. Clock(b) /\ worked[b] \in Nat /\ Counted(b) \in Nat
    BY <1>1 DEF TimerInv, ServerTypeOK, Counted, Timer
  <2>2. CASE b # a
    BY <1>5, <1>6, <2>1, <2>2 DEF Clock
  <2>3. CASE b = a
    BY <1>1, <1>5, <1>6, <2>1, <2>3 DEF Clock
  <2> QED
    BY <2>2, <2>3
<1> QED
  BY <1>4, <1>5, <1>7, <1>8

LEMMA TimersKeep ==
  ASSUME ServerInv, UNCHANGED <<timer, banked, focused, now, worked>>
  PROVE  (\A b \in Activities : Clock(b)') /\ FocusInv'
<1>1. \A b \in Activities : Counted(b)' = Counted(b)
  BY DEF Counted
<1>2. DaySeconds' = DaySeconds
  BY <1>1, DaySame
<1> QED
  BY <1>1, <1>2 DEF ServerInv, TimerInv, Clock, FocusInv

-----------------------------------------------------------------------------
(* Commands.                                                                *)

\* Versions are appended; those that existed stay.
Grows ==
  \A a \in Activities :
    version[a] <= version'[a] /\ \A n \in 1..version[a] : past'[a][n] = past[a][n]

LEMMA MoveKeeps ==
  ASSUME ServerTypeOK, PastInv, NEW a \in Activities, NEW t \in States, MoveTo(a, t)
  PROVE  /\ state' \in [Activities -> States] /\ version' \in [Activities -> Nat \ {0}]
         /\ past' \in [Activities -> Seq(States)]
         /\ PastInv' /\ Grows
<1> DEFINE p == Append(past[a], t)
<1>1. past[a] \in Seq(States) /\ version[a] \in Nat \ {0} /\ Len(past[a]) = version[a]
  BY DEF ServerTypeOK, PastInv
<1>2. /\ p \in Seq(States) /\ Len(p) = version[a] + 1 /\ p[version[a] + 1] = t
      /\ \A n \in 1..version[a] : p[n] = past[a][n]
  BY <1>1
<1>3. /\ past' = [past EXCEPT ![a] = p] /\ state' = [state EXCEPT ![a] = t]
      /\ version' = [version EXCEPT ![a] = @ + 1]
  BY DEF MoveTo
<1> HIDE DEF p
<1>4. /\ state' \in [Activities -> States] /\ version' \in [Activities -> Nat \ {0}]
      /\ past' \in [Activities -> Seq(States)]
  BY <1>1, <1>2, <1>3 DEF ServerTypeOK
<1>5. /\ past'[a] = p /\ state'[a] = t /\ version'[a] = version[a] + 1
      /\ \A b \in Activities \ {a} : /\ past'[b] = past[b] /\ state'[b] = state[b]
                                     /\ version'[b] = version[b]
  BY <1>3 DEF ServerTypeOK
<1>6. PastInv'
  BY <1>1, <1>2, <1>5 DEF PastInv
<1>7. Grows
  <2> SUFFICES ASSUME NEW b \in Activities
               PROVE  /\ version[b] <= version'[b]
                      /\ \A n \in 1..version[b] : past'[b][n] = past[b][n]
    BY DEF Grows
  <2>1. CASE b = a
    BY <1>1, <1>2, <1>5, <2>1
  <2>2. CASE b # a
    BY <1>5, <2>2 DEF ServerTypeOK
  <2> QED
    BY <2>1, <2>2
<1> QED
  BY <1>4, <1>6, <1>7

(* A move with its timer: what every command comes down to. *)
LEMMA CommandKeeps ==
  ASSUME ServerInv, NEW a \in Activities, NEW t \in States, MoveTo(a, t),
         now' = now, worked' = worked,
         timer' \in [Activities -> Timer], banked' \in [Activities -> Nat],
         \A b \in Activities : Clock(b)', FocusInv',
         \A b \in Activities \ {a} : timer'[b] = timer[b],
         timer'[a].open <=> t = "active",
         \/ status' = "in_progress"
         \/ /\ status' = status
            /\ status \in {"closed", "incomplete"} =>
                 t # "active" /\ (state[a] \in CompletedForClose => t \in CompletedForClose)
  PROVE  ServerInv' /\ Grows
<1> USE DEF ServerInv
<1>1. /\ state' \in [Activities -> States] /\ version' \in [Activities -> Nat \ {0}]
      /\ past' \in [Activities -> Seq(States)] /\ PastInv' /\ Grows
  BY MoveKeeps
<1>2. state'[a] = t /\ \A b \in Activities \ {a} : state'[b] = state[b]
  BY DEF MoveTo, ServerTypeOK
<1>3. ServerTypeOK'
  BY <1>1 DEF ServerTypeOK
<1>4. TimerInv'
  BY <1>2 DEF TimerInv
<1>5. ClosedDayIsQuiet'
  <2> SUFFICES ASSUME status' \in {"closed", "incomplete"}
               PROVE  /\ \A b \in Activities : state'[b] # "active" /\ ~timer'[b].open
                      /\ status' = "closed" =>
                           \A b \in Required : state'[b] \in CompletedForClose
    BY DEF ClosedDayIsQuiet
  <2>1. /\ status' = status /\ t # "active"
        /\ state[a] \in CompletedForClose => t \in CompletedForClose
        /\ \A b \in Activities : state[b] # "active"
        /\ status = "closed" => \A b \in Required : state[b] \in CompletedForClose
    BY DEF ClosedDayIsQuiet
  <2>2. \A b \in Activities : state'[b] # "active"
    BY <1>2, <2>1
  <2>3. \A b \in Activities : ~timer'[b].open
    BY <1>4, <2>2 DEF TimerInv
  <2>4. status' = "closed" => \A b \in Required : state'[b] \in CompletedForClose
    BY <1>2, <2>1, StudyAssumption
  <2> QED
    BY <2>2, <2>3, <2>4
<1> QED
  BY <1>1, <1>3, <1>4, <1>5

LEMMA StartKeeps ==
  ASSUME ServerInv, NEW a \in Activities, NEW c \in Command, Start(a, c),
         UNCHANGED <<now, worked>>
  PROVE  ServerInv' /\ Grows
<1>1. ~timer[a].open /\ OpenTimer(a) /\ MoveTo(a, "active") /\ status' = "in_progress"
      /\ UNCHANGED <<focused, banked>>
  BY DEF Start, ServerInv, TimerInv
<1>2. /\ timer' \in [Activities -> Timer] /\ timer'[a].open /\ FocusInv'
      /\ \A b \in Activities \ {a} : timer'[b] = timer[b]
      /\ \A b \in Activities : Clock(b)'
  BY <1>1, OpenKeeps
<1> QED
  BY <1>1, <1>2, CommandKeeps DEF ServerInv, ServerTypeOK, States

LEMMA ResumeKeeps ==
  ASSUME ServerInv, NEW a \in Activities, NEW c \in Command, Resume(a, c),
         UNCHANGED <<now, worked>>
  PROVE  ServerInv' /\ Grows
<1>1. ~timer[a].open /\ OpenTimer(a) /\ MoveTo(a, "active") /\ status' = status
      /\ status = "in_progress" /\ UNCHANGED <<focused, banked>>
  BY DEF Resume, Allowed
<1>2. /\ timer' \in [Activities -> Timer] /\ timer'[a].open /\ FocusInv'
      /\ \A b \in Activities \ {a} : timer'[b] = timer[b]
      /\ \A b \in Activities : Clock(b)'
  BY <1>1, OpenKeeps
<1> QED
  BY <1>1, <1>2, CommandKeeps DEF ServerInv, ServerTypeOK, States

LEMMA HeartbeatKeeps ==
  ASSUME ServerInv, NEW a \in Activities, NEW c \in Command, Heartbeat(a, c),
         UNCHANGED <<now, worked>>
  PROVE  ServerInv' /\ Grows
<1>1. /\ timer[a].open /\ Beat(a, c.seq, TRUE) /\ c.seq \in Nat /\ state[a] = "active"
      /\ UNCHANGED <<status, state, version, past>>
  BY DEF Heartbeat, MayBeat, Command
<1>2. /\ timer' \in [Activities -> Timer] /\ banked' \in [Activities -> Nat]
      /\ timer'[a].open /\ FocusInv'
      /\ \A b \in Activities \ {a} : timer'[b] = timer[b]
      /\ \A b \in Activities : Clock(b)'
  BY <1>1, BeatKeeps
<1>3. ServerTypeOK' /\ PastInv'
  BY <1>1, <1>2 DEF ServerInv, ServerTypeOK, PastInv
<1>4. TimerInv'
  BY <1>1, <1>2 DEF ServerInv, TimerInv
<1>5. ClosedDayIsQuiet'
  BY <1>1 DEF ServerInv, ClosedDayIsQuiet
<1>6. Grows
  BY <1>1 DEF Grows, ServerInv, ServerTypeOK
<1> QED
  BY <1>2, <1>3, <1>4, <1>5, <1>6 DEF ServerInv

(* The commands that end the timer. *)
LEMMA EndKeeps ==
  ASSUME ServerInv, NEW a \in Activities, NEW t \in States \ {"active"}, NEW seq \in Nat,
         timer[a].open, Beat(a, seq, FALSE), MoveTo(a, t), UNCHANGED <<now, worked, status>>
  PROVE  ServerInv' /\ Grows
<1>1. /\ timer' \in [Activities -> Timer] /\ banked' \in [Activities -> Nat]
      /\ ~timer'[a].open /\ FocusInv'
      /\ \A b \in Activities \ {a} : timer'[b] = timer[b]
      /\ \A b \in Activities : Clock(b)'
  BY BeatKeeps
<1>2. state[a] = "active"
  BY DEF ServerInv, TimerInv
<1> QED
  BY <1>1, <1>2, CommandKeeps DEF CompletedForClose

(* The commands that leave the timer alone. *)
LEMMA QuietKeeps ==
  ASSUME ServerInv, NEW a \in Activities, NEW t \in States, MoveTo(a, t),
         t = "active" <=> state[a] = "active",
         state[a] \in CompletedForClose => t \in CompletedForClose,
         UNCHANGED <<now, worked, status, timer, banked, focused>>
  PROVE  ServerInv' /\ Grows
<1>1. (\A b \in Activities : Clock(b)') /\ FocusInv'
  BY TimersKeep
<1>2. timer' \in [Activities -> Timer] /\ banked' \in [Activities -> Nat]
  BY DEF ServerInv, ServerTypeOK
<1>3. timer'[a].open <=> t = "active"
  BY DEF ServerInv, TimerInv
<1>4. status \in {"closed", "incomplete"} => t # "active"
  BY DEF ServerInv, ClosedDayIsQuiet
<1> QED
  BY <1>1, <1>2, <1>3, <1>4, CommandKeeps

LEMMA ExecuteKeeps ==
  ASSUME ServerInv, NEW c \in Command, Execute(c), UNCHANGED <<now, worked>>
  PROVE  ServerInv' /\ Grows
<1> DEFINE a == c.act
<1>0. a \in Activities /\ c.seq \in Nat /\ state[a] \in States /\ timer[a].seq \in Nat
  BY DEF Command, ServerInv, ServerTypeOK, Timer
<1>1. CASE Start(a, c)
  BY <1>0, <1>1, StartKeeps
<1>2. CASE Heartbeat(a, c)
  BY <1>0, <1>2, HeartbeatKeeps
<1>3. CASE Pause(a, c)
  <2>1. /\ timer[a].open /\ Beat(a, c.seq, FALSE) /\ MoveTo(a, "paused")
        /\ status' = status
    BY <1>3 DEF Pause, MayBeat
  <2> QED
    BY <1>0, <2>1, EndKeeps DEF States
<1>4. CASE Resume(a, c)
  BY <1>0, <1>4, ResumeKeeps
<1>5. CASE SetSourceVisibility(a, c)
  <2>1. MoveTo(a, state[a]) /\ UNCHANGED <<status, timer, banked, focused>>
    BY <1>5 DEF SetSourceVisibility
  <2> QED
    BY <1>0, <2>1, QuietKeeps
<1>6. CASE ClassifyIncomplete(a, c)
  <2>1. MoveTo(a, "incomplete") /\ status' = status
    BY <1>6 DEF ClassifyIncomplete
  <2>2. CASE timer[a].open
    <3>1. timer[a].seq + 1 \in Nat
      BY <1>0
    <3>2. Beat(a, timer[a].seq + 1, FALSE)
      BY <1>6, <2>2 DEF ClassifyIncomplete
    <3> QED
      BY <1>0, <2>1, <2>2, <3>1, <3>2, EndKeeps DEF States
  <2>3. CASE ~timer[a].open
    <3>1. state[a] # "active" /\ UNCHANGED <<timer, banked, focused>>
      BY <1>0, <1>6, <2>3 DEF ServerInv, TimerInv, ClassifyIncomplete
    <3> QED
      BY <1>0, <2>1, <3>1, QuietKeeps DEF States, CompletedForClose
  <2> QED
    BY <2>2, <2>3
<1>7. CASE CommitOutput(a, c)
  <2>1. /\ timer[a].open /\ Beat(a, c.seq, FALSE) /\ MoveTo(a, "output_committed")
        /\ status' = status
    BY <1>7 DEF CommitOutput, MayBeat
  <2> QED
    BY <1>0, <2>1, EndKeeps DEF States
<1>8. CASE SubmitSelfReview(a, c)
  <2>1. /\ MoveTo(a, "self_review_complete") /\ UNCHANGED <<status, timer, banked, focused>>
        /\ state[a] = "output_committed"
    BY <1>8 DEF SubmitSelfReview, Allowed, Transitions
  <2> QED
    BY <1>0, <2>1, QuietKeeps DEF States, CompletedForClose
<1> QED
  BY <1>1, <1>2, <1>3, <1>4, <1>5, <1>6, <1>7, <1>8 DEF Execute

-----------------------------------------------------------------------------
(* The rest of the server.                                                  *)

LEMMA ServerSame ==
  ASSUME ServerInv, UNCHANGED <<serverVars, now, worked, past>>
  PROVE  ServerInv' /\ Grows
<1>1. (\A b \in Activities : Clock(b)') /\ FocusInv'
  BY TimersKeep DEF serverVars
<1>2. ServerTypeOK' /\ PastInv' /\ Grows
  BY DEF serverVars, ServerInv, ServerTypeOK, PastInv, Grows
<1>3. TimerInv' /\ ClosedDayIsQuiet'
  BY <1>1 DEF serverVars, ServerInv, TimerInv, ClosedDayIsQuiet
<1> QED
  BY <1>1, <1>2, <1>3 DEF ServerInv

LEMMA CloseKeeps ==
  ASSUME ServerInv, NEW unfinished \in BOOLEAN, CloseDay(unfinished)
  PROVE  ServerInv' /\ Grows
<1> USE DEF CloseDay, ServerInv
<1>1. (\A b \in Activities : Clock(b)') /\ FocusInv'
  BY TimersKeep
<1>2. ServerTypeOK' /\ PastInv' /\ Grows
  BY DEF ServerTypeOK, PastInv, Grows
<1>3. TimerInv'
  BY <1>1 DEF TimerInv
<1>4. \A a \in Activities : ~timer[a].open /\ state[a] # "active"
  BY DEF MayClose, TimerInv
<1>5. ClosedDayIsQuiet'
  BY <1>4 DEF MayClose, ClosedDayIsQuiet
<1> QED
  BY <1>1, <1>2, <1>3, <1>5

LEMMA ReviewKeeps ==
  ASSUME ServerInv, NEW a \in Activities, ReviewMoves(a)
  PROVE  ServerInv' /\ Grows
<1>1. UNCHANGED <<now, worked, status, timer, banked, focused>>
  BY DEF ReviewMoves
<1>2. CASE state[a] = "self_review_complete" /\ MoveTo(a, "ai_processing")
  BY <1>1, <1>2, QuietKeeps DEF States, CompletedForClose
<1>3. CASE state[a] = "ai_processing" /\ MoveTo(a, "feedback_ready")
  BY <1>1, <1>3, QuietKeeps DEF States, CompletedForClose
<1> QED
  BY <1>2, <1>3 DEF ReviewMoves

LEMMA TickKeeps ==
  ASSUME ServerInv, Tick
  PROVE  ServerInv' /\ Grows
<1> USE DEF Tick, serverVars, ServerInv
<1>1. \A b \in Activities : Counted(b)' = Counted(b)
  BY DEF Counted
<1>2. FocusInv'
  BY <1>1, DaySame DEF FocusInv
<1>3. worked' \in [Activities -> Nat] /\ now' \in Nat
  <2>1. \A a \in Activities : worked[a] + (IF timer[a].open THEN 1 ELSE 0) \in Nat
    BY DEF ServerTypeOK
  <2> QED
    BY <2>1 DEF ServerTypeOK
<1>4. ServerTypeOK' /\ PastInv' /\ Grows
  BY <1>3 DEF ServerTypeOK, PastInv, Grows
<1>5. ASSUME NEW b \in Activities PROVE Clock(b)'
  <2>1. Clock(b) /\ timer[b] \in Timer /\ worked[b] \in Nat /\ banked[b] \in Nat /\ now \in Nat
    BY DEF TimerInv, ServerTypeOK
  <2>2. timer[b].last \in Nat /\ Counted(b) \in Nat
    BY <2>1 DEF Timer, Counted
  <2>3. timer'[b] = timer[b] /\ now' = now + 1
        /\ worked'[b] = worked[b] + IF timer[b].open THEN 1 ELSE 0
    OBVIOUS
  <2> QED
    BY <1>1, <2>1, <2>2, <2>3 DEF Clock
<1>6. TimerInv' /\ ClosedDayIsQuiet'
  BY <1>5 DEF TimerInv, ClosedDayIsQuiet
<1> QED
  BY <1>2, <1>4, <1>6

LEMMA TruthKept ==
  ASSUME ServerInv, ServerInv', Grows
  PROVE  \A v : TrueView(v) => TrueView(v)'
<1> SUFFICES ASSUME NEW v, TrueView(v) PROVE TrueView(v)'
  OBVIOUS
<1>1. v \in View /\ v.act \in Activities /\ v.version \in Nat \ {0}
      /\ v.version <= version[v.act] /\ v.state = past[v.act][v.version]
      /\ version[v.act] \in Nat
  BY DEF TrueView, View, ServerInv, ServerTypeOK
<1>2. version[v.act] <= version'[v.act] /\ past'[v.act][v.version] = past[v.act][v.version]
  BY <1>1 DEF Grows
<1>3. version'[v.act] \in Nat
  BY <1>1 DEF ServerInv, ServerTypeOK
<1>4. v.version <= version'[v.act]
  BY <1>1, <1>2, <1>3
<1> QED
  BY <1>1, <1>2, <1>4 DEF TrueView

-----------------------------------------------------------------------------
(* Commands under way, answers and journals.                                *)

LEMMA KnownIsCommand ==
  ASSUME DeviceTypeOK, NEW c, Known(c)
  PROVE  c \in Command /\ c.key \in Nat \ {0} /\ c.device \in Devices
<1>1. c \in Command
  BY DEF DeviceTypeOK, Known, Reply
<1> QED
  BY <1>1 DEF Command

(* Serve: the command leaves the network, and may be answered. *)
LEMMA AnswerKeeps ==
  ASSUME DeviceTypeOK, KeysInv, AnswersInv, NEW c \in net, NEW ok \in BOOLEAN,
         NEW v \in View \cup {Closed}, Answer(c, ok, v), net' = net \ {c},
         DOMAIN receipt \subseteq DOMAIN receipt',
         DOMAIN receipt' \subseteq DOMAIN receipt \cup {c.key},
         receipt' \in [DOMAIN receipt' -> View],
         ok \/ c.key \notin DOMAIN receipt',
         UNCHANGED <<issued, view, waiting, journal>>
  PROVE  /\ DeviceTypeOK' /\ KeysInv' /\ AnswersInv'
         /\ \A r \in replies' : r \in replies \/ (r.ok = ok /\ r.view = v)
<1> DEFINE new == [to |-> c, ok |-> ok, view |-> v]
<1>1. c \in Command /\ new \in Reply /\ new.to = c /\ new.ok = ok /\ new.view = v
  BY DEF DeviceTypeOK, Reply
<1>2. Known(c)
  BY DEF Known
<1>3. \A r \in replies' : r \in replies \/ (r = new /\ waiting[c.device].key = c.key)
  BY DEF Answer
<1> HIDE DEF new
<1>4. DeviceTypeOK'
  BY <1>1, <1>3 DEF DeviceTypeOK
<1>5. \A x : Known(x)' => Known(x)
  <2> SUFFICES ASSUME NEW x, Known(x)' PROVE Known(x)
    OBVIOUS
  <2>1. CASE x \in net'
    BY <2>1 DEF Known
  <2>2. CASE \E r \in replies' : x = r.to
    BY <1>1, <1>2, <1>3, <2>2 DEF Known
  <2>3. CASE x # NoCommand /\ \E d \in Devices, a \in Activities : x = journal'[d][a]
    BY <2>3 DEF Known
  <2> QED
    BY <2>1, <2>2, <2>3 DEF Known
<1>6. KeysInv'
  BY <1>5 DEF KeysInv
<1>7. \A r \in replies : r.to.key # c.key /\ Known(r.to)
  BY DEF AnswersInv, Known
<1>8. \A r \in replies' : /\ waiting'[r.to.device].key = r.to.key
                          /\ \A e \in net' : e.key # r.to.key
  <2> SUFFICES ASSUME NEW r \in replies'
               PROVE  /\ waiting[r.to.device].key = r.to.key
                      /\ \A e \in net \ {c} : e.key # r.to.key
    OBVIOUS
  <2>1. CASE r \in replies
    BY <2>1 DEF AnswersInv
  <2>2. CASE r = new /\ waiting[c.device].key = c.key
    <3>1. \A e \in net \ {c} : Known(e)
      BY DEF Known
    <3> QED
      BY <1>1, <1>2, <2>2, <3>1 DEF KeysInv
  <2> QED
    BY <1>3, <2>1, <2>2
<1>9. \A r, q \in replies' : r.to.key = q.to.key => r = q
  BY <1>1, <1>3, <1>7 DEF AnswersInv
<1>10. NoFalseConflict'
  <2> SUFFICES ASSUME NEW r \in replies', ~r.ok PROVE r.to.key \notin DOMAIN receipt'
    BY DEF NoFalseConflict
  <2>1. CASE r \in replies
    <3>1. r.to.key \notin DOMAIN receipt /\ r.to.key # c.key
      BY <1>7, <2>1 DEF AnswersInv, NoFalseConflict
    <3> QED
      BY <3>1
  <2>2. CASE r = new
    BY <1>1, <2>2
  <2> QED
    BY <1>3, <2>1, <2>2
<1> QED
  BY <1>1, <1>3, <1>4, <1>6, <1>8, <1>9, <1>10 DEF AnswersInv

LEMMA ServeKeeps ==
  ASSUME StudyInv, NEW c \in net, Serve(c)
  PROVE  StudyInv'
<1> USE DEF StudyInv
<1>0. c \in Command /\ c.act \in Activities
  BY DEF DeviceTypeOK, Command
<1>1. net' = net \ {c} /\ UNCHANGED <<now, issued, view, waiting, journal, worked>>
  BY DEF Serve, deviceVars
<1>2. CASE Replayed(c) /\ Answer(c, TRUE, receipt[c.key]) /\ UNCHANGED <<serverVars, past, receipt>>
  <2>1. ServerInv' /\ Grows
    BY <1>1, <1>2, ServerSame
  <2>2. receipt[c.key] \in View /\ TrueView(receipt[c.key])
    BY <1>2 DEF Replayed, DeviceTypeOK, TruthInv
  <2>3. /\ DeviceTypeOK' /\ KeysInv' /\ AnswersInv'
        /\ \A r \in replies' : r \in replies \/ (r.ok = TRUE /\ r.view = receipt[c.key])
    BY <1>1, <1>2, <2>2, AnswerKeeps DEF DeviceTypeOK
  <2>4. \A v : TrueView(v) => TrueView(v)'
    BY <2>1, TruthKept
  <2>5. TruthInv'
    BY <1>1, <1>2, <2>2, <2>3, <2>4 DEF TruthInv, TrueView
  <2> QED
    BY <2>1, <2>3, <2>5
<1>3. CASE ~Replayed(c) /\ Execute(c) /\ SaveReceipt(c) /\ Answer(c, TRUE, Summary(c.act))
  <2>1. ServerInv' /\ Grows
    BY <1>0, <1>1, <1>3, ExecuteKeeps
  <2> DEFINE v == Summary(c.act)
  <2>2. v \in View /\ v.act = c.act /\ v.version = version'[c.act] /\ v.state = state'[c.act]
    <3>1. timer'[c.act].seq \in Nat /\ version'[c.act] \in Nat \ {0} /\ state'[c.act] \in States
      BY <1>0, <2>1 DEF ServerInv, ServerTypeOK, Timer
    <3> QED
      BY <1>0, <3>1 DEF Summary, View
  <2>3. /\ version'[c.act] \in Nat
        /\ state'[c.act] = past'[c.act][version'[c.act]]
    BY <1>0, <2>1 DEF ServerInv, PastInv, ServerTypeOK
  <2>4. /\ receipt' \in [DOMAIN receipt' -> View]
        /\ DOMAIN receipt \subseteq DOMAIN receipt'
        /\ DOMAIN receipt' \subseteq DOMAIN receipt \cup {c.key}
        /\ \A k \in DOMAIN receipt' : receipt'[k] = v \/ (k \in DOMAIN receipt /\ receipt'[k] = receipt[k])
    <3> HIDE DEF v
    <3>1. receipt' = IF c.kind \notin Repeatable THEN receipt
             ELSE [k \in DOMAIN receipt \cup {c.key} |->
                     IF k = c.key THEN v ELSE receipt[k]]
      BY <1>3 DEF SaveReceipt, v
    <3>2. CASE c.kind \notin Repeatable
      BY <3>1, <3>2 DEF DeviceTypeOK
    <3>3. CASE c.kind \in Repeatable
      BY <2>2, <3>1, <3>3 DEF DeviceTypeOK
    <3> QED
      BY <3>2, <3>3
  <2> HIDE DEF v
  <2>5. /\ DeviceTypeOK' /\ KeysInv' /\ AnswersInv'
        /\ \A r \in replies' : r \in replies \/ (r.ok = TRUE /\ r.view = v)
    BY <1>1, <1>3, <2>2, <2>4, AnswerKeeps DEF v
  <2>6. \A w : TrueView(w) => TrueView(w)'
    BY <2>1, TruthKept
  <2>7. v.version <= version'[v.act] /\ v.state = past'[v.act][v.version]
    BY <2>2, <2>3
  <2>8. TruthInv'
    <3>1. \A d \in Devices : view'[d] # Closed => TrueView(view[d])'
      BY <1>1, <2>6 DEF TruthInv, TrueView
    <3>2. \A k \in DOMAIN receipt' : (TrueView(receipt[k]))'
      BY <2>2, <2>4, <2>6, <2>7 DEF TruthInv, TrueView
    <3>3. \A r \in replies' : r.ok => (TrueView(r.view))'
      BY <2>2, <2>5, <2>6, <2>7 DEF TruthInv, TrueView
    <3> QED
      BY <3>1, <3>2, <3>3 DEF TruthInv
  <2> QED
    BY <2>1, <2>5, <2>8
<1>4. CASE ~Replayed(c) /\ Answer(c, FALSE, Closed) /\ UNCHANGED <<serverVars, past, receipt>>
  <2>1. ServerInv' /\ Grows
    BY <1>1, <1>4, ServerSame
  <2>2. /\ DeviceTypeOK' /\ KeysInv' /\ AnswersInv'
        /\ \A r \in replies' : r \in replies \/ (r.ok = FALSE /\ r.view = Closed)
    BY <1>1, <1>4, AnswerKeeps DEF DeviceTypeOK, Replayed
  <2>3. \A v : TrueView(v) => TrueView(v)'
    BY <2>1, TruthKept
  <2>4. TruthInv'
    BY <1>1, <1>4, <2>2, <2>3 DEF TruthInv, TrueView
  <2> QED
    BY <2>1, <2>2, <2>4
<1> QED
  BY <1>2, <1>3, <1>4 DEF Serve

-----------------------------------------------------------------------------
(* The workspace of a device.                                               *)

LEMMA TruthSame ==
  ASSUME ServerInv, TruthInv, UNCHANGED <<version, past, receipt>>,
         \A r \in replies' : r \in replies,
         \A d \in Devices : view'[d] # Closed =>
           TrueView(view'[d]) \/ view'[d] = view[d]
  PROVE  TruthInv'
  BY DEF TruthInv, TrueView

\* what may become of the journals while an answer is taken in
Cleared(kept) ==
  /\ kept \in [Devices -> [Activities -> Command \cup {NoCommand}]]
  /\ \A d \in Devices, a \in Activities : kept[d][a] \in {journal[d][a], NoCommand}

(* A command under a new key, of a device to which no answer is under way. *)
LEMMA SendKeeps ==
  ASSUME DeviceTypeOK, KeysInv, AnswersInv, NEW d \in Devices, NEW v \in View,
         NEW kind \in Kinds, NEW seq \in Nat, NEW kept, Cleared(kept),
         Send(d, v, kind, seq, kept),
         \A r \in replies' : r \in replies /\ r.to.device # d,
         UNCHANGED <<receipt, view>>
  PROVE  DeviceTypeOK' /\ KeysInv' /\ AnswersInv'
<1> DEFINE c == [key |-> issued + 1, device |-> d, act |-> v.act, kind |-> kind,
                 version |-> v.version, seq |-> seq]
<1>1. /\ c \in Command /\ c.key = issued + 1 /\ c.device = d /\ c.act = v.act
      /\ v.act \in Activities /\ issued \in Nat
  BY DEF Command, View, DeviceTypeOK
<1>2. /\ issued' = issued + 1 /\ net' = net \cup {c}
      /\ waiting' = [waiting EXCEPT ![d] = [key |-> c.key, then |-> "none"]]
      /\ journal' = IF kind \in Repeatable THEN [kept EXCEPT ![d][v.act] = c] ELSE kept
  BY DEF Send
<1> HIDE DEF c
<1>3. \A e \in Devices : waiting'[e].key = IF e = d THEN issued + 1 ELSE waiting[e].key
  BY <1>1, <1>2 DEF DeviceTypeOK
<1>4. /\ journal' \in [Devices -> [Activities -> Command \cup {NoCommand}]]
      /\ \A e \in Devices, a \in Activities :
           journal'[e][a] \in {journal[e][a], NoCommand} \/ (journal'[e][a] = c /\ e = d /\ a = v.act)
  <2>1. CASE kind \in Repeatable
    BY <1>1, <1>2, <2>1 DEF Cleared
  <2>2. CASE kind \notin Repeatable
    BY <1>2, <2>2 DEF Cleared
  <2> QED
    BY <2>1, <2>2
<1>5. DeviceTypeOK'
  <2>1. [key |-> c.key, then |-> "none"] \in Wait
    BY <1>1 DEF Wait
  <2>2. waiting' \in [Devices -> Wait]
    BY <1>2, <2>1 DEF DeviceTypeOK
  <2> QED
    BY <1>1, <1>2, <1>4, <2>2 DEF DeviceTypeOK
<1>6. \A x : Known(x)' => Known(x) \/ x = c
  <2> SUFFICES ASSUME NEW x, Known(x)' PROVE Known(x) \/ x = c
    OBVIOUS
  <2>1. CASE x \in net'
    BY <1>2, <2>1 DEF Known
  <2>2. CASE \E r \in replies' : x = r.to
    BY <2>2 DEF Known
  <2>3. CASE x # NoCommand /\ \E e \in Devices, a \in Activities : x = journal'[e][a]
    BY <1>4, <2>3 DEF Known
  <2> QED
    BY <2>1, <2>2, <2>3 DEF Known
<1>7. \A x : Known(x) => x.key \in Nat /\ x.key <= issued /\ x.key # c.key
  <2> SUFFICES ASSUME NEW x, Known(x)
               PROVE  x.key \in Nat /\ x.key <= issued /\ x.key # c.key
    OBVIOUS
  <2>1. x.key \in Nat /\ x.key <= issued
    BY KnownIsCommand DEF KeysInv
  <2> QED
    BY <1>1, <2>1
<1>8. KeysInv'
  <2>1. \A x : Known(x)' => x.key <= issued'
    BY <1>1, <1>2, <1>6, <1>7
  <2>2. \A x, y : Known(x)' /\ Known(y)' /\ x.key = y.key => x = y
    BY <1>6, <1>7 DEF KeysInv
  <2>3. \A x : Known(x)' => \A e \in Devices : waiting'[e].key = x.key => x.device = e
    <3> SUFFICES ASSUME NEW x, Known(x)', NEW e \in Devices, waiting'[e].key = x.key
                 PROVE  x.device = e
      OBVIOUS
    <3>1. CASE x = c
      <4>1. waiting[e].key <= issued /\ waiting[e].key \in Nat
        BY DEF KeysInv, DeviceTypeOK, Wait
      <4> QED
        BY <1>1, <1>3, <3>1, <4>1
    <3>2. CASE Known(x)
      BY <1>1, <1>3, <1>7, <3>2 DEF KeysInv
    <3> QED
      BY <1>6, <3>1, <3>2
  <2>4. \A e \in Devices : waiting'[e].key <= issued'
    <3> SUFFICES ASSUME NEW e \in Devices PROVE waiting'[e].key <= issued'
      OBVIOUS
    <3>1. waiting[e].key <= issued /\ waiting[e].key \in Nat
      BY DEF KeysInv, DeviceTypeOK, Wait
    <3> QED
      BY <1>1, <1>2, <1>3, <3>1
  <2>5. \A e \in Devices, a \in Activities : journal'[e][a] # NoCommand =>
          journal'[e][a].device = e /\ journal'[e][a].act = a
    BY <1>1, <1>4 DEF KeysInv
  <2> QED
    BY <2>1, <2>2, <2>3, <2>4, <2>5 DEF KeysInv
<1>9. AnswersInv'
  <2>1. \A r \in replies' : /\ waiting'[r.to.device].key = r.to.key
                            /\ \A e \in net' : e.key # r.to.key
    <3> SUFFICES ASSUME NEW r \in replies'
                 PROVE  /\ waiting'[r.to.device].key = r.to.key
                        /\ \A e \in net' : e.key # r.to.key
      OBVIOUS
    <3>1. r \in replies /\ r.to.device # d /\ Known(r.to)
      BY DEF Known
    <3>2. r.to.device \in Devices /\ r.to.key # c.key
      BY <1>7, <3>1, KnownIsCommand
    <3> QED
      BY <1>2, <1>3, <3>1, <3>2 DEF AnswersInv
  <2>2. \A r, q \in replies' : r.to.key = q.to.key => r = q
    BY DEF AnswersInv
  <2>3. NoFalseConflict'
    BY DEF AnswersInv, NoFalseConflict
  <2> QED
    BY <2>1, <2>2, <2>3 DEF AnswersInv
<1> QED
  BY <1>5, <1>8, <1>9

(* A device that is idle has no answer under way. *)
LEMMA IdleHasNoAnswer ==
  ASSUME DeviceTypeOK, AnswersInv, NEW d \in Devices, ~Busy(d)
  PROVE  \A r \in replies : r.to.device # d
<1> SUFFICES ASSUME NEW r \in replies, r.to.device = d PROVE FALSE
  OBVIOUS
<1>1. Known(r.to)
  BY DEF Known
<1>2. r.to.key # 0
  BY <1>1, KnownIsCommand
<1>3. waiting[d].key = 0
  BY DEF Busy, Idle, None
<1> QED
  BY <1>2, <1>3 DEF AnswersInv

LEMMA ResendKeeps ==
  ASSUME DeviceTypeOK, KeysInv, AnswersInv, NEW d \in Devices, ~Busy(d),
         view[d].act \in Activities, Journalled(d) # NoCommand,
         NEW then \in {"none", "pause", "resume"}, Resend(d, then),
         UNCHANGED <<receipt, view, replies>>
  PROVE  DeviceTypeOK' /\ KeysInv' /\ AnswersInv'
<1> DEFINE c == Journalled(d)
<1>1. Known(c)
  BY DEF Known, Journalled
<1>2. c \in Command /\ c.key \in Nat \ {0} /\ c.device = d
  BY <1>1, KnownIsCommand DEF KeysInv, Journalled
<1>3. /\ net' = net \cup {c} /\ waiting' = [waiting EXCEPT ![d] = [key |-> c.key, then |-> then]]
      /\ UNCHANGED <<issued, journal>>
  BY DEF Resend
<1> HIDE DEF c
<1>4. \A e \in Devices : waiting'[e].key = IF e = d THEN c.key ELSE waiting[e].key
  BY <1>3 DEF DeviceTypeOK
<1>5. DeviceTypeOK'
  <2>1. [key |-> c.key, then |-> then] \in Wait
    BY <1>2 DEF Wait
  <2> QED
    BY <1>2, <1>3, <2>1 DEF DeviceTypeOK
<1>6. \A x : Known(x)' => Known(x)
  BY <1>1, <1>3 DEF Known
<1>7. KeysInv'
  <2>1. \A x : Known(x)' => \A e \in Devices : waiting'[e].key = x.key => x.device = e
    BY <1>1, <1>2, <1>4, <1>6 DEF KeysInv
  <2>2. \A e \in Devices : waiting'[e].key <= issued'
    BY <1>1, <1>3, <1>4 DEF KeysInv
  <2> QED
    BY <1>3, <1>6, <2>1, <2>2 DEF KeysInv
<1>8. AnswersInv'
  <2>1. \A r \in replies : Known(r.to) /\ r.to.device \in Devices \ {d}
    BY IdleHasNoAnswer, KnownIsCommand DEF Known
  <2>2. \A r \in replies : c.key # r.to.key
    BY <1>1, <1>2, <2>1 DEF KeysInv
  <2> QED
    BY <1>3, <1>4, <2>1, <2>2 DEF AnswersInv, NoFalseConflict
<1> QED
  BY <1>5, <1>7, <1>8

-----------------------------------------------------------------------------
(* The steps of the specification.                                          *)

LEMMA OpenKeepsAll ==
  ASSUME StudyInv, NEW d \in Devices, NEW a \in Activities, Open(d, a)
  PROVE  StudyInv'
<1> USE DEF StudyInv
<1>1. /\ UNCHANGED <<serverVars, now, worked, past, issued, receipt, net, replies, waiting, journal>>
      /\ view' = [view EXCEPT ![d] = [act |-> a, version |-> version[a], state |-> state[a],
                                      seq |-> timer[a].seq]]
  BY DEF Open
<1>2. ServerInv'
  BY <1>1, ServerSame
<1> DEFINE v == [act |-> a, version |-> version[a], state |-> state[a], seq |-> timer[a].seq]
<1>3. TrueView(v)
  BY DEF TrueView, View, ServerInv, ServerTypeOK, Timer, PastInv
<1>4. view' = [view EXCEPT ![d] = v]
  BY <1>1
<1> HIDE DEF v
<1>5. DeviceTypeOK'
  BY <1>1, <1>3, <1>4 DEF DeviceTypeOK, TrueView
<1>6. KeysInv' /\ AnswersInv'
  BY <1>1 DEF KeysInv, AnswersInv, Known, NoFalseConflict
<1>7. TruthInv'
  <2>1. \A e \in Devices : TrueView(view'[e]) \/ view'[e] = view[e]
    BY <1>3, <1>4 DEF DeviceTypeOK
  <2> QED
    BY <1>1, <2>1, TruthSame DEF serverVars
<1> QED
  BY <1>2, <1>5, <1>6, <1>7

LEMMA IssueKeeps ==
  ASSUME StudyInv, NEW d \in Devices, Issue(d)
  PROVE  StudyInv'
<1> USE DEF StudyInv
<1>1. /\ UNCHANGED <<serverVars, now, worked, past, receipt, replies, view>>
      /\ view[d] # Closed /\ ~Busy(d)
  BY DEF Issue
<1>2. ServerInv'
  BY <1>1, ServerSame
<1>3. TruthInv'
  BY <1>1, TruthSame DEF serverVars
<1>4. view[d] \in View /\ view[d].act \in Activities /\ view[d].seq \in Nat
  BY <1>1 DEF TruthInv, TrueView, View
<1>5. Cleared(journal)
  BY DEF Cleared, DeviceTypeOK
<1>6. \A r \in replies : r.to.device # d
  BY <1>1, IdleHasNoAnswer
<1>7. NextSeq(d) \in Nat
  <2>1. Journalled(d) # NoCommand => Journalled(d).seq \in Nat
    BY <1>4 DEF Journalled, DeviceTypeOK, Command
  <2> QED
    BY <1>4, <2>1 DEF NextSeq
<1>8. CASE \E kind \in Kinds, seq \in Nat : Send(d, view[d], kind, seq, journal)
  BY <1>1, <1>2, <1>3, <1>4, <1>5, <1>6, <1>8, SendKeeps
<1>9. CASE \E then \in {"none", "pause", "resume"} : Journalled(d) # NoCommand /\ Resend(d, then)
  BY <1>1, <1>2, <1>3, <1>4, <1>9, ResendKeeps
<1> QED
  BY <1>7, <1>8, <1>9 DEF Issue, Kinds

LEMMA ReceiveKeeps ==
  ASSUME StudyInv, NEW d \in Devices, NEW r \in replies, Receive(d, r)
  PROVE  StudyInv'
<1> USE DEF StudyInv
<1>1. /\ UNCHANGED <<serverVars, now, worked, past, receipt>>
      /\ waiting[d].key = r.to.key /\ replies' = replies \ {r}
  BY DEF Receive
<1>2. ServerInv'
  BY <1>1, ServerSame
<1>3. r \in Reply /\ Known(r.to) /\ r.to \in Command /\ r.to.act \in Activities
  BY DEF DeviceTypeOK, Known, Reply, Command
<1>4. r.to.device = d
  BY <1>1, <1>3 DEF KeysInv
<1>5. \A q \in replies' : q \in replies /\ q.to.device # d
  BY <1>1, <1>4 DEF AnswersInv
<1> DEFINE kept == JournalAfter(d, r)
<1>6. Cleared(kept)
  <2>1. kept = journal \/ kept = [journal EXCEPT ![d][r.to.act] = NoCommand]
    BY DEF JournalAfter
  <2> HIDE DEF kept
  <2> QED
    BY <1>3, <2>1, SMTT(30) DEF Cleared, DeviceTypeOK
<1> DEFINE then == waiting[d].then
           follow == r.ok /\ \/ then = "pause" /\ r.view.state = "active"
                             \/ then = "resume" /\ r.view.state = "paused"
<1>7. CASE /\ follow /\ UNCHANGED view
           /\ Send(d, r.view, then, IF then = "pause" THEN r.view.seq + 1 ELSE 0, kept)
  <2>1. r.view \in View /\ r.view.seq \in Nat /\ then \in {"pause", "resume"}
    BY <1>7 DEF TruthInv, TrueView, View
  <2>2. PICK seq \in Nat : seq = IF then = "pause" THEN r.view.seq + 1 ELSE 0
    BY <2>1
  <2>3. then \in Kinds
    BY <2>1 DEF Kinds
  <2>4. Send(d, r.view, then, seq, kept)
    BY <1>7, <2>2
  <2> HIDE DEF kept, then
  <2>5. DeviceTypeOK' /\ KeysInv' /\ AnswersInv'
    BY <1>1, <1>5, <1>6, <1>7, <2>1, <2>3, <2>4, SendKeeps
  <2>6. TruthInv'
    BY <1>1, <1>5, <1>7, TruthSame DEF serverVars
  <2> QED
    BY <1>2, <2>5, <2>6
<1>8. CASE /\ ~follow /\ journal' = kept
           /\ waiting' = [waiting EXCEPT ![d] = Idle]
           /\ view' = [view EXCEPT ![d] = IF r.ok /\ then # "resume" THEN r.view ELSE @]
           /\ UNCHANGED <<issued, net>>
  <2> HIDE DEF kept, then, follow
  <2>1. \A e \in Devices : view'[e] = view[e] \/ (TrueView(view'[e]) /\ view'[e] \in View)
    BY <1>8 DEF DeviceTypeOK, TruthInv, TrueView
  <2>2. TruthInv'
    BY <1>1, <1>5, <2>1, TruthSame DEF serverVars
  <2>3. Idle \in Wait /\ Idle.key = 0
    BY DEF Idle, Wait, None
  <2>4. \A e \in Devices : waiting'[e].key = IF e = d THEN 0 ELSE waiting[e].key
    BY <1>8, <2>3 DEF DeviceTypeOK
  <2>5. DeviceTypeOK'
    <3>1. view' \in [Devices -> View \cup {Closed}]
      BY <1>8, <2>1 DEF DeviceTypeOK
    <3>2. waiting' \in [Devices -> Wait]
      BY <1>8, <2>3 DEF DeviceTypeOK
    <3> QED
      BY <1>1, <1>6, <1>8, <3>1, <3>2 DEF DeviceTypeOK, Cleared
  <2>6. \A x : Known(x)' => Known(x)
    BY <1>1, <1>6, <1>8 DEF Known, Cleared
  <2>7. \A x : Known(x) => x.key # 0
    BY KnownIsCommand
  <2>8. KeysInv'
    <3>1. \A x : Known(x)' => \A e \in Devices : waiting'[e].key = x.key => x.device = e
      BY <2>4, <2>6, <2>7 DEF KeysInv
    <3>2. \A e \in Devices : waiting'[e].key <= issued'
      BY <1>8, <2>4 DEF KeysInv, DeviceTypeOK
    <3>3. \A e \in Devices, a \in Activities : journal'[e][a] # NoCommand =>
            journal'[e][a].device = e /\ journal'[e][a].act = a
      BY <1>6, <1>8 DEF KeysInv, Cleared
    <3> QED
      BY <1>8, <2>6, <3>1, <3>2, <3>3 DEF KeysInv
  <2>9. AnswersInv'
    <3>1. \A q \in replies' : q \in replies /\ q.to.device \in Devices \ {d}
      BY <1>5, KnownIsCommand DEF Known
    <3> QED
      BY <1>1, <1>8, <2>4, <3>1 DEF AnswersInv, NoFalseConflict
  <2> QED
    BY <1>2, <2>2, <2>5, <2>8, <2>9
<1> QED
  BY <1>7, <1>8 DEF Receive

LEMMA GiveUpKeeps ==
  ASSUME StudyInv, NEW d \in Devices,
         NEW how \in {"unseen", "closed", "unauthorized"}, GiveUp(d, how)
  PROVE  StudyInv'
<1> USE DEF StudyInv
<1>1. /\ UNCHANGED <<serverVars, now, worked, past, issued, receipt, net>>
      /\ waiting' = [waiting EXCEPT ![d] = Idle]
      /\ replies' = {r \in replies : r.to.key # waiting[d].key}
      /\ view' = IF how = "closed" THEN [view EXCEPT ![d] = Closed] ELSE view
      /\ journal' = IF how = "unauthorized" THEN [journal EXCEPT ![d][view[d].act] = NoCommand]
                    ELSE journal
  BY DEF GiveUp
<1>12. Cleared(journal')
  BY <1>1 DEF Cleared, DeviceTypeOK
<1>2. ServerInv'
  BY <1>1, ServerSame
<1>3. \A e \in Devices : view'[e] = view[e] \/ view'[e] = Closed
  BY <1>1 DEF DeviceTypeOK
<1>4. TruthInv'
  BY <1>1, <1>3, TruthSame DEF serverVars
<1>5. Idle \in Wait /\ Idle.key = 0
  BY DEF Idle, Wait, None
<1>6. \A e \in Devices : waiting'[e].key = IF e = d THEN 0 ELSE waiting[e].key
  BY <1>1, <1>5 DEF DeviceTypeOK
<1>7. DeviceTypeOK'
  <2>1. view' \in [Devices -> View \cup {Closed}]
    BY <1>1 DEF DeviceTypeOK
  <2> QED
    BY <1>1, <1>5, <1>12, <2>1 DEF DeviceTypeOK, Cleared
<1>8. \A x : Known(x)' => Known(x)
  BY <1>1, <1>12 DEF Known, Cleared
<1>9. \A x : Known(x) => x.key # 0
  BY KnownIsCommand
<1>10. KeysInv'
  <2>1. \A x : Known(x)' => \A e \in Devices : waiting'[e].key = x.key => x.device = e
    BY <1>6, <1>8, <1>9 DEF KeysInv
  <2>2. \A e \in Devices : waiting'[e].key <= issued'
    BY <1>1, <1>6 DEF KeysInv, DeviceTypeOK
  <2>3. \A e \in Devices, a \in Activities : journal'[e][a] # NoCommand =>
          journal'[e][a].device = e /\ journal'[e][a].act = a
    BY <1>12 DEF KeysInv, Cleared
  <2> QED
    BY <1>1, <1>8, <2>1, <2>2, <2>3 DEF KeysInv
<1>11. AnswersInv'
  <2>1. \A r \in replies' : r \in replies /\ r.to.device \in Devices \ {d}
    BY <1>1, KnownIsCommand DEF Known, AnswersInv
  <2> QED
    BY <1>1, <1>6, <2>1 DEF AnswersInv, NoFalseConflict
<1> QED
  BY <1>2, <1>4, <1>7, <1>10, <1>11

(* Steps of the server and of time that concern no command. *)
LEMMA OthersKeep ==
  ASSUME StudyInv, ServerInv', Grows,
         UNCHANGED <<issued, receipt, net, replies, view, waiting, journal>>
  PROVE  StudyInv'
<1> USE DEF StudyInv
<1>1. DeviceTypeOK' /\ KeysInv' /\ AnswersInv'
  BY DEF DeviceTypeOK, KeysInv, AnswersInv, Known, NoFalseConflict
<1>2. \A v : TrueView(v) => TrueView(v)'
  BY TruthKept
<1>3. TruthInv'
  BY <1>2 DEF TruthInv, TrueView
<1> QED
  BY <1>1, <1>3

LEMMA InitKeeps ==
  ASSUME Init
  PROVE  StudyInv
<1> USE DEF Init
<1>1. ServerTypeOK
  BY DEF ServerTypeOK, States, Timer, NoTimer
<1>2. \A a \in Activities : Counted(a) = 0
  BY DEF Counted, NoTimer
<1>3. DaySeconds = 0
  <2>1. [a \in Activities |-> Counted(a)] = [a \in Activities |-> 0]
    BY <1>2
  <2> QED
    BY <2>1, DayIsTotal, TotalOfZeros, StudyAssumption
<1>4. 0 \div Minute = 0
  BY StudyAssumption
<1>5. FocusInv
  BY <1>3, <1>4, StudyAssumption DEF FocusInv
<1>6. TimerInv
  BY <1>2 DEF TimerInv, Clock, NoTimer
<1>7. PastInv /\ ClosedDayIsQuiet
  BY DEF PastInv, ClosedDayIsQuiet
<1>8. DeviceTypeOK
  BY DEF DeviceTypeOK, Wait, Idle, None
<1>9. TruthInv
  BY DEF TruthInv
<1>10. KeysInv /\ AnswersInv
  <2>1. \A x : ~Known(x)
    BY DEF Known
  <2> QED
    BY <2>1 DEF KeysInv, AnswersInv, NoFalseConflict, Idle, None
<1> QED
  BY <1>1, <1>5, <1>6, <1>7, <1>8, <1>9, <1>10 DEF StudyInv, ServerInv

(* StudyInv is inductive. *)
THEOREM StudyInvariant == Spec => []StudyInv
<1>1. Init => StudyInv
  BY InitKeeps
<1>2. StudyInv /\ [Next]_studyVars => StudyInv'
  <2> SUFFICES ASSUME StudyInv, [Next]_studyVars PROVE StudyInv'
    OBVIOUS
  <2>0. ServerInv
    BY DEF StudyInv
  <2>1. ASSUME NEW c \in net, Serve(c) PROVE StudyInv'
    BY <2>1, ServeKeeps
  <2>2. ASSUME NEW unfinished \in BOOLEAN, CloseDay(unfinished) PROVE StudyInv'
    BY <2>0, <2>2, CloseKeeps, OthersKeep DEF CloseDay, deviceVars
  <2>3. ASSUME NEW a \in Activities, ReviewMoves(a) PROVE StudyInv'
    BY <2>0, <2>3, ReviewKeeps, OthersKeep DEF ReviewMoves, deviceVars
  <2>4. CASE Tick
    BY <2>0, <2>4, TickKeeps, OthersKeep DEF Tick, deviceVars
  <2>5. ASSUME NEW d \in Devices, NEW a \in Activities, Open(d, a) PROVE StudyInv'
    BY <2>5, OpenKeepsAll
  <2>6. ASSUME NEW d \in Devices, Issue(d) PROVE StudyInv'
    BY <2>6, IssueKeeps
  <2>7. ASSUME NEW d \in Devices, NEW r \in replies, Receive(d, r) PROVE StudyInv'
    BY <2>7, ReceiveKeeps
  <2>8. ASSUME NEW d \in Devices, NEW how \in {"unseen", "closed", "unauthorized"},
               GiveUp(d, how)
        PROVE  StudyInv'
    BY <2>8, GiveUpKeeps
  <2>9. CASE UNCHANGED studyVars
    <3>1. UNCHANGED <<serverVars, now, worked, past>>
      BY <2>9 DEF studyVars, serverVars
    <3>2. UNCHANGED <<issued, receipt, net, replies, view, waiting, journal>>
      BY <2>9 DEF studyVars
    <3> QED
      BY <2>0, <3>1, <3>2, ServerSame, OthersKeep
  <2> QED
    BY <2>1, <2>2, <2>3, <2>4, <2>5, <2>6, <2>7, <2>8, <2>9 DEF Next
<1> QED
  BY <1>1, <1>2, PTL DEF Spec

(* FocusIsMeasured: the minutes of the day are those its timers measured, within the *)
(* day's limit, and an activity is credited only with time its timer was open.       *)
THEOREM FocusIsMeasuredHolds == Spec => []FocusIsMeasured
<1>1. StudyInv => FocusIsMeasured
  <2> SUFFICES ASSUME StudyInv PROVE FocusIsMeasured
    OBVIOUS
  <2>1. ASSUME NEW a \in Activities PROVE Counted(a) <= worked[a]
    <3>1. Clock(a) /\ timer[a] \in Timer /\ banked[a] \in Nat /\ worked[a] \in Nat /\ now \in Nat
      BY DEF StudyInv, ServerInv, TimerInv, ServerTypeOK
    <3>2. Counted(a) \in Nat /\ timer[a].last \in Nat
      BY <3>1 DEF Counted, Timer
    <3> QED
      BY <3>1, <3>2 DEF Clock
  <2> QED
    BY <2>1 DEF StudyInv, ServerInv, FocusInv, FocusIsMeasured
<1> QED
  BY <1>1, StudyInvariant, PTL

(* ClosedDayIsQuiet: after close_day no activity is active and no timer is open, and *)
(* a day closed as complete keeps its required work done.                            *)
THEOREM ClosedDayIsQuietHolds == Spec => []ClosedDayIsQuiet
<1>1. StudyInv => ClosedDayIsQuiet
  BY DEF StudyInv, ServerInv
<1> QED
  BY <1>1, StudyInvariant, PTL

(* SeenWasTrue: what a device shows of an activity is the state that version had. *)
THEOREM SeenWasTrueHolds == Spec => []SeenWasTrue
<1>1. StudyInv => SeenWasTrue
  BY DEF StudyInv, TruthInv, TrueView, SeenWasTrue
<1> QED
  BY <1>1, StudyInvariant, PTL

(* NoFalseConflict: a heartbeat or pause that took effect is never answered with a *)
(* conflict, however often it is sent again.                                       *)
THEOREM NoFalseConflictHolds == Spec => []NoFalseConflict
<1>1. StudyInv => NoFalseConflict
  BY DEF StudyInv, AnswersInv
<1> QED
  BY <1>1, StudyInvariant, PTL
=============================================================================
