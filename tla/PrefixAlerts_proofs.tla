------------------------- MODULE PrefixAlerts_proofs -------------------------
(***************************************************************************)
(* Proofs about PrefixAlerts, for every set of users, counts, thresholds   *)
(* and goroutines, and every bound.                                        *)
(***************************************************************************)
EXTENDS PrefixAlerts, Integers, TLAPS

----------------------------------------------------------------------------
(* The inductive invariant *)

\* A tick that evaluates a user read its row, or the row is gone since; a
\* delivery may have marked it meanwhile.
SeenInv ==
    stage = "evaluate" =>
        \/ rows[user] = NoRow
        \/ /\ seen # NoRow
           /\ seen.baseline = rows[user].baseline
           /\ seen.alerting_since = rows[user].alerting_since
           /\ seen.drop_delivered => rows[user].drop_delivered

\* A user is not measured a second time during a post.
LateInv ==
    stage = "evaluate" =>
        \A g \in Deliverers :
            cur[g] # NoNews /\ cur[g].user = user => ~late[g]

\* A notification is the one its timestamp stands for.
IsKnown(n) ==
    /\ n.at <= clock
    /\ n.event = "drop" =>
           /\ n.since = n.at
           /\ rows[n.user] # NoRow /\ rows[n.user].alerting_since = n.at =>
                  n.base = rows[n.user].baseline
    /\ n.event = "recovered" =>
           (RecoveryPending(n.user) /\ rows[n.user].recovery.at = n.at =>
                n = rows[n.user].recovery)
InHand(n) ==
    \/ n \in found
    \/ \E u \in Users : queued[u] = n
    \/ \E g \in Deliverers : n \in batch[g] \/ cur[g] = n
KnownInv == \A n \in News : InHand(n) => IsKnown(n)

\* Recovery n may be told after m.
Ends(n, m) ==
    \/ m = n
    \/ /\ m # NoNews
       /\ m.event = "drop"
       /\ m.at = n.since
       /\ m.base = n.base
       /\ m.at < n.at

ToldInv ==
    \A u \in Users :
        told[u] # NoNews => told[u].user = u /\ told[u].at <= clock

\* What the row says was delivered is what was told last.
RowInv ==
    \A u \in Users :
        rows[u] # NoRow =>
            /\ rows[u].alerting_since <= clock
            /\ rows[u].recovery # NoNews =>
                   /\ rows[u].alerting_since = Never
                   /\ rows[u].recovery.user = u
                   /\ rows[u].recovery.event = "recovered"
                   /\ rows[u].recovery.at <= clock
                   /\ Ends(rows[u].recovery, told[u])
            /\ rows[u].alerting_since # Never =>
                   \/ told[u] = PendingDrop(u)
                   \/ /\ ~rows[u].drop_delivered
                      /\ \/ told[u] = NoNews
                         \/ told[u].at < rows[u].alerting_since

\* What is being posted is what the row has pending, unless one measurement
\* has gone by: that may end a drop, and may replace a recovery by a new drop.
CurInv ==
    \A g \in Deliverers :
        cur[g] # NoNews /\ rows[cur[g].user] # NoRow =>
            LET n == cur[g]
                r == rows[n.user]
            IN  /\ n.event = "drop" =>
                       \/ r.alerting_since = n.at /\ ~r.drop_delivered
                       \/ /\ late[g]
                          /\ r.alerting_since = Never
                          /\ r.recovery = NoNews
                /\ n.event = "recovered" =>
                       \/ r.alerting_since = Never /\ r.recovery = n
                       \/ /\ late[g]
                          /\ r.recovery = NoNews
                          /\ \/ r.alerting_since = Never
                             \/ ~r.drop_delivered /\ n.at < r.alerting_since

\* n may be told after m.
Tellable(n, m) ==
    /\ n.event = "drop" => m = NoNews \/ m = n \/ m.at < n.at
    /\ n.event = "recovered" => Ends(n, m)
PostInv ==
    \A g \in Deliverers :
        /\ dpc[g] = "post" => Tellable(cur[g], told[cur[g].user])
        /\ dpc[g] = "mark" => told[cur[g].user] = cur[g]

\* The drop began at a count below the line.
LowInv ==
    \A u \in Users :
        rows[u] # NoRow /\ rows[u].alerting_since # Never =>
            /\ low[u] \in [count : Counts, threshold : Thresholds]
            /\ low[u].count <=
                   (rows[u].baseline * (100 - low[u].threshold)) \div 100

\* Without failures, what is pending was not told, or is about to be marked.
Unmarked(u) == \A g \in Deliverers : dpc[g] = "mark" => cur[g].user # u
Untold(u) ==
    /\ DropPending(u) => told[u] # PendingDrop(u)
    /\ RecoveryPending(u) => told[u] # rows[u].recovery
OnceInv ==
    faults = 0 =>
        /\ \A u \in Users : Unmarked(u) => Untold(u)
        /\ \A g \in Deliverers : dpc[g] = "post" => told[cur[g].user] # cur[g]

EpisodeInv ==
    /\ SeenInv
    /\ LateInv
    /\ KnownInv
    /\ ToldInv
    /\ RowInv
    /\ CurInv
    /\ PostInv

IInv == TypeOK /\ QueueIsServed /\ EpisodeInv /\ LowInv /\ OnceInv

----------------------------------------------------------------------------
(* Types *)

USE DEF AlertsAssumption, NamesAssumption, Times, Never

LEMMA PendingType ==
    ASSUME TypeOK, NEW u \in Users
    PROVE  /\ DropPending(u) => PendingDrop(u) \in News
           /\ RecoveryPending(u) => rows[u].recovery \in News
<1>1. ASSUME rows[u] # NoRow PROVE rows[u] \in Row
  BY <1>1 DEF TypeOK
<1>2. ASSUME DropPending(u) PROVE PendingDrop(u) \in News
  <2>1. rows[u].alerting_since \in Times /\ rows[u].baseline \in Counts
    BY <1>1, <1>2 DEF DropPending, Row
  <2>. QED
    BY <2>1 DEF PendingDrop, News
<1>3. ASSUME RecoveryPending(u) PROVE rows[u].recovery \in News
  BY <1>1, <1>3 DEF RecoveryPending, Row
<1>. QED
  BY <1>2, <1>3

LEMMA PendingTypeNext ==
    ASSUME TypeOK', NEW u \in Users
    PROVE  DropPending(u)' => PendingDrop(u)' \in News
<1>1. ASSUME rows'[u] # NoRow PROVE rows'[u] \in Row
  BY <1>1 DEF TypeOK
<1>2. ASSUME DropPending(u)' PROVE PendingDrop(u)' \in News
  <2>1. rows'[u].alerting_since \in Times /\ rows'[u].baseline \in Counts
    BY <1>1, <1>2 DEF DropPending, Row
  <2>. QED
    BY <2>1 DEF PendingDrop, News
<1>. QED
  BY <1>2

LEMMA TypeInit == Init => TypeOK
<1> SUFFICES ASSUME Init PROVE TypeOK
  OBVIOUS
<1>1. /\ rows \in [Users -> Row \cup {NoRow}]
      /\ queued \in [Users -> News \cup {NoNews}]
      /\ told \in [Users -> News \cup {NoNews}]
      /\ cur \in [Deliverers -> News \cup {NoNews}]
      /\ batch \in [Deliverers -> SUBSET News]
  BY DEF Init, EmptyQueue
<1>2. low \in [Users -> [count : Counts, threshold : Thresholds] \cup {NoRow}]
  BY DEF Init
<1>3. /\ dpc \in [Deliverers -> DeliveryStages]
      /\ late \in [Deliverers -> BOOLEAN]
      /\ \A g \in Deliverers : cur[g] = NoNews /\ dpc[g] = "idle"
  BY DEF Init, DeliveryStages
<1>4. /\ users \in [Users -> UserStates]
      /\ clock \in 0..MaxClock
      /\ stage = "idle"
      /\ todo \subseteq Users
      /\ threshold \in Thresholds
      /\ user = NoRow
      /\ count = 0
      /\ seen = NoRow
      /\ found = {}
      /\ faults \in 0..MaxFaults
  BY AlertsAssumption DEF Init
<1>5. url \in BOOLEAN /\ hasUrl \in BOOLEAN /\ delivering \in BOOLEAN
  BY Zenon DEF Init
<1>. QED
  BY <1>1, <1>2, <1>3, <1>4, <1>5 DEF TypeOK, Stages

\* A tick between two evaluations.
LEMMA RunType ==
    ASSUME TypeOK,
           \/ StartRun
           \/ \E u \in Users : Measure(u)
           \/ LookUpPending
           \/ HandOver
    PROVE  TypeOK'
<1>1. CASE StartRun
  BY <1>1 DEF StartRun, TypeOK, adminVars, queueVars, deliveryVars, Stages
<1>2. ASSUME NEW u \in Users, Measure(u) PROVE TypeOK'
  BY <1>2, AlertsAssumption, NamesAssumption
     DEF Measure, TypeOK, adminVars, queueVars, deliveryVars, Stages, Fault,
         NoFault
<1>3. CASE LookUpPending
  <2>1. user \in Users
    BY <1>3 DEF LookUpPending, TypeOK
  <2>2. Pending(user) \subseteq News
    BY <2>1, PendingType DEF Pending
  <2>. QED
    BY <1>3, <2>2, AlertsAssumption, NamesAssumption
       DEF LookUpPending, TypeOK, adminVars, queueVars, deliveryVars, Stages,
           Fault, NoFault
<1>4. CASE HandOver
  <2>1. QueueMerged \in [Users -> News \cup {NoNews}]
    BY DEF QueueMerged, TypeOK
  <2>. QED
    BY <1>4, <2>1 DEF HandOver, TypeOK, adminVars, queueVars, deliveryVars, Stages,
         DeliveryStages
<1>. QED
  BY <1>1, <1>2, <1>3, <1>4

\* The row that is evaluated, and what may be written over it.
LEMMA SeenType ==
    ASSUME TypeOK, stage = "evaluate"
    PROVE  /\ user \in Users
           /\ count \in Counts
           /\ seen # NoRow => seen \in Row
           /\ rows[user] # NoRow => rows[user] \in Row
BY NamesAssumption DEF TypeOK

LEMMA TimestampType ==
    ASSUME TypeOK, Timestamp
    PROVE  clock + 1 \in Times /\ clock' \in 0..MaxClock
BY AlertsAssumption DEF TypeOK, Timestamp

LEMMA WriteType ==
    ASSUME TypeOK, user \in Users, NEW r, rows[user] # NoRow => r \in Row, Write(r)
    PROVE  rows' \in [Users -> Row \cup {NoRow}]
BY DEF TypeOK, Write

LEMMA NewsType ==
    ASSUME TypeOK, stage = "evaluate", seen # NoRow, Timestamp
    PROVE  /\ Drop \in News
           /\ seen.alerting_since # Never => Recovery \in News
<1>1. /\ seen.baseline \in Counts
      /\ seen.alerting_since \in Times \cup {Never}
      /\ user \in Users
      /\ clock + 1 \in Times
  BY SeenType, TimestampType DEF Row
<1>2. Drop \in News
  BY <1>1 DEF Drop, News
<1>3. seen.alerting_since # Never => Recovery \in News
  BY <1>1 DEF Recovery, News
<1>. QED
  BY <1>2, <1>3

\* What every evaluation does, and what remains to be shown of it.
LEMMA MeasuredType ==
    ASSUME TypeOK, stage = "evaluate", Measured,
           rows' \in [Users -> Row \cup {NoRow}],
           clock' \in 0..MaxClock,
           \/ stage' = "users" /\ user' = NoRow
           \/ stage' = "pending" /\ user' = user,
           found' \subseteq News,
           low' \in [Users -> [count : Counts, threshold : Thresholds] \cup {NoRow}],
           faults' \in 0..MaxFaults
    PROVE  TypeOK'
<1>1. late' \in [Deliverers -> BOOLEAN]
  BY DEF Measured, TypeOK
<1>2. user \in Users
  BY SeenType
<1>. QED
  BY <1>1, <1>2, NamesAssumption DEF Measured, TypeOK, Stages, adminVars, queueVars

LEMMA TellType ==
    ASSUME TypeOK, NEW n \in News, Tell(n)
    PROVE  stage' = "users" /\ user' = NoRow /\ found' \subseteq News
BY DEF TypeOK, Tell

LEMMA TellNothingType ==
    ASSUME TypeOK, TellNothing
    PROVE  /\ \/ stage' = "users" /\ user' = NoRow
              \/ stage' = "pending" /\ user' = user
           /\ found' \subseteq News
BY DEF TypeOK, TellNothing

LEMMA EvaluateType == ASSUME TypeOK, Evaluate PROVE TypeOK'
<1>. /\ stage = "evaluate"
     /\ Measured
  BY DEF Evaluate, FirstMeasured, StaysNormal, DropBegins, StaysDown,
         RecoversUntold, Recovers, NotEvaluated
<1>. user \in Users /\ count \in Counts
  BY SeenType
<1>1. clock \in 0..MaxClock /\ faults \in 0..MaxFaults
  BY DEF TypeOK
<1>2. CASE FirstMeasured
  <2>1. rows' \in [Users -> Row \cup {NoRow}]
    <3>1. [baseline |-> count, alerting_since |-> Never,
           drop_delivered |-> TRUE, recovery |-> NoNews] \in Row
      BY DEF Row
    <3>. QED
      BY <1>2, <3>1 DEF FirstMeasured, TypeOK
  <2>2. /\ \/ stage' = "users" /\ user' = NoRow
           \/ stage' = "pending" /\ user' = user
        /\ found' \subseteq News
    BY <1>2, TellNothingType DEF FirstMeasured, TypeOK
  <2>. QED
    BY <1>1, <1>2, <2>1, <2>2, MeasuredType DEF FirstMeasured, TypeOK
<1>3. CASE StaysNormal
  <2>1. rows[user] # NoRow => [rows[user] EXCEPT !.baseline = count] \in Row
    BY SeenType DEF Row
  <2>. QED
    BY <1>1, <1>3, <2>1, WriteType, TellNothingType, MeasuredType
       DEF StaysNormal, TypeOK
<1>4. CASE DropBegins
  <2>1. rows[user] # NoRow =>
          [rows[user] EXCEPT !.alerting_since = clock + 1,
                             !.drop_delivered = FALSE,
                             !.recovery = NoNews] \in Row
    BY <1>4, SeenType, TimestampType DEF Row, DropBegins
  <2>2. low' \in [Users -> [count : Counts, threshold : Thresholds] \cup {NoRow}]
    BY <1>4 DEF DropBegins, TypeOK
  <2>3. /\ stage' = "users" /\ user' = NoRow /\ found' \subseteq News
        /\ clock' \in 0..MaxClock
    BY <1>4, NewsType, TellType, TimestampType DEF DropBegins
  <2>. QED
    BY <1>1, <1>4, <2>1, <2>2, <2>3, WriteType, MeasuredType
       DEF DropBegins, NoFault
<1>5. CASE StaysDown
  BY <1>1, <1>5, TellNothingType, MeasuredType DEF StaysDown, TypeOK
<1>6. CASE RecoversUntold
  <2>1. rows[user] # NoRow =>
          [rows[user] EXCEPT !.baseline = count,
                             !.alerting_since = Never,
                             !.drop_delivered = TRUE] \in Row
    BY SeenType DEF Row
  <2>. QED
    BY <1>1, <1>6, <2>1, WriteType, TellNothingType, MeasuredType
       DEF RecoversUntold, TypeOK
<1>7. CASE Recovers
  <2>1. Recovery \in News
    BY <1>7, NewsType DEF Recovers, Rises
  <2>2. rows[user] # NoRow =>
          [rows[user] EXCEPT !.baseline = count,
                             !.alerting_since = Never,
                             !.drop_delivered = TRUE,
                             !.recovery = Recovery] \in Row
    BY <2>1, SeenType DEF Row
  <2>3. /\ stage' = "users" /\ user' = NoRow /\ found' \subseteq News
        /\ clock' \in 0..MaxClock
    BY <1>7, <2>1, TellType, TimestampType DEF Recovers
  <2>. QED
    BY <1>1, <1>7, <2>2, <2>3, WriteType, MeasuredType
       DEF Recovers, NoFault, TypeOK
<1>8. CASE NotEvaluated
  <2>1. faults' \in 0..MaxFaults
    BY <1>1, <1>8, AlertsAssumption DEF NotEvaluated, Fault
  <2>. QED
    BY <1>1, <1>8, <2>1, MeasuredType DEF NotEvaluated, TypeOK
<1>. QED
  BY <1>2, <1>3, <1>4, <1>5, <1>6, <1>7, <1>8 DEF Evaluate

LEMMA DeliverType ==
    ASSUME TypeOK, NEW g \in Deliverers, Deliver(g) PROVE TypeOK'
<1> USE DEF Delivers, adminVars, runVars, queueVars
<1>1. CASE BeginPass(g)
  BY <1>1 DEF BeginPass, TypeOK, DeliveryStages
<1>2. CASE EndDisabled(g)
  BY <1>2 DEF EndDisabled, TypeOK, DeliveryStages, EmptyQueue
<1>3. CASE Check(g)
  <2>1. PICK n \in batch[g] :
          /\ batch' = [batch EXCEPT ![g] = @ \ {n}]
          /\ \/ Delivers(g, "next", "post") /\ Took(g, n) /\ NoFault
             \/ /\ Fault \/ NoFault
                /\ Delivers(g, "next", "next")
                /\ UNCHANGED <<cur, late>>
          /\ UNCHANGED <<rows, queueVars, told>>
    BY <1>3 DEF Check
  <2>2. n \in News /\ n # NoNews
    BY NamesAssumption DEF TypeOK
  <2>3. batch' \in [Deliverers -> SUBSET News]
    BY <2>1 DEF TypeOK
  <2>4. faults' \in 0..MaxFaults
    BY <2>1, AlertsAssumption DEF TypeOK, Fault, NoFault
  <2>5. CASE Delivers(g, "next", "post") /\ Took(g, n)
    BY <2>1, <2>2, <2>3, <2>4, <2>5 DEF TypeOK, DeliveryStages, Took
  <2>6. CASE Delivers(g, "next", "next") /\ UNCHANGED <<cur, late>>
    BY <2>1, <2>3, <2>4, <2>6 DEF TypeOK, DeliveryStages
  <2>. QED
    BY <2>1, <2>5, <2>6
<1>4. ASSUME dpc[g] \in {"post", "mark"}
      PROVE  cur[g] \in News /\ cur[g].user \in Users
  BY <1>4 DEF TypeOK, News
<1>5. ASSUME Received(cur[g]), dpc[g] = "post"
      PROVE  told' \in [Users -> News \cup {NoNews}]
  BY <1>4, <1>5 DEF TypeOK, Received
<1>6. CASE Post(g)
  BY <1>5, <1>6 DEF Post, TypeOK, DeliveryStages
<1>7. CASE AnswerLost(g)
  <2>1. told' \in [Users -> News \cup {NoNews}]
    BY <1>5, <1>7 DEF AnswerLost
  <2>2. faults' \in 0..MaxFaults
    BY <1>7, AlertsAssumption DEF AnswerLost, TypeOK, Fault
  <2>3. CASE Delivers(g, "post", "post") /\ UNCHANGED <<cur, late>>
    BY <1>7, <2>1, <2>2, <2>3 DEF AnswerLost, TypeOK, DeliveryStages
  <2>4. CASE Delivers(g, "post", "next") /\ Took(g, NoNews)
    BY <1>7, <2>1, <2>2, <2>4 DEF AnswerLost, TypeOK, DeliveryStages, Took
  <2>. QED
    BY <1>7, <2>3, <2>4 DEF AnswerLost
<1>8. CASE PostFails(g)
  BY <1>8, AlertsAssumption DEF PostFails, TypeOK, DeliveryStages, Took, Fault
<1>9. CASE Mark(g)
  <2>1. Marked(cur[g]) \in [Users -> Row \cup {NoRow}]
    <3>1. cur[g].user \in Users
      BY <1>4, <1>9 DEF Mark
    <3>2. rows[cur[g].user] # NoRow => rows[cur[g].user] \in Row
      BY <3>1 DEF TypeOK
    <3>3. \A r \in Row : /\ [r EXCEPT !.drop_delivered = TRUE] \in Row
                         /\ [r EXCEPT !.recovery = NoNews] \in Row
      BY DEF Row
    <3>4. rows[cur[g].user] # NoRow =>
            /\ [rows[cur[g].user] EXCEPT !.drop_delivered = TRUE] \in Row
            /\ [rows[cur[g].user] EXCEPT !.recovery = NoNews] \in Row
      BY <3>2, <3>3
    <3>. QED
      BY <3>1, <3>4 DEF TypeOK, Marked
  <2>2. rows' \in [Users -> Row \cup {NoRow}]
    BY <1>9, <2>1 DEF Mark, TypeOK
  <2>3. faults' \in 0..MaxFaults
    BY <1>9, AlertsAssumption DEF Mark, TypeOK, Fault, NoFault
  <2>. QED
    BY <1>9, <2>2, <2>3 DEF Mark, TypeOK, DeliveryStages, Took
<1>10. CASE EndPass(g)
  <2>1. {queued[u] : u \in Users} \ {NoNews} \subseteq News
    BY DEF TypeOK
  <2>2. EmptyQueue \in [Users -> News \cup {NoNews}]
    BY DEF EmptyQueue
  <2>3. UNCHANGED <<adminVars, clock, runVars, low, rows, cur, late, told, faults>>
    BY <1>10 DEF EndPass, Delivers
  <2>4. CASE Delivers(g, "next", "idle") /\ delivering' = FALSE
                /\ UNCHANGED <<queued, batch>>
    <3>1. dpc' \in [Deliverers -> DeliveryStages]
      BY <2>4 DEF Delivers, TypeOK, DeliveryStages
    <3>2. \A h \in Deliverers : cur'[h] # NoNews <=> dpc'[h] \in {"post", "mark"}
      BY <2>3, <2>4 DEF Delivers, TypeOK
    <3>. QED
      BY <2>3, <2>4, <3>1, <3>2 DEF TypeOK
  <2>5. CASE Delivers(g, "next", "pass") /\ queued' = EmptyQueue
                /\ batch' = [batch EXCEPT ![g] =
                               {queued[u] : u \in Users} \ {NoNews}]
                /\ UNCHANGED delivering
    <3>1. dpc' \in [Deliverers -> DeliveryStages]
      BY <2>5 DEF Delivers, TypeOK, DeliveryStages
    <3>2. \A h \in Deliverers : cur'[h] # NoNews <=> dpc'[h] \in {"post", "mark"}
      BY <2>3, <2>5 DEF Delivers, TypeOK
    <3>3. batch' \in [Deliverers -> SUBSET News]
      BY <2>1, <2>5 DEF TypeOK
    <3>4. queued' \in [Users -> News \cup {NoNews}]
      BY <2>2, <2>5
    <3>. QED
      BY <2>3, <2>5, <3>1, <3>2, <3>3, <3>4 DEF TypeOK
  <2>. QED
    BY <1>10, <2>4, <2>5 DEF EndPass
<1>. QED
  BY <1>1, <1>2, <1>3, <1>6, <1>7, <1>8, <1>9, <1>10 DEF Deliver

LEMMA AdminType == ASSUME TypeOK, Admin PROVE TypeOK'
<1> USE DEF runVars, queueVars, deliveryVars
<1>1. CASE ChangeURL
  BY <1>1 DEF ChangeURL, TypeOK
<1>2. ASSUME NEW u \in Users, ChangeUser(u) PROVE TypeOK'
  BY <1>2 DEF ChangeUser, TypeOK
<1>. QED
  BY <1>1, <1>2 DEF Admin

LEMMA RestartType == ASSUME TypeOK, Restart PROVE TypeOK'
<1>1. /\ queued' \in [Users -> News \cup {NoNews}]
      /\ dpc' \in [Deliverers -> DeliveryStages]
      /\ batch' \in [Deliverers -> SUBSET News]
      /\ cur' \in [Deliverers -> News \cup {NoNews}]
      /\ late' \in [Deliverers -> BOOLEAN]
      /\ \A g \in Deliverers : cur'[g] = NoNews /\ dpc'[g] = "idle"
  BY DEF Restart, EmptyQueue, DeliveryStages
<1>2. delivering' \in BOOLEAN
  BY Zenon DEF Restart
<1>3. faults' \in 0..MaxFaults
  BY AlertsAssumption DEF Restart, Fault, TypeOK
<1>. QED
  BY <1>1, <1>2, <1>3 DEF Restart, TypeOK, adminVars, Stages

LEMMA TypeStep == TypeOK /\ [Next]_vars => TypeOK'
<1> SUFFICES ASSUME TypeOK, [Next]_vars PROVE TypeOK'
  OBVIOUS
<1>1. CASE UNCHANGED vars
  BY <1>1 DEF vars, adminVars, runVars, queueVars, deliveryVars, TypeOK
<1>. QED
  BY <1>1, RunType, EvaluateType, DeliverType, AdminType, RestartType DEF Next, Run

\* Rows, the notifications of a tick and of a goroutine, and where both are,
\* keep their shape.
THEOREM TypeCorrect == Spec => []TypeOK
BY TypeInit, TypeStep, PTL DEF Spec

----------------------------------------------------------------------------
(* The queue *)

\* A step of the only goroutine that delivers, which goes on.
LEMMA GoesOn ==
    ASSUME TypeOK, QueueIsServed, NEW g \in Deliverers,
           NEW from, NEW to, Delivers(g, from, to), from # "idle", to # "idle",
           UNCHANGED delivering, queued' \in {queued, EmptyQueue}
    PROVE  QueueIsServed'
BY DEF TypeOK, QueueIsServed, Delivers

\* ... and one that ends.
LEMMA Stops ==
    ASSUME TypeOK, QueueIsServed, NEW g \in Deliverers,
           NEW from, Delivers(g, from, "idle"), from # "idle",
           ~delivering', queued' = EmptyQueue
    PROVE  QueueIsServed'
BY DEF TypeOK, QueueIsServed, Delivers

LEMMA QueueInit == Init => QueueIsServed
BY DEF Init, QueueIsServed

LEMMA QueueStep == TypeOK /\ QueueIsServed /\ [Next]_vars => QueueIsServed'
<1> SUFFICES ASSUME TypeOK, QueueIsServed, [Next]_vars PROVE QueueIsServed'
  OBVIOUS
<1>1. ASSUME UNCHANGED <<delivering, queued, dpc>> PROVE QueueIsServed'
  BY <1>1 DEF QueueIsServed, EmptyQueue
<1>2. CASE UNCHANGED vars
  BY <1>1, <1>2 DEF vars, queueVars, deliveryVars
<1>3. CASE Run
  <2>1. CASE HandOver
    <3>1. CASE UNCHANGED <<delivering, queued, dpc>>
      BY <1>1, <3>1
    <3>2. CASE delivering /\ UNCHANGED <<delivering, dpc>>
      BY <3>2 DEF QueueIsServed, EmptyQueue
    <3>3. CASE /\ ~delivering
               /\ delivering'
               /\ UNCHANGED queued
               /\ \E g \in Deliverers : dpc' = [dpc EXCEPT ![g] = "pass"]
      BY <3>3 DEF QueueIsServed, TypeOK, EmptyQueue
    <3>. QED
      BY <2>1, <3>1, <3>2, <3>3
         DEF HandOver, DeliveryUnderWay, queueVars, deliveryVars
  <2>2. CASE Evaluate
    BY <1>1, <2>2
       DEF Evaluate, FirstMeasured, StaysNormal, DropBegins, StaysDown,
           RecoversUntold, Recovers, NotEvaluated, Measured, queueVars
  <2>3. CASE StartRun \/ LookUpPending \/ \E u \in Users : Measure(u)
    BY <1>1, <2>3 DEF StartRun, LookUpPending, Measure, queueVars, deliveryVars
  <2>. QED
    BY <1>3, <2>1, <2>2, <2>3 DEF Run
<1>4. ASSUME NEW g \in Deliverers, Deliver(g) PROVE QueueIsServed'
  <2>1. CASE EndDisabled(g)
    BY <2>1, Stops DEF EndDisabled
  <2>2. CASE EndPass(g)
    BY <2>2, Stops, GoesOn DEF EndPass
  <2>3. CASE BeginPass(g) \/ Post(g) \/ AnswerLost(g) \/ PostFails(g) \/ Mark(g)
    BY <2>3, GoesOn
       DEF BeginPass, Post, AnswerLost, PostFails, Mark, queueVars
  <2>4. CASE Check(g)
    BY <2>4, GoesOn DEF Check, queueVars
  <2>. QED
    BY <1>4, <2>1, <2>2, <2>3, <2>4 DEF Deliver
<1>5. CASE Admin
  BY <1>1, <1>5 DEF Admin, ChangeURL, ChangeUser, queueVars, deliveryVars
<1>6. CASE Restart
  BY <1>6 DEF Restart, QueueIsServed
<1>. QED
  BY <1>2, <1>3, <1>4, <1>5, <1>6 DEF Next

\* Two goroutines never deliver at once, and no notification is queued when
\* none does (deliveringMu).
THEOREM QueueServed == Spec => []QueueIsServed
BY QueueInit, TypeInit, TypeStep, QueueStep, PTL DEF Spec

----------------------------------------------------------------------------
(* Episodes *)

\* What an evaluation leaves alone.
LEMMA Evaluated ==
    ASSUME TypeOK, Evaluate
    PROVE  /\ stage = "evaluate" /\ stage' # "evaluate"
           /\ user \in Users
           /\ UNCHANGED <<users, url, queued, dpc, batch, cur, told>>
           /\ late' = [g \in Deliverers |->
                          late[g] \/ (cur[g] # NoNews /\ cur[g].user = user)]
           /\ \A u \in Users \ {user} : rows'[u] = rows[u]
<1>. /\ stage = "evaluate"
     /\ Measured
  BY DEF Evaluate, FirstMeasured, StaysNormal, DropBegins, StaysDown,
         RecoversUntold, Recovers, NotEvaluated
<1>1. stage' # "evaluate"
  BY DEF Evaluate, FirstMeasured, StaysNormal, DropBegins, StaysDown,
         RecoversUntold, Recovers, NotEvaluated, Tell, TellNothing
<1>2. user \in Users
  BY SeenType
<1>3. \A u \in Users \ {user} : rows'[u] = rows[u]
  BY <1>2
     DEF TypeOK, Evaluate, FirstMeasured, StaysNormal, DropBegins, StaysDown,
         RecoversUntold, Recovers, NotEvaluated, Write
<1>. QED
  BY <1>1, <1>2, <1>3 DEF Measured, adminVars, queueVars

\* What happens to the row of the user that is evaluated.
RowStays == UNCHANGED <<rows, clock, found, low>>
RowBegins ==
    /\ rows[user] = NoRow
    /\ rows'[user] # NoRow
    /\ rows'[user].alerting_since = Never
    /\ rows'[user].recovery = NoNews
    /\ UNCHANGED <<clock, found, low>>
RowIsNormal ==
    /\ rows[user] # NoRow => rows[user].alerting_since = Never
    /\ rows'[user] # NoRow =>
           /\ rows[user] # NoRow
           /\ rows'[user].alerting_since = Never
           /\ rows'[user].recovery = rows[user].recovery
    /\ UNCHANGED <<clock, found, low>>
RowFalls ==
    /\ rows[user] # NoRow => rows[user].alerting_since = Never
    /\ rows'[user] # NoRow =>
           /\ rows[user] # NoRow
           /\ rows'[user].alerting_since = clock'
           /\ ~rows'[user].drop_delivered
           /\ rows'[user].recovery = NoNews
           /\ rows'[user].baseline = seen.baseline
    /\ clock' = clock + 1
    /\ found' = found \/ found' = found \cup {Drop}
    /\ low' = [low EXCEPT ![user] = [count |-> count, threshold |-> threshold]]
    /\ count <= DropLine(seen)
RowRisesUntold ==
    /\ rows'[user] # NoRow =>
           /\ rows[user] # NoRow
           /\ rows[user].alerting_since # Never
           /\ rows[user].baseline = seen.baseline
           /\ rows'[user].alerting_since = Never
           /\ rows'[user].recovery = rows[user].recovery
    /\ UNCHANGED <<clock, found, low>>
    /\ Rises(seen, count)
RowRises ==
    /\ rows'[user] # NoRow =>
           /\ rows[user] # NoRow
           /\ rows[user].alerting_since = seen.alerting_since
           /\ rows[user].baseline = seen.baseline
           /\ rows[user].drop_delivered
           /\ rows'[user].alerting_since = Never
           /\ rows'[user].recovery = Recovery
    /\ seen.alerting_since # Never
    /\ clock' = clock + 1
    /\ found' = found \/ found' = found \cup {Recovery}
    /\ UNCHANGED low
    /\ Rises(seen, count)

LEMMA RowCases ==
    ASSUME TypeOK, SeenInv, Evaluate
    PROVE  RowStays \/ RowBegins \/ RowIsNormal \/ RowFalls \/ RowRisesUntold
           \/ RowRises
<1>. stage = "evaluate" /\ user \in Users /\ TypeOK
  BY Evaluated
<1>1. rows \in [Users -> Row \cup {NoRow}]
  BY DEF TypeOK
<1>2. rows[user] # NoRow => rows[user] \in Row
  BY <1>1
<1>3. /\ \/ rows[user] = NoRow
         \/ /\ seen # NoRow
            /\ seen.baseline = rows[user].baseline
            /\ seen.alerting_since = rows[user].alerting_since
            /\ seen.drop_delivered => rows[user].drop_delivered
  BY DEF SeenInv
<1>4. CASE FirstMeasured
  <2>1. CASE users[user] = "gone"
    BY <1>4, <2>1 DEF FirstMeasured, RowStays
  <2>2. CASE users[user] # "gone"
    <3> DEFINE r == [baseline |-> count, alerting_since |-> Never,
                     drop_delivered |-> TRUE, recovery |-> NoNews]
    <3>1. rows'[user] = r /\ rows[user] = NoRow
      BY <1>1, <1>3, <1>4, <2>2 DEF FirstMeasured
    <3>2. CASE rows'[user] = NoRow
      BY <1>4, <2>2, <3>1, <3>2 DEF FirstMeasured, RowIsNormal, TellNothing
    <3>3. CASE rows'[user] # NoRow
      BY <1>4, <2>2, <3>1, <3>3 DEF FirstMeasured, RowBegins, TellNothing
    <3>. QED
      BY <3>2, <3>3
  <2>. QED
    BY <2>1, <2>2
<1>5. CASE StaysNormal
  BY <1>1, <1>2, <1>3, <1>5 DEF StaysNormal, Write, TellNothing, RowIsNormal, Row
<1>6. CASE DropBegins
  BY <1>1, <1>2, <1>3, <1>6
     DEF DropBegins, Write, Tell, RowFalls, Row, Falls, Timestamp
<1>7. CASE StaysDown \/ NotEvaluated
  BY <1>7 DEF StaysDown, NotEvaluated, TellNothing, RowStays
<1>8. CASE RecoversUntold
  BY <1>1, <1>2, <1>3, <1>8
     DEF RecoversUntold, Write, TellNothing, RowRisesUntold, Row, Rises
<1>9. CASE Recovers
  BY <1>1, <1>2, <1>3, <1>9
     DEF Recovers, Write, Tell, RowRises, Row, Rises, Timestamp, WasDelivered
<1>. QED
  BY <1>4, <1>5, <1>6, <1>7, <1>8, <1>9 DEF Evaluate

\* Only evaluations, marks and the deletion of a user change rows.
LEMMA Marking ==
    ASSUME TypeOK, NEW g \in Deliverers, Mark(g)
    PROVE  /\ dpc[g] = "mark"
           /\ cur[g] \in News
           /\ cur[g].user \in Users
           /\ \A u \in Users \ {cur[g].user} : rows'[u] = rows[u]
           /\ rows[cur[g].user] = NoRow => rows' = rows
           /\ rows[cur[g].user] # NoRow =>
                  LET r == rows[cur[g].user]
                      s == rows'[cur[g].user]
                  IN  /\ s.baseline = r.baseline
                      /\ s.alerting_since = r.alerting_since
                      /\ r.drop_delivered => s.drop_delivered
                      /\ s.drop_delivered =>
                             r.drop_delivered \/ cur[g].event = "drop"
                      /\ \/ s.recovery = r.recovery
                         \/ s.recovery = NoNews /\ cur[g].event = "recovered"
<1>1. dpc[g] = "mark" /\ cur[g] \in News
  BY DEF Mark, Delivers, TypeOK
<1>2. /\ cur[g].user \in Users
      /\ cur[g].event \in {"drop", "recovered"}
  BY <1>1 DEF News
<1>3. \A u \in Users \ {cur[g].user} : rows'[u] = rows[u]
  BY <1>2 DEF Mark, Marked, TypeOK
<1>4. rows[cur[g].user] = NoRow => rows' = rows
  BY DEF Mark, Marked
<1>5. ASSUME rows[cur[g].user] # NoRow
      PROVE  \/ rows' = rows
             \/ /\ cur[g].event = "drop"
                /\ rows'[cur[g].user] =
                     [rows[cur[g].user] EXCEPT !.drop_delivered = TRUE]
             \/ /\ cur[g].event = "recovered"
                /\ rows'[cur[g].user] =
                     [rows[cur[g].user] EXCEPT !.recovery = NoNews]
  BY <1>2, <1>5 DEF Mark, Marked, TypeOK
<1>6. rows[cur[g].user] # NoRow => rows[cur[g].user] \in Row
  BY <1>2 DEF TypeOK
<1>7. ASSUME rows[cur[g].user] # NoRow
      PROVE  LET r == rows[cur[g].user]
                 s == rows'[cur[g].user]
             IN  /\ s.baseline = r.baseline
                 /\ s.alerting_since = r.alerting_since
                 /\ r.drop_delivered => s.drop_delivered
                 /\ s.drop_delivered =>
                        r.drop_delivered \/ cur[g].event = "drop"
                 /\ \/ s.recovery = r.recovery
                    \/ s.recovery = NoNews /\ cur[g].event = "recovered"
  <2> DEFINE r == rows[cur[g].user]
  <2> DEFINE s == rows'[cur[g].user]
  <2> SUFFICES /\ s.baseline = r.baseline
               /\ s.alerting_since = r.alerting_since
               /\ r.drop_delivered => s.drop_delivered
               /\ s.drop_delivered =>
                      r.drop_delivered \/ cur[g].event = "drop"
               /\ \/ s.recovery = r.recovery
                  \/ s.recovery = NoNews /\ cur[g].event = "recovered"
    OBVIOUS
  <2>1. r \in Row
    BY <1>6, <1>7
  <2>2. \/ s = r
        \/ cur[g].event = "drop" /\ s = [r EXCEPT !.drop_delivered = TRUE]
        \/ cur[g].event = "recovered" /\ s = [r EXCEPT !.recovery = NoNews]
    BY <1>5, <1>7
  <2> HIDE DEF r, s
  <2>3. CASE s = r
    BY <2>3
  <2>4. CASE cur[g].event = "drop" /\ s = [r EXCEPT !.drop_delivered = TRUE]
    <3>1. /\ s.baseline = r.baseline
          /\ s.alerting_since = r.alerting_since
          /\ s.recovery = r.recovery
      BY <2>1, <2>4 DEF Row
    <3>2. s.drop_delivered = TRUE
      BY <2>1, <2>4 DEF Row
    <3>. QED
      BY <2>4, <3>1, <3>2
  <2>5. CASE cur[g].event = "recovered" /\ s = [r EXCEPT !.recovery = NoNews]
    <3>1. /\ s.baseline = r.baseline
          /\ s.alerting_since = r.alerting_since
          /\ s.recovery = NoNews
      BY <2>1, <2>5 DEF Row
    <3>2. s.drop_delivered = r.drop_delivered
      BY <2>1, <2>5 DEF Row
    <3>. QED
      BY <2>5, <3>1, <3>2
  <2>. QED
    BY <2>2, <2>3, <2>4, <2>5
<1>. QED
  BY <1>1, <1>2, <1>3, <1>4, <1>7

LEMMA OtherRows ==
    ASSUME TypeOK, [Next]_vars, ~Evaluate,
           \A g \in Deliverers : ~Mark(g)
    PROVE  \A u \in Users : rows'[u] = rows[u] \/ rows'[u] = NoRow
<1>1. CASE Run
  BY <1>1 DEF Run, StartRun, Measure, LookUpPending, HandOver
<1>2. ASSUME NEW g \in Deliverers, Deliver(g) PROVE UNCHANGED rows
  BY <1>2 DEF Deliver, BeginPass, EndDisabled, Check, Post, AnswerLost,
              PostFails, EndPass
<1>3. CASE Admin
  BY <1>3 DEF Admin, ChangeURL, ChangeUser, TypeOK
<1>. QED
  BY <1>1, <1>2, <1>3 DEF Next, Restart, vars

LEMMA SeenStep ==
    ASSUME TypeOK, SeenInv, [Next]_vars
    PROVE  SeenInv'
<1> SUFFICES ASSUME stage' = "evaluate"
             PROVE  \/ rows'[user'] = NoRow
                    \/ /\ seen' # NoRow
                       /\ seen'.baseline = rows'[user'].baseline
                       /\ seen'.alerting_since = rows'[user'].alerting_since
                       /\ seen'.drop_delivered => rows'[user'].drop_delivered
  BY DEF SeenInv
<1>2. CASE \E u \in Users : Measure(u)
  <2>1. PICK u \in Users : Measure(u)
    BY <1>2
  <2>2. rows' = rows /\ user' = u /\ seen' = rows[u]
    BY <2>1 DEF Measure
  <2>. QED
    BY <2>2
<1>3. CASE ~\E u \in Users : Measure(u)
  <2>1. ~Evaluate
    BY Evaluated
  <2>2. UNCHANGED <<stage, user, seen>> /\ user \in Users
    <3>1. CASE Run
      BY <1>3, <2>1, <3>1 DEF Run, StartRun, LookUpPending, HandOver
    <3>2. ASSUME NEW g \in Deliverers, Deliver(g)
          PROVE  UNCHANGED runVars
      BY <3>2 DEF Deliver, BeginPass, EndDisabled, Check, Post, AnswerLost,
                  PostFails, Mark, EndPass, Delivers
    <3>3. ASSUME Admin \/ Restart PROVE UNCHANGED runVars
      BY <3>3 DEF Admin, ChangeURL, ChangeUser, runVars, Restart
    <3>4. UNCHANGED <<stage, user, seen>>
      BY <3>1, <3>2, <3>3 DEF Next, vars, runVars
    <3>. QED
      BY <3>4 DEF TypeOK
  <2>3. CASE \A g \in Deliverers : ~Mark(g)
    BY <2>1, <2>2, <2>3, OtherRows DEF SeenInv
  <2>4. ASSUME NEW g \in Deliverers, Mark(g), rows[user] # NoRow
        PROVE  /\ rows'[user].baseline = rows[user].baseline
               /\ rows'[user].alerting_since = rows[user].alerting_since
               /\ rows[user].drop_delivered => rows'[user].drop_delivered
    BY <2>2, <2>4, Marking
  <2>5. ASSUME NEW g \in Deliverers, Mark(g), rows[user] = NoRow
        PROVE  rows'[user] = NoRow
    BY <2>2, <2>5, Marking
  <2>. QED
    BY <2>2, <2>3, <2>4, <2>5 DEF SeenInv
<1>. QED
  BY <1>2, <1>3

LEMMA LateStep ==
    ASSUME TypeOK, LateInv, [Next]_vars
    PROVE  LateInv'
<1> SUFFICES ASSUME stage' = "evaluate",
                    NEW g \in Deliverers, cur'[g] # NoNews, cur'[g].user = user'
             PROVE  ~late'[g]
  BY DEF LateInv
<1>1. CASE Run
  <2>1. PICK u \in Users : Measure(u)
    BY <1>1, Evaluated DEF Run, StartRun, LookUpPending, HandOver
  <2>2. user' = u /\ ~Waiting(u) /\ UNCHANGED <<cur, late>>
    BY <2>1 DEF Measure, deliveryVars
  <2>. QED
    BY <2>2 DEF Waiting
<1>2. ASSUME NEW h \in Deliverers, Deliver(h) PROVE ~late'[g]
  <2>1. UNCHANGED runVars
    BY <1>2 DEF Deliver, BeginPass, EndDisabled, Check, Post, AnswerLost,
                PostFails, Mark, EndPass, Delivers
  <2>2. \/ UNCHANGED <<cur, late>>
        \/ \E n : Took(h, n)
    BY <1>2 DEF Deliver, BeginPass, EndDisabled, Check, Post, AnswerLost,
                PostFails, Mark, EndPass
  <2>. QED
    BY <2>1, <2>2 DEF Took, TypeOK, LateInv, runVars
<1>3. CASE Admin \/ Restart \/ UNCHANGED vars
  BY <1>3
     DEF Admin, ChangeURL, ChangeUser, Restart, vars, runVars, deliveryVars,
         LateInv
<1>. QED
  BY <1>1, <1>2, <1>3 DEF Next
LEMMA ClockStep ==
    ASSUME TypeOK, [Next]_vars
    PROVE  /\ clock \in Nat /\ clock' \in Nat /\ clock <= clock'
           /\ ~Evaluate => clock' = clock
<1>1. clock \in Nat
  BY AlertsAssumption DEF TypeOK
<1>2. CASE Evaluate
  BY <1>1, <1>2
     DEF Evaluate, FirstMeasured, StaysNormal, DropBegins, StaysDown,
         RecoversUntold, Recovers, NotEvaluated, Timestamp
<1>3. CASE StartRun \/ LookUpPending \/ HandOver \/ \E u \in Users : Measure(u)
  BY <1>1, <1>3 DEF StartRun, LookUpPending, HandOver, Measure
<1>4. ASSUME NEW g \in Deliverers, Deliver(g) PROVE clock' = clock
  BY <1>4 DEF Deliver, BeginPass, EndDisabled, Check, Post, AnswerLost,
              PostFails, Mark, EndPass, Delivers
<1>5. CASE Admin \/ Restart \/ UNCHANGED vars
  BY <1>1, <1>5 DEF Admin, ChangeURL, ChangeUser, Restart, vars
<1>. QED
  BY <1>1, <1>2, <1>3, <1>4, <1>5 DEF Next, Run

LEMMA NewsFields ==
    ASSUME NEW n \in News
    PROVE  /\ n.user \in Users
           /\ n.event \in {"drop", "recovered"}
           /\ n.at \in Nat /\ n.at # Never
           /\ n.since \in Nat
BY AlertsAssumption DEF News

LEMMA KnownKept ==
    ASSUME TypeOK, SeenInv, RowInv, [Next]_vars, NEW n \in News, IsKnown(n)
    PROVE  IsKnown(n)'
<1> USE NewsFields, ClockStep
<1>1. n.at <= clock'
  BY DEF IsKnown
<1>2. CASE rows'[n.user] = rows[n.user] \/ rows'[n.user] = NoRow
  BY <1>1, <1>2 DEF IsKnown, RecoveryPending
<1>3. ASSUME NEW g \in Deliverers, Mark(g) PROVE IsKnown(n)'
  <2>1. CASE n.user = cur[g].user /\ rows[n.user] # NoRow
    BY <1>1, <1>3, <2>1, Marking DEF IsKnown, RecoveryPending
  <2>2. CASE n.user # cur[g].user \/ rows[n.user] = NoRow
    BY <1>2, <1>3, <2>2, Marking
  <2>. QED
    BY <2>1, <2>2
<1>4. CASE Evaluate /\ n.user = user
  <2>1. n.at # clock + 1
    BY DEF IsKnown
  <2>2. CASE RowStays
    BY <1>2, <1>4, <2>2 DEF RowStays
  <2>3. CASE RowBegins
    BY <1>1, <1>4, <2>3 DEF RowBegins, IsKnown, RecoveryPending
  <2>4. CASE RowIsNormal
    BY <1>1, <1>4, <2>4 DEF RowIsNormal, IsKnown, RecoveryPending
  <2>5. CASE RowFalls
    BY <1>1, <1>4, <2>1, <2>5 DEF RowFalls, IsKnown, RecoveryPending
  <2>6. CASE RowRisesUntold
    BY <1>1, <1>4, <2>6 DEF RowRisesUntold, IsKnown, RecoveryPending
  <2>7. CASE RowRises
    <3>1. Recovery.at = clock + 1
      BY DEF Recovery
    <3>. QED
      BY <1>1, <1>4, <2>1, <2>7, <3>1 DEF RowRises, IsKnown, RecoveryPending
  <2>. QED
    BY <1>4, <2>2, <2>3, <2>4, <2>5, <2>6, <2>7, RowCases
<1>5. CASE Evaluate /\ n.user # user
  BY <1>2, <1>5, Evaluated
<1>. QED
  BY <1>2, <1>3, <1>4, <1>5, OtherRows

\* What is found now is known.
LEMMA DropKnown ==
    ASSUME TypeOK, Evaluate, RowFalls, NEW n, n = Drop
    PROVE  IsKnown(n)'
<1>1. /\ n.at = clock + 1 /\ n.since = clock + 1 /\ n.event = "drop"
      /\ n.base = seen.baseline /\ n.user = user
  BY DEF Drop
<1>. QED
  BY <1>1, ClockStep DEF RowFalls, IsKnown, Next, Run

LEMMA RecoveryKnown ==
    ASSUME TypeOK, Evaluate, RowRises, NEW n, n = Recovery
    PROVE  IsKnown(n)'
<1>1. /\ n.at = clock + 1 /\ n.event = "recovered"
      /\ n.user = user
  BY DEF Recovery
<1>. QED
  BY <1>1, ClockStep DEF RowRises, IsKnown, RecoveryPending, Next, Run

LEMMA PendingKnown ==
    ASSUME TypeOK, RowInv, NEW u \in Users, NEW n \in Pending(u)
    PROVE  n \in News /\ IsKnown(n)
<1>1. CASE DropPending(u) /\ n = PendingDrop(u)
  <2>1. n \in News
    BY <1>1, PendingType
  <2>2. /\ n.at = rows[u].alerting_since /\ n.since = rows[u].alerting_since
        /\ n.event = "drop" /\ n.base = rows[u].baseline /\ n.user = u
    BY <1>1 DEF PendingDrop
  <2>. QED
    BY <1>1, <2>1, <2>2 DEF IsKnown, DropPending, RowInv
<1>2. CASE RecoveryPending(u) /\ n = rows[u].recovery
  BY <1>2, PendingType DEF IsKnown, RecoveryPending, RowInv
<1>. QED
  BY <1>1, <1>2 DEF Pending
LEMMA InHandStep ==
    ASSUME TypeOK, SeenInv, [Next]_vars, NEW n \in News, InHand(n)'
    PROVE  \/ InHand(n)
           \/ Evaluate /\ RowFalls /\ n = Drop
           \/ Evaluate /\ RowRises /\ n = Recovery
           \/ \E u \in Users : n \in Pending(u)
<1>. n # NoNews
  BY NamesAssumption
<1>1. CASE UNCHANGED <<found, queued, batch, cur>>
  BY <1>1 DEF InHand
<1>2. CASE Evaluate
  <2>1. UNCHANGED <<queued, batch, cur>>
    BY <1>2, Evaluated
  <2>2. \/ found' = found
        \/ RowFalls /\ found' = found \cup {Drop}
        \/ RowRises /\ found' = found \cup {Recovery}
    BY <1>2, RowCases DEF RowStays, RowBegins, RowIsNormal, RowFalls,
                          RowRisesUntold, RowRises
  <2>. QED
    BY <1>2, <2>1, <2>2 DEF InHand
<1>3. CASE LookUpPending
  BY <1>3 DEF LookUpPending, InHand, TypeOK, queueVars, deliveryVars
<1>4. CASE HandOver
  <2>1. \A u \in Users : QueueMerged[u] \in found \cup {queued[u]}
    BY DEF QueueMerged
  <2>2. UNCHANGED cur /\ found' = {}
    BY <1>4 DEF HandOver, deliveryVars
  <2>3. \A u \in Users : queued'[u] \in found \cup {queued[u]}
    BY <1>4, <2>1 DEF HandOver, queueVars
  <2>4. \A g \in Deliverers : batch'[g] = batch[g] \/ batch'[g] = found
    BY <1>4 DEF HandOver, deliveryVars, TypeOK
  <2>. QED
    BY <2>2, <2>3, <2>4 DEF InHand
<1>5. ASSUME NEW g \in Deliverers, Deliver(g) PROVE InHand(n)
  <2>1. UNCHANGED found
    BY <1>5 DEF Deliver, BeginPass, EndDisabled, Check, Post, AnswerLost,
                PostFails, Mark, EndPass, Delivers, runVars
  <2>2. CASE Check(g)
    BY <2>1, <2>2 DEF Check, Took, InHand, TypeOK, queueVars
  <2>3. CASE EndPass(g) \/ EndDisabled(g)
    BY <2>1, <2>3 DEF EndPass, EndDisabled, EmptyQueue, InHand, TypeOK
  <2>4. CASE BeginPass(g) \/ Post(g) \/ AnswerLost(g) \/ PostFails(g) \/ Mark(g)
    BY <2>1, <2>4
       DEF BeginPass, Post, AnswerLost, PostFails, Mark, Took, InHand, TypeOK,
           queueVars
  <2>. QED
    BY <1>5, <2>2, <2>3, <2>4 DEF Deliver
<1>6. CASE Restart
  BY <1>6 DEF Restart, EmptyQueue, InHand
<1>7. CASE StartRun \/ Admin \/ UNCHANGED vars \/ \E u \in Users : Measure(u)
  BY <1>1, <1>7
     DEF StartRun, Admin, ChangeURL, ChangeUser, Measure, vars, runVars,
         queueVars, deliveryVars
<1>. QED
  BY <1>2, <1>3, <1>4, <1>5, <1>6, <1>7 DEF Next, Run

LEMMA KnownStep ==
    ASSUME TypeOK, SeenInv, RowInv, KnownInv, [Next]_vars
    PROVE  KnownInv'
<1> SUFFICES ASSUME NEW n \in News, InHand(n)' PROVE IsKnown(n)'
  BY DEF KnownInv
<1>1. CASE InHand(n) \/ \E u \in Users : n \in Pending(u)
  BY <1>1, KnownKept, PendingKnown DEF KnownInv
<1>. QED
  BY <1>1, InHandStep, DropKnown, RecoveryKnown
\* Only posts tell.
Telling(g) ==
    /\ dpc[g] = "post"
    /\ cur[g] \in News
    /\ told' = [told EXCEPT ![cur[g].user] = cur[g]]
    /\ UNCHANGED <<rows, clock>>

LEMMA Teller ==
    ASSUME TypeOK, [Next]_vars
    PROVE  UNCHANGED told \/ \E g \in Deliverers : Telling(g)
<1>1. ASSUME NEW g \in Deliverers, Post(g) \/ AnswerLost(g) PROVE Telling(g)
  BY <1>1 DEF Post, AnswerLost, Delivers, Received, Telling, TypeOK
<1>2. ASSUME NEW g \in Deliverers, Deliver(g), ~Post(g), ~AnswerLost(g)
      PROVE  UNCHANGED told
  BY <1>2 DEF Deliver, BeginPass, EndDisabled, Check, PostFails, Mark, EndPass
<1>3. CASE Run
  BY <1>3, Evaluated DEF Run, StartRun, LookUpPending, HandOver, Measure
<1>4. CASE Admin \/ Restart \/ UNCHANGED vars
  BY <1>4 DEF Admin, ChangeURL, ChangeUser, Restart, vars
<1>. QED
  BY <1>1, <1>2, <1>3, <1>4 DEF Next

LEMMA ToldStep ==
    ASSUME TypeOK, KnownInv, ToldInv, [Next]_vars
    PROVE  ToldInv'
<1> SUFFICES ASSUME NEW u \in Users, told'[u] # NoNews
             PROVE  told'[u].user = u /\ told'[u].at <= clock'
  BY DEF ToldInv
<1>1. CASE told'[u] = told[u]
  <2>1. told[u] \in News
    BY <1>1 DEF TypeOK
  <2>. QED
    BY <1>1, <2>1, NewsFields, ClockStep DEF ToldInv
<1>2. ASSUME NEW g \in Deliverers, Telling(g), cur[g].user = u
      PROVE  told'[u] = cur[g] /\ cur[g].at <= clock'
  BY <1>2, ClockStep DEF Telling, TypeOK, KnownInv, InHand, IsKnown
<1>. QED
  BY <1>1, <1>2, Teller DEF Telling, TypeOK

LEMMA RowStep ==
    ASSUME TypeOK, SeenInv, KnownInv, ToldInv, RowInv, CurInv, PostInv,
           QueueIsServed, [Next]_vars
    PROVE  RowInv'
<1> DEFINE Good(r, m, u, now) ==
      /\ r.alerting_since <= now
      /\ r.recovery # NoNews =>
             /\ r.alerting_since = Never
             /\ r.recovery.user = u
             /\ r.recovery.event = "recovered"
             /\ r.recovery.at <= now
             /\ Ends(r.recovery, m)
      /\ r.alerting_since # Never =>
             \/ m = [user |-> u, event |-> "drop", at |-> r.alerting_since,
                     base |-> r.baseline, since |-> r.alerting_since]
             \/ /\ ~r.drop_delivered
                /\ m = NoNews \/ m.at < r.alerting_since
<1> SUFFICES ASSUME NEW u \in Users, rows'[u] # NoRow
             PROVE  Good(rows'[u], told'[u], u, clock')
  BY DEF RowInv, PendingDrop
<1>1. rows[u] # NoRow => Good(rows[u], told[u], u, clock)
  BY DEF RowInv, PendingDrop
<1>2. /\ rows[u] # NoRow => rows[u] \in Row
      /\ told[u] # NoNews => told[u] \in News
  BY DEF TypeOK
<1>3. rows[u] # NoRow => /\ rows[u].alerting_since \in Nat
                         /\ rows[u].recovery # NoNews => rows[u].recovery.at \in Nat
  BY <1>2, NewsFields, AlertsAssumption DEF Row
<1>4. CASE rows'[u] = rows[u] /\ told'[u] = told[u]
  BY <1>1, <1>3, <1>4, ClockStep
<1>5. ASSUME NEW n \in News, n.event = "drop", IsKnown(n), n.user = u,
             rows[u] # NoRow, rows[u].alerting_since = n.at
      PROVE  n = [user |-> u, event |-> "drop", at |-> rows[u].alerting_since,
                  base |-> rows[u].baseline, since |-> rows[u].alerting_since]
  BY <1>5 DEF IsKnown, News
<1>6. ASSUME NEW g \in Deliverers, Telling(g), cur[g].user = u
      PROVE  Good(rows'[u], told'[u], u, clock')
  <2> DEFINE n == cur[g]
  <2>1. /\ told'[u] = n /\ rows' = rows /\ clock' = clock
        /\ n \in News /\ n # NoNews /\ IsKnown(n)
    BY <1>6, NamesAssumption DEF Telling, TypeOK, KnownInv, InHand
  <2>2. CASE n.event = "drop"
    <3>1. \/ rows[u].alerting_since = n.at
          \/ rows[u].alerting_since = Never /\ rows[u].recovery = NoNews
      BY <1>6, <2>1, <2>2 DEF CurInv
    <3>. QED
      BY <1>1, <1>5, <1>6, <2>1, <2>2, <3>1, NewsFields
  <2>3. CASE n.event = "recovered"
    <3>1. \/ rows[u].alerting_since = Never /\ rows[u].recovery = n
          \/ /\ rows[u].recovery = NoNews
             /\ \/ rows[u].alerting_since = Never
                \/ /\ ~rows[u].drop_delivered
                   /\ n.at < rows[u].alerting_since
      BY <1>6, <2>1, <2>3 DEF CurInv
    <3>. QED
      BY <1>1, <2>1, <2>3, <3>1 DEF Ends
  <2>. QED
    BY <2>1, <2>2, <2>3, NewsFields
<1>7. ASSUME NEW g \in Deliverers, Mark(g), cur[g].user = u
      PROVE  Good(rows'[u], told'[u], u, clock')
  <2> DEFINE n == cur[g]
  <2>1. /\ told'[u] = told[u] /\ clock' = clock /\ dpc[g] = "mark"
        /\ n \in News /\ n # NoNews /\ IsKnown(n)
    BY <1>7, Marking, NamesAssumption DEF Mark, Delivers, KnownInv, InHand
  <2>2. told[u] = n
    BY <1>7, <2>1 DEF PostInv
  <2>3. /\ rows[u] # NoRow
        /\ rows'[u].baseline = rows[u].baseline
        /\ rows'[u].alerting_since = rows[u].alerting_since
        /\ rows'[u].drop_delivered => rows[u].drop_delivered \/ n.event = "drop"
        /\ \/ rows'[u].recovery = rows[u].recovery
           \/ rows'[u].recovery = NoNews
    BY <1>7, Marking
  <2>4. rows[u].alerting_since # Never /\ n.event = "drop" =>
            rows[u].alerting_since = n.at
    BY <1>7, <2>1, <2>3 DEF CurInv
  <2>5. n.event = "drop" /\ rows[u].alerting_since # Never =>
            told[u] = [user |-> u, event |-> "drop",
                       at |-> rows[u].alerting_since,
                       base |-> rows[u].baseline,
                       since |-> rows[u].alerting_since]
    BY <1>5, <1>7, <2>1, <2>2, <2>3, <2>4
  <2>. QED
    BY <1>1, <2>1, <2>3, <2>5
<1>8. CASE Evaluate /\ u = user
  <2>1. told'[u] = told[u]
    BY <1>8, Evaluated
  <2>2. clock \in Nat
    BY ClockStep
  <2>3. CASE RowStays
    BY <1>4, <2>1, <2>3 DEF RowStays
  <2>4. CASE RowBegins
    BY <1>8, <2>1, <2>2, <2>4 DEF RowBegins
  <2>5. CASE RowIsNormal
    BY <1>1, <1>3, <1>8, <2>1, <2>2, <2>5 DEF RowIsNormal
  <2>6. CASE RowFalls
    <3>1. told[u] # NoNews => told[u].at \in Nat /\ told[u].at <= clock
      BY <1>2, NewsFields DEF ToldInv
    <3>. QED
      BY <1>8, <2>1, <2>2, <2>6, <3>1 DEF RowFalls
  <2>7. CASE RowRisesUntold
    BY <1>1, <1>3, <1>8, <2>1, <2>2, <2>7 DEF RowRisesUntold
  <2>8. CASE RowRises
    <3>1. /\ Recovery.user = u /\ Recovery.event = "recovered"
          /\ Recovery.at = clock + 1
          /\ Recovery.base = rows[u].baseline
          /\ Recovery.since = rows[u].alerting_since
      BY <1>8, <2>8 DEF Recovery, RowRises
    <3>2. /\ told[u].event = "drop"
          /\ told[u].at = rows[u].alerting_since
          /\ told[u].base = rows[u].baseline
          /\ told[u].at <= clock
          /\ told[u].at \in Nat
      BY <1>1, <1>3, <1>8, <2>8 DEF RowRises
    <3>3. told[u] # NoNews
      <4>1. rows[u] # NoRow /\ rows[u].alerting_since # Never
            /\ rows[u].drop_delivered
        BY <1>8, <2>8 DEF RowRises
      <4>2. told[u] = [user |-> u, event |-> "drop",
                       at |-> rows[u].alerting_since,
                       base |-> rows[u].baseline,
                       since |-> rows[u].alerting_since]
        BY <1>1, <4>1
      <4>3. rows[u].alerting_since \in Times /\ rows[u].baseline \in Counts
        BY <1>2, <4>1 DEF Row
      <4>4. told[u] \in News
        BY <4>2, <4>3 DEF News
      <4>. QED
        BY <4>4, NamesAssumption
    <3>4. Ends(Recovery, told[u])
      BY <2>2, <3>1, <3>2, <3>3 DEF Ends
    <3>. QED
      BY <1>8, <2>1, <2>2, <2>8, <3>1, <3>4 DEF RowRises
  <2>. QED
    BY <1>8, <2>3, <2>4, <2>5, <2>6, <2>7, <2>8, RowCases
<1>9. \/ rows'[u] = rows[u]
      \/ Evaluate /\ u = user
      \/ \E g \in Deliverers : Mark(g) /\ cur[g].user = u
  BY OtherRows, Evaluated, Marking
<1>. QED
  BY <1>4, <1>6, <1>7, <1>8, <1>9, Teller DEF Telling, TypeOK
\* What a goroutine has in hand was pending when it took it.
Taking(g) ==
    /\ dpc[g] = "next" /\ dpc'[g] = "post"
    /\ cur'[g] \in batch[g]
    /\ StillPending(cur'[g])
    /\ UNCHANGED <<rows, clock, told, faults>>

LEMMA Taker ==
    ASSUME TypeOK, [Next]_vars, ~Evaluate, NEW g \in Deliverers,
           cur'[g] # NoNews
    PROVE  \/ cur'[g] = cur[g] /\ late'[g] = late[g] /\ dpc'[g] # "idle"
           \/ Taking(g)
<1>1. ASSUME UNCHANGED <<cur, late>>, dpc'[g] = dpc[g] PROVE dpc'[g] # "idle"
  BY <1>1 DEF TypeOK
<1>2. CASE Run
  <2>1. UNCHANGED <<cur, late>>
    BY <1>2 DEF Run, StartRun, LookUpPending, HandOver, Measure, deliveryVars
  <2>. QED
    BY <1>2, <2>1 DEF Run, StartRun, LookUpPending, HandOver, Measure,
                      deliveryVars, TypeOK
<1>3. ASSUME NEW h \in Deliverers, Deliver(h)
      PROVE  \/ cur'[g] = cur[g] /\ late'[g] = late[g] /\ dpc'[g] # "idle"
             \/ Taking(g)
  <2>1. CASE Check(h)
    <3>1. PICK n \in batch[h] :
            \/ /\ StillPending(n)
               /\ Delivers(h, "next", "post")
               /\ Took(h, n)
               /\ NoFault
            \/ Delivers(h, "next", "next") /\ UNCHANGED <<cur, late>>
      BY <2>1 DEF Check
    <3>2. UNCHANGED <<rows, told>>
      BY <2>1 DEF Check
    <3>. QED
      BY <3>1, <3>2 DEF Delivers, Took, NoFault, Taking, TypeOK
  <2>2. CASE AnswerLost(h)
    BY <2>2 DEF AnswerLost, Delivers, Took, TypeOK
  <2>3. CASE BeginPass(h) \/ Post(h) \/ PostFails(h) \/ Mark(h)
    BY <2>3 DEF BeginPass, Post, PostFails, Mark, Delivers, Took, TypeOK
  <2>4. CASE EndPass(h) \/ EndDisabled(h)
    BY <2>4 DEF EndPass, EndDisabled, Delivers, TypeOK
  <2>. QED
    BY <1>3, <2>1, <2>2, <2>3, <2>4 DEF Deliver
<1>4. CASE Admin \/ UNCHANGED vars
  BY <1>1, <1>4 DEF Admin, ChangeURL, ChangeUser, vars, deliveryVars
<1>5. CASE Restart
  BY <1>5 DEF Restart
<1>. QED
  BY <1>2, <1>3, <1>4, <1>5 DEF Next

LEMMA CurStep ==
    ASSUME TypeOK, QueueIsServed, EpisodeInv, [Next]_vars
    PROVE  CurInv'
<1> USE DEF EpisodeInv
<1> DEFINE Fits(n, r, l) ==
      /\ n.event = "drop" =>
             \/ r.alerting_since = n.at /\ ~r.drop_delivered
             \/ l /\ r.alerting_since = Never /\ r.recovery = NoNews
      /\ n.event = "recovered" =>
             \/ r.alerting_since = Never /\ r.recovery = n
             \/ /\ l
                /\ r.recovery = NoNews
                /\ \/ r.alerting_since = Never
                   \/ ~r.drop_delivered /\ n.at < r.alerting_since
<1> SUFFICES ASSUME NEW g \in Deliverers, cur'[g] # NoNews,
                    rows'[cur'[g].user] # NoRow
             PROVE  Fits(cur'[g], rows'[cur'[g].user], late'[g])
  BY DEF CurInv
<1>1. cur[g] # NoNews /\ rows[cur[g].user] # NoRow =>
          Fits(cur[g], rows[cur[g].user], late[g])
  BY DEF CurInv
<1>2. CASE Taking(g)
  <2> DEFINE n == cur'[g]
  <2>1. n \in News /\ IsKnown(n)
    BY <1>2 DEF Taking, TypeOK, KnownInv, InHand
  <2>2. StillPending(n) /\ rows' = rows
    BY <1>2 DEF Taking
  <2> HIDE DEF n
  <2>3. n.user \in Users
    BY <2>1, NewsFields
  <2>4. Fits(n, rows[n.user], late'[g])
    <3>1. n.event = "drop" =>
              rows[n.user].alerting_since = n.at /\ ~rows[n.user].drop_delivered
      BY <2>2 DEF StillPending, DropPending
    <3>2. n.event = "recovered" =>
              rows[n.user].alerting_since = Never /\ rows[n.user].recovery = n
      BY <2>1, <2>2, <2>3 DEF StillPending, RecoveryPending, IsKnown, RowInv
    <3>. QED
      BY <3>1, <3>2
  <2>. QED
    BY <2>2, <2>4 DEF n
<1>3. CASE Evaluate
  <2> DEFINE n == cur[g]
  <2>1. cur' = cur /\ n \in News /\ n # NoNews /\ IsKnown(n)
    BY <1>3, Evaluated DEF TypeOK, KnownInv, InHand
  <2>2. n.user \in Users /\ n.at \in Nat /\ n.at # Never /\ n.at <= clock
        /\ clock \in Nat
    BY <2>1, NewsFields, ClockStep DEF IsKnown
  <2>3. CASE n.user # user
    BY <1>1, <1>3, <2>1, <2>2, <2>3, Evaluated
  <2>4. CASE n.user = user
    <3>1. late'[g] /\ ~late[g]
      BY <1>3, <2>1, <2>4, Evaluated DEF LateInv
    <3>2. rows[user] # NoRow =>
            /\ n.event = "drop" =>
                   rows[user].alerting_since = n.at /\ ~rows[user].drop_delivered
            /\ n.event = "recovered" =>
                   rows[user].alerting_since = Never /\ rows[user].recovery = n
      BY <1>1, <2>1, <2>4, <3>1
    <3>3. rows[user] # NoRow /\ rows[user].recovery # NoNews =>
              rows[user].alerting_since = Never
      BY <2>2, <2>4 DEF RowInv
    <3>4. rows'[user] # NoRow
      BY <2>1, <2>4
    <3> HIDE DEF n
    <3>5. Fits(n, rows'[user], late'[g])
      <4>1. CASE RowStays
        BY <3>1, <3>2, <3>4, <4>1 DEF RowStays
      <4>2. CASE RowBegins
        BY <3>1, <4>2 DEF RowBegins
      <4>3. CASE RowIsNormal
        BY <2>2, <3>1, <3>2, <3>4, <4>3 DEF RowIsNormal
      <4>4. CASE RowFalls
        BY <2>2, <3>1, <3>2, <3>4, <4>4 DEF RowFalls
      <4>5. CASE RowRisesUntold
        BY <2>2, <3>1, <3>2, <3>3, <3>4, <4>5 DEF RowRisesUntold
      <4>6. CASE RowRises
        BY <2>1, <2>2, <3>1, <3>2, <3>4, <4>6, NewsFields DEF RowRises
      <4>. QED
        BY <1>3, <4>1, <4>2, <4>3, <4>4, <4>5, <4>6, RowCases
    <3>. QED
      BY <2>1, <2>4, <3>5 DEF n
  <2>. QED
    BY <2>3, <2>4
<1>4. CASE ~Evaluate /\ cur'[g] = cur[g] /\ late'[g] = late[g] /\ dpc'[g] # "idle"
  <2>1. cur[g].user \in Users /\ dpc[g] \in {"post", "mark"}
    BY <1>4, NewsFields DEF TypeOK
  <2>2. ASSUME NEW h \in Deliverers, Mark(h) PROVE FALSE
    <3>1. dpc[h] = "mark" /\ dpc'[h] = "next" /\ cur'[h] = NoNews
      BY <2>2 DEF Mark, Delivers, Took, TypeOK
    <3>2. g = h
      BY <2>1, <3>1 DEF QueueIsServed
    <3>. QED
      BY <3>1, <3>2
  <2>. QED
    BY <1>1, <1>4, <2>1, <2>2, OtherRows
<1>. QED
  BY <1>2, <1>3, <1>4, Taker
LEMMA Poster ==
    ASSUME TypeOK, [Next]_vars, NEW g \in Deliverers, dpc'[g] \in {"post", "mark"}
    PROVE  \/ Taking(g)
           \/ cur'[g] = cur[g] /\ dpc'[g] = dpc[g]
           \/ Telling(g) /\ cur'[g] = cur[g] /\ dpc'[g] = "mark" /\ Post(g)
<1>1. CASE Run
  <2>1. UNCHANGED cur
    BY <1>1, Evaluated DEF Run, StartRun, LookUpPending, HandOver, Measure, deliveryVars
  <2>2. dpc'[g] = dpc[g]
    BY <1>1, Evaluated DEF Run, StartRun, LookUpPending, HandOver, Measure,
                           deliveryVars, TypeOK
  <2>. QED
    BY <2>1, <2>2
<1>2. ASSUME NEW h \in Deliverers, Deliver(h), h # g
      PROVE  cur'[g] = cur[g] /\ dpc'[g] = dpc[g]
  <2>1. dpc'[g] = dpc[g]
    BY <1>2 DEF Deliver, BeginPass, EndDisabled, Check, Post, AnswerLost,
                PostFails, Mark, EndPass, Delivers, TypeOK
  <2>2. cur'[g] = cur[g]
    BY <1>2 DEF Deliver, BeginPass, EndDisabled, Check, Post, AnswerLost,
                PostFails, Mark, EndPass, Took, TypeOK
  <2>. QED
    BY <2>1, <2>2
<1>3. CASE Deliver(g)
  <2>1. CASE Check(g)
    <3>1. ~Evaluate /\ cur'[g] # NoNews
      <4>1. UNCHANGED stage
        BY <2>1 DEF Check, Delivers, runVars
      <4>2. TypeOK'
        BY TypeStep
      <4>. QED
        BY <4>1, <4>2, Evaluated DEF TypeOK
    <3>2. dpc[g] = "next"
      BY <2>1 DEF Check, Delivers
    <3>3. cur[g] = NoNews
      BY <3>2 DEF TypeOK
    <3>. QED
      BY <3>1, <3>3, Taker
  <2>2. CASE Post(g)
    BY <2>2 DEF Post, Delivers, Received, Telling, TypeOK
  <2>3. CASE AnswerLost(g)
    BY <2>3 DEF AnswerLost, Delivers, TypeOK
  <2>4. CASE \/ BeginPass(g) \/ EndDisabled(g) \/ PostFails(g) \/ Mark(g)
             \/ EndPass(g)
    BY <2>4 DEF BeginPass, EndDisabled, PostFails, Mark, EndPass, Delivers, TypeOK
  <2>. QED
    BY <1>3, <2>1, <2>2, <2>3, <2>4 DEF Deliver
<1>4. CASE Admin \/ UNCHANGED vars
  BY <1>4 DEF Admin, ChangeURL, ChangeUser, vars, deliveryVars
<1>5. CASE Restart
  BY <1>5 DEF Restart
<1>. QED
  BY <1>1, <1>2, <1>3, <1>4, <1>5 DEF Next

LEMMA TellableTaken ==
    ASSUME TypeOK, KnownInv, RowInv, NEW g \in Deliverers, Taking(g)
    PROVE  Tellable(cur'[g], told[cur'[g].user])
<1> DEFINE n == cur'[g]
<1>1. n \in News /\ IsKnown(n) /\ StillPending(n)
  BY DEF Taking, TypeOK, KnownInv, InHand
<1> HIDE DEF n
<1>2. n.user \in Users /\ n.at # Never
  BY <1>1, NewsFields
<1>3. ASSUME n.event = "drop" PROVE Tellable(n, told[n.user])
  <2>1. rows[n.user] # NoRow /\ rows[n.user].alerting_since = n.at
    BY <1>1, <1>3 DEF StillPending, DropPending
  <2>2. PendingDrop(n.user) = n
    BY <1>1, <1>3, <2>1 DEF PendingDrop, IsKnown, News
  <2>3. \/ told[n.user] = n
        \/ told[n.user] = NoNews
        \/ told[n.user].at < n.at
    BY <1>2, <2>1, <2>2 DEF RowInv
  <2>. QED
    BY <1>3, <2>3 DEF Tellable
<1>4. ASSUME n.event = "recovered" PROVE Tellable(n, told[n.user])
  BY <1>1, <1>2, <1>4
     DEF StillPending, RecoveryPending, IsKnown, RowInv, Tellable
<1>. QED
  BY <1>1, <1>3, <1>4, NewsFields DEF n

LEMMA PostStep ==
    ASSUME TypeOK, QueueIsServed, KnownInv, RowInv, PostInv, [Next]_vars
    PROVE  PostInv'
<1> SUFFICES ASSUME NEW g \in Deliverers, dpc'[g] \in {"post", "mark"}
             PROVE  /\ dpc'[g] = "post" => Tellable(cur'[g], told'[cur'[g].user])
                    /\ dpc'[g] = "mark" => told'[cur'[g].user] = cur'[g]
  BY DEF PostInv
<1>1. CASE Taking(g)
  BY <1>1, TellableTaken DEF Taking
<1>2. CASE cur'[g] = cur[g] /\ dpc'[g] = dpc[g]
  <2>1. CASE UNCHANGED told
    BY <1>2, <2>1 DEF PostInv
  <2>2. ASSUME NEW h \in Deliverers, Telling(h)
        PROVE  told'[cur'[g].user] = cur'[g]
    <3>1. g = h
      BY <1>2, <2>2 DEF Telling, QueueIsServed
    <3>2. cur[g].user \in Users
      BY <2>2, <3>1, NewsFields DEF Telling
    <3>. QED
      BY <1>2, <2>2, <3>1, <3>2 DEF Telling, TypeOK
  <2>3. Tellable(cur'[g], cur'[g])
    BY DEF Tellable, Ends
  <2>. QED
    BY <2>1, <2>2, <2>3, Teller
<1>3. CASE Telling(g) /\ cur'[g] = cur[g] /\ dpc'[g] = "mark"
  <2>1. cur[g].user \in Users
    BY <1>3, NewsFields DEF Telling
  <2>. QED
    BY <1>3, <2>1 DEF Telling, TypeOK
<1>. QED
  BY <1>1, <1>2, <1>3, Poster

LEMMA EpisodeInit == Init => EpisodeInv
<1> SUFFICES ASSUME Init PROVE EpisodeInv
  OBVIOUS
<1>1. SeenInv /\ LateInv
  BY DEF Init, SeenInv, LateInv
<1>2. KnownInv
  BY NamesAssumption DEF Init, KnownInv, InHand, EmptyQueue
<1>3. ToldInv /\ RowInv
  BY DEF Init, ToldInv, RowInv
<1>4. CurInv /\ PostInv
  BY DEF Init, CurInv, PostInv
<1>. QED
  BY <1>1, <1>2, <1>3, <1>4 DEF EpisodeInv

LEMMA EpisodeStep ==
    TypeOK /\ QueueIsServed /\ EpisodeInv /\ [Next]_vars => EpisodeInv'
BY SeenStep, LateStep, KnownStep, ToldStep, RowStep, CurStep, PostStep
   DEF EpisodeInv

\* A post tells the recipient something that follows what it knows.
LEMMA FeedStep ==
    TypeOK /\ EpisodeInv /\ [Next]_vars => [Feed!Next]_told
<1> SUFFICES ASSUME TypeOK, EpisodeInv, [Next]_vars, told' # told
             PROVE  Feed!Next
  OBVIOUS
<1>1. PICK g \in Deliverers : Telling(g)
  BY Teller
<1> DEFINE n == cur[g]
<1>2. n \in News /\ n.user \in Users /\ n.event \in {"drop", "recovered"}
  BY <1>1, NewsFields DEF Telling
<1>3. told' = [told EXCEPT ![n.user] = n]
  BY <1>1 DEF Telling
<1>4. Tellable(n, told[n.user]) /\ told[n.user] # n
  <2>1. told[n.user] # n
    BY <1>2, <1>3 DEF TypeOK
  <2>. QED
    BY <1>1, <2>1 DEF Telling, EpisodeInv, PostInv
<1> HIDE DEF n
<1>5. CASE n.event = "drop"
  <2>1. Feed!TellDrop(n.user, n)
    BY <1>2, <1>3, <1>4, <1>5 DEF Tellable, Feed!TellDrop
  <2>. QED
    BY <1>2, <2>1 DEF Feed!Next
<1>6. CASE n.event = "recovered"
  <2>1. Feed!TellRecovery(n.user, n)
    BY <1>2, <1>3, <1>4, <1>6 DEF Tellable, Ends, Feed!TellRecovery
  <2>. QED
    BY <1>2, <2>1 DEF Feed!Next
<1>. QED
  BY <1>2, <1>5, <1>6

\* What the webhook is told of each user is a sequence of drops in order and
\* of recoveries from the last drop told, whatever fails and however slow the
\* deliveries are (Run, deliverLoop).
THEOREM FeedFollowed == Spec => FollowsFeed
<1>1. Init => Feed!Init
  BY DEF Init, Feed!Init
<1>. QED
  BY <1>1, TypeInit, TypeStep, QueueStep, EpisodeInit, EpisodeStep, FeedStep,
     QueueInit, PTL DEF Spec, FollowsFeed, Feed!Spec

----------------------------------------------------------------------------
(* No flapping *)

Line(baseline, percent) == (baseline * (100 - percent)) \div 100

LEMMA LineType ==
    ASSUME NEW b \in Nat, NEW t \in 1..99 PROVE Line(b, t) \in Int
<1>1. b * (100 - t) \in Int
  OBVIOUS
<1>. QED
  BY <1>1 DEF Line

LEMMA LowKept ==
    ASSUME TypeOK, [Next]_vars, ~Evaluate
    PROVE  UNCHANGED low
<1>1. CASE Run
  BY <1>1 DEF Run, StartRun, LookUpPending, HandOver, Measure
<1>2. ASSUME NEW g \in Deliverers, Deliver(g) PROVE UNCHANGED low
  BY <1>2 DEF Deliver, BeginPass, EndDisabled, Check, Post, AnswerLost,
              PostFails, Mark, EndPass, Delivers
<1>3. CASE Admin \/ Restart \/ UNCHANGED vars
  BY <1>3 DEF Admin, ChangeURL, ChangeUser, Restart, vars
<1>. QED
  BY <1>1, <1>2, <1>3 DEF Next

\* Outside evaluations episodes neither begin nor end.
LEMMA EpisodeKept ==
    ASSUME TypeOK, [Next]_vars, NEW u \in Users, ~(Evaluate /\ u = user),
           rows'[u] # NoRow
    PROVE  /\ rows[u] # NoRow
           /\ rows'[u].alerting_since = rows[u].alerting_since
           /\ rows'[u].baseline = rows[u].baseline
<1>1. ASSUME NEW g \in Deliverers, Mark(g)
      PROVE  /\ rows[u] # NoRow
             /\ rows'[u].alerting_since = rows[u].alerting_since
             /\ rows'[u].baseline = rows[u].baseline
  BY <1>1, Marking
<1>. QED
  BY <1>1, OtherRows, Evaluated

LEMMA LowStep ==
    ASSUME TypeOK, SeenInv, LowInv, [Next]_vars
    PROVE  LowInv'
<1> SUFFICES ASSUME NEW u \in Users, rows'[u] # NoRow,
                    rows'[u].alerting_since # Never
             PROVE  /\ low'[u] \in [count : Counts, threshold : Thresholds]
                    /\ low'[u].count <=
                           Line(rows'[u].baseline, low'[u].threshold)
  BY DEF LowInv, Line
<1>1. rows[u] # NoRow /\ rows[u].alerting_since # Never =>
          /\ low[u] \in [count : Counts, threshold : Thresholds]
          /\ low[u].count <= Line(rows[u].baseline, low[u].threshold)
  BY DEF LowInv, Line
<1>2. CASE Evaluate /\ u = user
  <2>1. CASE RowStays
    BY <1>1, <2>1 DEF RowStays
  <2>2. CASE RowFalls
    <3>1. low'[u] = [count |-> count, threshold |-> threshold]
      BY <1>2, <2>2 DEF RowFalls, TypeOK
    <3>2. /\ low'[u].count = count /\ low'[u].threshold = threshold
          /\ rows'[u].baseline = seen.baseline
          /\ count <= Line(seen.baseline, threshold)
      BY <1>2, <2>2, <3>1 DEF RowFalls, DropLine, Line
    <3>3. count \in Counts /\ threshold \in Thresholds
      BY <1>2, Evaluated, SeenType DEF TypeOK
    <3>. QED
      BY <3>1, <3>2, <3>3
  <2>3. CASE RowBegins \/ RowIsNormal \/ RowRisesUntold \/ RowRises
    BY <1>2, <2>3 DEF RowBegins, RowIsNormal, RowRisesUntold, RowRises
  <2>. QED
    BY <1>2, <2>1, <2>2, <2>3, RowCases
<1>3. CASE ~(Evaluate /\ u = user)
  <2>1. low'[u] = low[u]
    <3>1. CASE Evaluate
      BY <1>3, <3>1, RowCases
         DEF RowStays, RowBegins, RowIsNormal, RowFalls, RowRisesUntold,
             RowRises, TypeOK
    <3>. QED
      BY <3>1, LowKept
  <2>. QED
    BY <1>1, <1>3, <2>1, EpisodeKept
<1>. QED
  BY <1>2, <1>3

LEMMA FlapStep ==
    TypeOK /\ SeenInv /\ LowInv /\ [Next]_vars =>
        [\A u \in Users :
          /\ rows[u] # NoRow /\ rows'[u] # NoRow
          /\ rows[u].alerting_since # Never
          /\ rows'[u].alerting_since = Never
          /\ low[u].threshold = threshold
          => count > low[u].count]_vars
<1> SUFFICES ASSUME TypeOK, SeenInv, LowInv, [Next]_vars, NEW u \in Users,
                    rows[u] # NoRow, rows'[u] # NoRow,
                    rows[u].alerting_since # Never,
                    rows'[u].alerting_since = Never,
                    low[u].threshold = threshold
             PROVE  count > low[u].count
  OBVIOUS
<1>1. Evaluate /\ u = user
  BY EpisodeKept
<1>2. Rises(seen, count) /\ rows[u].baseline = seen.baseline
  BY <1>1, RowCases
     DEF RowStays, RowBegins, RowIsNormal, RowFalls, RowRisesUntold, RowRises
<1>3. low[u].count <= Line(seen.baseline, threshold)
  BY <1>2 DEF LowInv, Line
<1>4. count > Line(seen.baseline, threshold)
  BY <1>2 DEF Rises, DropLine, Line
<1>5. Line(seen.baseline, threshold) \in Int /\ count \in Nat
  <2>1. rows[u] \in Row
    BY DEF TypeOK
  <2>2. rows[u].baseline \in Nat
    BY <2>1, AlertsAssumption DEF Row
  <2>3. threshold \in 1..99 /\ count \in Nat
    BY <1>1, Evaluated, SeenType, AlertsAssumption DEF TypeOK
  <2>. QED
    BY <1>2, <2>2, <2>3, LineType
<1>6. low[u].count \in Int
  <2>1. low[u] \in [count : Counts, threshold : Thresholds]
    BY DEF LowInv
  <2>2. low[u].count \in Counts
    BY <2>1
  <2>3. low[u].count \in Nat
    BY <2>2, AlertsAssumption
  <2>. QED
    BY <2>3
<1>. QED
  BY <1>3, <1>4, <1>5, <1>6

\* A drop does not end at a count as low as the one it began with, under the
\* same threshold (EvaluateUserPrefixAlert).
THEOREM DropsDoNotFlap == Spec => NoFlapping
<1>1. Init => LowInv
  BY DEF Init, LowInv
<1>2. TypeOK /\ EpisodeInv /\ LowInv /\ [Next]_vars => LowInv'
  BY LowStep DEF EpisodeInv
<1>3. TypeOK /\ EpisodeInv /\ LowInv /\ [Next]_vars =>
        [\A u \in Users :
          /\ rows[u] # NoRow /\ rows'[u] # NoRow
          /\ rows[u].alerting_since # Never
          /\ rows'[u].alerting_since = Never
          /\ low[u].threshold = threshold
          => count > low[u].count]_vars
  BY FlapStep DEF EpisodeInv
<1>. QED
  BY <1>1, <1>2, <1>3, TypeInit, TypeStep, QueueInit, QueueStep, EpisodeInit,
     EpisodeStep, PTL DEF Spec, NoFlapping

----------------------------------------------------------------------------
(* Nothing is told twice *)

LEMMA FaultStep ==
    ASSUME TypeOK, [Next]_vars, faults' = 0
    PROVE  faults = 0
<1>1. faults \in Nat
  BY AlertsAssumption DEF TypeOK
<1>2. NoFault \/ Fault \/ UNCHANGED faults
  <2>1. CASE Run
    BY <2>1
       DEF Run, StartRun, Measure, LookUpPending, HandOver, Evaluate,
           FirstMeasured, StaysNormal, DropBegins, StaysDown, RecoversUntold,
           Recovers, NotEvaluated
  <2>2. ASSUME NEW g \in Deliverers, Deliver(g)
        PROVE  NoFault \/ Fault \/ UNCHANGED faults
    BY <2>2 DEF Deliver, BeginPass, EndDisabled, Check, Post, AnswerLost,
                PostFails, Mark, EndPass
  <2>3. CASE Admin \/ Restart \/ UNCHANGED vars
    BY <2>3 DEF Admin, ChangeURL, ChangeUser, Restart, vars
  <2>. QED
    BY <2>1, <2>2, <2>3 DEF Next
<1>. QED
  BY <1>1, <1>2 DEF Fault, NoFault
\* Without failures only a post that is followed by its mark tells.
LEMMA TellerOnce ==
    ASSUME TypeOK, [Next]_vars, faults' = 0
    PROVE  UNCHANGED told \/ \E g \in Deliverers : Post(g)
<1>1. ASSUME NEW g \in Deliverers, AnswerLost(g) PROVE FALSE
  <2>1. faults \in Nat
    BY AlertsAssumption DEF TypeOK
  <2>. QED
    BY <1>1, <2>1 DEF AnswerLost, Fault
<1>2. ASSUME NEW g \in Deliverers, Deliver(g), ~Post(g), ~AnswerLost(g)
      PROVE  UNCHANGED told
  BY <1>2 DEF Deliver, BeginPass, EndDisabled, Check, PostFails, Mark, EndPass
<1>3. CASE Run
  BY <1>3, Evaluated DEF Run, StartRun, LookUpPending, HandOver, Measure
<1>4. CASE Admin \/ Restart \/ UNCHANGED vars
  BY <1>4 DEF Admin, ChangeURL, ChangeUser, Restart, vars
<1>. QED
  BY <1>1, <1>2, <1>3, <1>4 DEF Next

\* A goroutine that is to mark goes on to do so.
LEMMA Marker ==
    ASSUME TypeOK, [Next]_vars, faults' = 0, NEW g \in Deliverers,
           dpc[g] = "mark", ~Mark(g)
    PROVE  dpc'[g] = "mark" /\ cur'[g] = cur[g]
<1>1. CASE Run
  <2>1. UNCHANGED cur
    BY <1>1, Evaluated DEF Run, StartRun, LookUpPending, HandOver, Measure, deliveryVars
  <2>2. dpc'[g] = dpc[g]
    BY <1>1, Evaluated DEF Run, StartRun, LookUpPending, HandOver, Measure,
                           deliveryVars, TypeOK
  <2>. QED
    BY <2>1, <2>2
<1>2. ASSUME NEW h \in Deliverers, Deliver(h), h # g
      PROVE  cur'[g] = cur[g] /\ dpc'[g] = dpc[g]
  <2>1. dpc'[g] = dpc[g]
    BY <1>2 DEF Deliver, BeginPass, EndDisabled, Check, Post, AnswerLost,
                PostFails, Mark, EndPass, Delivers, TypeOK
  <2>2. cur'[g] = cur[g]
    BY <1>2 DEF Deliver, BeginPass, EndDisabled, Check, Post, AnswerLost,
                PostFails, Mark, EndPass, Took, TypeOK
  <2>. QED
    BY <2>1, <2>2
<1>3. ~Deliver(g)
  BY DEF Deliver, BeginPass, EndDisabled, Check, Post, AnswerLost, PostFails,
         EndPass, Delivers
<1>4. CASE Admin \/ UNCHANGED vars
  BY <1>4 DEF Admin, ChangeURL, ChangeUser, vars, deliveryVars
<1>5. ~Restart
  <2>1. faults \in Nat
    BY AlertsAssumption DEF TypeOK
  <2>. QED
    BY <2>1 DEF Restart, Fault
<1>. QED
  BY <1>1, <1>2, <1>3, <1>4, <1>5 DEF Next

LEMMA UntoldEvaluated ==
    ASSUME TypeOK, EpisodeInv, Evaluate, NEW u \in Users, u = user, Untold(u)
    PROVE  Untold(u)'
<1>1. told'[u] = told[u] /\ clock \in Nat
  BY Evaluated, AlertsAssumption DEF TypeOK
<1>2. told[u] # NoNews => told[u].at <= clock /\ told[u].at \in Nat
  BY NewsFields DEF EpisodeInv, ToldInv, TypeOK
<1>3. SeenInv
  BY DEF EpisodeInv
<1>4. CASE RowStays
  BY <1>1, <1>4 DEF RowStays, Untold, DropPending, RecoveryPending, PendingDrop
<1>5. CASE RowBegins \/ RowIsNormal \/ RowRisesUntold
  BY <1>1, <1>5
     DEF RowBegins, RowIsNormal, RowRisesUntold, Untold, DropPending,
         RecoveryPending
<1>6. CASE RowFalls
  <2>1. ASSUME DropPending(u)' PROVE told[u] # PendingDrop(u)'
    <3>1. PendingDrop(u)'.at = clock + 1
      BY <1>6, <2>1 DEF RowFalls, PendingDrop, DropPending
    <3>2. PendingDrop(u)' # NoNews
      <4>1. TypeOK'
        BY TypeStep DEF Next, Run
      <4>2. PendingDrop(u)' \in News
        BY <2>1, <4>1, PendingTypeNext
      <4>. QED
        BY <4>2, NamesAssumption
    <3>. QED
      BY <1>1, <1>2, <3>1, <3>2
  <2>. QED
    BY <1>1, <1>6, <2>1 DEF RowFalls, Untold, RecoveryPending
<1>7. CASE RowRises
  <2>1. Recovery.at = clock + 1
    BY DEF Recovery
  <2>2. RecoveryPending(u)' => told[u] # rows'[u].recovery
    BY <1>1, <1>2, <1>7, <2>1 DEF RowRises, RecoveryPending
  <2>. QED
    BY <1>1, <1>7, <2>2 DEF RowRises, Untold, DropPending
<1>. QED
  BY <1>3, <1>4, <1>5, <1>6, <1>7, RowCases

LEMMA UntoldMarked ==
    ASSUME TypeOK, EpisodeInv, NEW g \in Deliverers, Mark(g), faults' = 0,
           NEW u \in Users, u = cur[g].user
    PROVE  Untold(u)'
<1> DEFINE n == cur[g]
<1>1. /\ n \in News /\ n # NoNews /\ dpc[g] = "mark"
      /\ n.event \in {"drop", "recovered"}
  BY Marking, NewsFields, NamesAssumption
<1>2. told' = told /\ told[u] = n
  BY <1>1 DEF Mark, EpisodeInv, PostInv
<1>3. rows' = Marked(n)
  <2>1. faults \in Nat
    BY AlertsAssumption DEF TypeOK
  <2>. QED
    BY <2>1 DEF Mark, Fault
<1>4. CASE rows[u] = NoRow
  BY <1>3, <1>4 DEF Marked, Untold, DropPending, RecoveryPending
<1>5. CASE rows[u] # NoRow
  <2>1. rows[u] \in Row
    BY <1>5 DEF TypeOK
  <2>2. CASE n.event = "drop"
    <3>1. rows'[u] = [rows[u] EXCEPT !.drop_delivered = TRUE]
      BY <1>3, <1>5, <2>2 DEF Marked, TypeOK
    <3>2. rows'[u].drop_delivered /\ rows'[u].recovery = rows[u].recovery
      BY <2>1, <3>1 DEF Row
    <3>3. rows[u].recovery = NoNews
      BY <1>1, <1>5, <2>2, NewsFields DEF EpisodeInv, CurInv, RowInv
    <3>. QED
      BY <3>2, <3>3 DEF Untold, DropPending, RecoveryPending
  <2>3. CASE n.event = "recovered"
    <3>1. rows'[u] = [rows[u] EXCEPT !.recovery = NoNews]
      BY <1>3, <1>5, <2>3 DEF Marked, TypeOK
    <3>2. rows'[u].recovery = NoNews
      BY <2>1, <3>1 DEF Row
    <3>3. PendingDrop(u)'.event = "drop"
      BY DEF PendingDrop
    <3>. QED
      BY <1>2, <2>3, <3>2, <3>3 DEF Untold, RecoveryPending
  <2>. QED
    BY <1>1, <2>2, <2>3
<1>. QED
  BY <1>4, <1>5

LEMMA OnceStep ==
    ASSUME TypeOK, QueueIsServed, EpisodeInv, OnceInv, [Next]_vars
    PROVE  OnceInv'
<1> SUFFICES ASSUME faults' = 0 PROVE OnceInv'
  BY DEF OnceInv
<1>1. /\ \A u \in Users : Unmarked(u) => Untold(u)
      /\ \A g \in Deliverers : dpc[g] = "post" => told[cur[g].user] # cur[g]
  BY FaultStep DEF OnceInv
<1>2. ASSUME NEW u \in Users, Unmarked(u)' PROVE Untold(u)'
  <2>1. CASE \E g \in Deliverers : Mark(g) /\ cur[g].user = u
    BY <2>1, UntoldMarked
  <2>2. CASE ~\E g \in Deliverers : Mark(g) /\ cur[g].user = u
    <3>1. Unmarked(u)
      BY <1>2, <2>2, Marker DEF Unmarked
    <3>2. Untold(u)
      BY <1>1, <3>1
    <3>3. CASE Evaluate /\ u = user
      BY <3>2, <3>3, UntoldEvaluated
    <3>4. CASE ~(Evaluate /\ u = user)
      <4>1. rows'[u] = rows[u] \/ rows'[u] = NoRow
        BY <2>2, <3>4, Evaluated, Marking, OtherRows
      <4>2. told'[u] = told[u]
        <5>1. ASSUME NEW g \in Deliverers, Post(g) PROVE told'[u] = told[u]
          <6>1. dpc'[g] = "mark" /\ cur'[g] = cur[g]
            BY <5>1 DEF Post, Delivers, TypeOK
          <6>2. cur[g].user # u
            BY <1>2, <6>1 DEF Unmarked
          <6>. QED
            BY <5>1, <6>2 DEF Post, Received, TypeOK
        <5>. QED
          BY <5>1, TellerOnce
      <4>. QED
        BY <3>2, <4>1, <4>2 DEF Untold, DropPending, RecoveryPending, PendingDrop
    <3>. QED
      BY <3>3, <3>4
  <2>. QED
    BY <2>1, <2>2
<1>3. ASSUME NEW g \in Deliverers, dpc'[g] = "post"
      PROVE  told'[cur'[g].user] # cur'[g]
  <2>1. CASE Taking(g)
    <3> DEFINE n == cur'[g]
    <3>1. n \in News /\ IsKnown(n) /\ StillPending(n) /\ told' = told
      BY <2>1 DEF Taking, TypeOK, EpisodeInv, KnownInv, InHand
    <3>2. \A h \in Deliverers : dpc[h] # "mark"
      BY <2>1 DEF Taking, QueueIsServed
    <3> HIDE DEF n
    <3>3. n.user \in Users /\ n.event \in {"drop", "recovered"}
      BY <3>1, NewsFields
    <3>4. Untold(n.user)
      BY <1>1, <3>2, <3>3 DEF Unmarked
    <3>5. ASSUME n.event = "drop" PROVE told[n.user] # n
      <4>1. DropPending(n.user) /\ rows[n.user].alerting_since = n.at
        BY <3>1, <3>5 DEF StillPending
      <4>2. PendingDrop(n.user) = n
        BY <3>1, <3>5, <4>1 DEF PendingDrop, DropPending, IsKnown, News
      <4>. QED
        BY <3>4, <4>1, <4>2 DEF Untold
    <3>6. ASSUME n.event = "recovered" PROVE told[n.user] # n
      BY <3>1, <3>4, <3>6 DEF StillPending, IsKnown, Untold
    <3>7. told[n.user] # n
      BY <3>3, <3>5, <3>6
    <3>. QED
      BY <3>1, <3>7 DEF n
  <2>2. CASE cur'[g] = cur[g] /\ dpc'[g] = dpc[g]
    <3>1. ASSUME NEW h \in Deliverers, Post(h) PROVE FALSE
      <4>1. dpc[h] = "post" /\ dpc'[h] = "mark"
        BY <3>1 DEF Post, Delivers, TypeOK
      <4>2. g = h
        BY <1>3, <2>2, <4>1 DEF QueueIsServed
      <4>. QED
        BY <1>3, <4>1, <4>2
    <3>2. told' = told
      BY <3>1, TellerOnce
    <3>. QED
      BY <1>1, <1>3, <2>2, <3>2
  <2>. QED
    BY <1>3, <2>1, <2>2, Poster
<1>. QED
  BY <1>2, <1>3 DEF OnceInv

LEMMA OncePost ==
    ASSUME TypeOK, OnceInv, [Next]_vars,
           NEW g \in Deliverers, faults' = 0, dpc[g] = "post", dpc'[g] = "mark"
    PROVE  told'[cur[g].user] # told[cur[g].user]
<1>1. Telling(g)
  BY Poster DEF Taking
<1>2. cur[g].user \in Users
  BY <1>1, NewsFields DEF Telling
<1>3. told[cur[g].user] # cur[g]
  BY FaultStep DEF OnceInv
<1>. QED
  BY <1>1, <1>2, <1>3 DEF Telling, TypeOK

\* While nothing fails no post repeats what the webhook was last told of the
\* user, whatever ticks find and queue meanwhile (deliverLoop).
THEOREM NothingToldTwice == Spec => ToldOnce
<1>1. Init => OnceInv
  BY DEF Init, OnceInv, Untold, DropPending, RecoveryPending
<1>2. TypeOK /\ QueueIsServed /\ EpisodeInv /\ OnceInv /\ [Next]_vars => OnceInv'
  BY OnceStep
<1>3. TypeOK /\ OnceInv /\ [Next]_vars =>
        [\A g \in Deliverers :
          faults' = 0 /\ dpc[g] = "post" /\ dpc'[g] = "mark" =>
              told'[cur[g].user] # told[cur[g].user]]_vars
  BY OncePost
<1>. QED
  BY <1>1, <1>2, <1>3, TypeInit, TypeStep, QueueInit, QueueStep, EpisodeInit,
     EpisodeStep, PTL DEF Spec, ToldOnce

=============================================================================
