---------------------------- MODULE PrefixAlerts ----------------------------
(***************************************************************************)
(* Alerts about users who lose their prefixes (alerts.Checker and its      *)
(* state in the store).                                                    *)
(*                                                                         *)
(* A tick measures each enabled user and keeps its episodes in the         *)
(* database: when a drop began, whether it was delivered, a recovery that  *)
(* is pending.  What there is to tell goes to a goroutine that posts it,   *)
(* which is slow, fails, and looks at the database again before and after. *)
(* Ticks go on meanwhile, and add to the goroutine's queue.                *)
(*                                                                         *)
(* Time is what the recorded timestamps tell apart: the clock advances     *)
(* when one is taken.  Two timestamps are never equal, since a user is     *)
(* measured every five minutes (prefixAlertInterval).  For the same reason *)
(* a user is measured at most once while one of its posts is under way:    *)
(* three attempts, the delays between them included, take under a minute.  *)
(*                                                                         *)
(* An operator that no action uses, placed before one of the same shape,   *)
(* is a wrong version of it: it is there to show which properties notice.  *)
(***************************************************************************)
EXTENDS Naturals, FiniteSets

CONSTANTS
    Users,
    UserStates,  \* bound: what may become of a user, within "on" "off" "gone"
    Counts,      \* numbers of prefixes
    Thresholds,  \* values of alert_prefix_drop_threshold_percent
    Minimum,     \* alert_prefix_baseline_minimum
    Deliverers,  \* goroutines that may run deliverLoop
    NoNews,      \* "no notification"
    NoRow,       \* "no row", and no user in hand
    MaxClock,    \* bound: timestamps taken
    MaxFaults    \* bound: failures of the database, the webhook, the process

ASSUME AlertsAssumption ==
    /\ UserStates \subseteq {"on", "off", "gone"}
    /\ Counts \subseteq Nat
    /\ Thresholds \subseteq 1..99
    /\ Minimum \in Nat
    /\ MaxClock \in Nat
    /\ MaxFaults \in Nat

Times == 1..MaxClock
\* A notification: base is the count before the drop and since when it began.
News == [user : Users, event : {"drop", "recovered"}, at : Times,
         base : Counts, since : Times]
Never == 0

ASSUME NamesAssumption == NoNews \notin News /\ NoRow \notin Users

VARIABLES
    users,      \* each user is "on" (enabled), "off", or "gone"
    url,        \* whether alert_webhook_url is set
    rows,       \* user_prefix_alert_state
    clock,
    stage,      \* where Run is
    todo,       \* the users it has still to measure
    hasUrl,     \* its webhookURL # ""
    threshold,  \* its threshold
    user,       \* the user it is measuring,
    count,      \* the count it found,
    seen,       \* and the row EvaluateUserPrefixAlert read
    found,      \* its deliveries
    delivering, \* Checker.delivering
    queued,     \* Checker.queued, for each user
    dpc,        \* where each delivering goroutine is
    batch,      \* what it has still to deliver
    cur,        \* what it is delivering
    late,       \* whether the user was measured since it began to
    told,       \* what the webhook was last told about each user
    low,        \* history: the count and the threshold of the last drop
    faults

adminVars == <<users, url>>
runVars == <<stage, todo, hasUrl, threshold, user, count, seen, found>>
queueVars == <<delivering, queued>>
deliveryVars == <<dpc, batch, cur, late>>
vars == <<adminVars, rows, clock, runVars, queueVars, deliveryVars, told, low,
          faults>>

Row == [baseline : Counts, alerting_since : Times \cup {Never},
        drop_delivered : BOOLEAN, recovery : News \cup {NoNews}]
EmptyQueue == [u \in Users |-> NoNews]

Init ==
    /\ users \in [Users -> UserStates]
    /\ url \in BOOLEAN
    /\ rows = [u \in Users |-> NoRow]
    /\ clock = 0
    /\ stage = "idle"
    /\ todo = {}
    /\ hasUrl = FALSE
    /\ threshold \in Thresholds
    /\ user = NoRow
    /\ count = 0
    /\ seen = NoRow
    /\ found = {}
    /\ delivering = FALSE
    /\ queued = EmptyQueue
    /\ dpc = [g \in Deliverers |-> "idle"]
    /\ batch = [g \in Deliverers |-> {}]
    /\ cur = [g \in Deliverers |-> NoNews]
    /\ late = [g \in Deliverers |-> FALSE]
    /\ told = [u \in Users |-> NoNews]
    /\ low = [u \in Users |-> NoRow]
    /\ faults = 0

Fault == faults < MaxFaults /\ faults' = faults + 1
NoFault == UNCHANGED faults

----------------------------------------------------------------------------
(* A tick: Checker.Run and EvaluateUserPrefixAlert *)

StartRun ==
    /\ stage = "idle"
    /\ stage' = "users"
    /\ todo' = {u \in Users : users[u] = "on"}
    /\ hasUrl' = url
    /\ threshold' \in Thresholds
    /\ UNCHANGED <<adminVars, rows, clock, user, count, seen, found, queueVars,
                   deliveryVars, told, low, faults>>

\* A post for u is under way, and u was measured since it began.
Waiting(u) == \E g \in Deliverers : cur[g] # NoNews /\ cur[g].user = u /\ late[g]

DropLine(r) == (r.baseline * (100 - threshold)) \div 100
Falls(r, n) ==
    /\ r.alerting_since = Never
    /\ r.baseline > 0
    /\ r.baseline >= Minimum
    /\ n <= DropLine(r)
Rises(r, n) == r.alerting_since # Never /\ n > DropLine(r)

\* The user's prefixes are counted and its row is read.  (When MaxClock leaves
\* no timestamp, no count is measured that asks for one.)
Measure(u) ==
    /\ stage = "users"
    /\ u \in todo
    /\ ~Waiting(u)
    /\ todo' = todo \ {u}
    /\ \/ \E n \in Counts :
              /\ clock = MaxClock /\ rows[u] # NoRow =>
                     /\ ~Falls(rows[u], n)
                     /\ Rises(rows[u], n) => ~rows[u].drop_delivered
              /\ stage' = "evaluate"
              /\ user' = u
              /\ count' = n
              /\ seen' = rows[u]
              /\ NoFault
       \/ /\ Fault
          /\ UNCHANGED <<stage, user, count, seen>>
    /\ UNCHANGED <<adminVars, rows, clock, hasUrl, threshold, found, queueVars,
                   deliveryVars, told, low>>

Drop == [user |-> user, event |-> "drop", at |-> clock + 1,
         base |-> seen.baseline, since |-> clock + 1]
Recovery == [user |-> user, event |-> "recovered", at |-> clock + 1,
             base |-> seen.baseline, since |-> seen.alerting_since]

\* An UPDATE of the user's row, which may be gone with the user.
Write(r) == rows' = IF rows[user] = NoRow THEN rows
                    ELSE [rows EXCEPT ![user] = r]
Timestamp == clock < MaxClock /\ clock' = clock + 1

\* Going on to the next user, with n to deliver if there is a webhook.
Tell(n) ==
    /\ found' = IF hasUrl THEN found \cup {n} ELSE found
    /\ stage' = "users"
    /\ user' = NoRow
\* Nothing new: an earlier notification may be pending.
TellNothing ==
    /\ IF hasUrl THEN stage' = "pending" /\ UNCHANGED user
                 ELSE stage' = "users" /\ user' = NoRow
    /\ UNCHANGED found
Measured ==
    /\ count' = 0
    /\ seen' = NoRow
    /\ late' = [g \in Deliverers |->
                  late[g] \/ (cur[g] # NoNews /\ cur[g].user = user)]
    /\ UNCHANGED <<adminVars, todo, hasUrl, threshold, queueVars, dpc, batch,
                   cur, told>>

\* The first observation; the row of a user that is gone is refused.
FirstMeasured ==
    /\ stage = "evaluate"
    /\ seen = NoRow
    /\ IF users[user] = "gone"
       THEN UNCHANGED <<rows, found>> /\ stage' = "users" /\ user' = NoRow
       ELSE /\ rows' = [rows EXCEPT ![user] =
                  [baseline |-> count, alerting_since |-> Never,
                   drop_delivered |-> TRUE, recovery |-> NoNews]]
            /\ TellNothing
    /\ Measured
    /\ UNCHANGED <<clock, low, faults>>

StaysNormal ==
    /\ stage = "evaluate"
    /\ seen # NoRow
    /\ seen.alerting_since = Never
    /\ ~Falls(seen, count)
    /\ Write([rows[user] EXCEPT !.baseline = count])
    /\ TellNothing
    /\ Measured
    /\ UNCHANGED <<clock, low, faults>>

\* A drop supersedes a recovery that is pending.
DropBegins ==
    /\ stage = "evaluate"
    /\ seen # NoRow
    /\ Falls(seen, count)
    /\ Timestamp
    /\ Write([rows[user] EXCEPT !.alerting_since = clock + 1,
                                !.drop_delivered = FALSE,
                                !.recovery = NoNews])
    /\ low' = [low EXCEPT ![user] = [count |-> count, threshold |-> threshold]]
    /\ Tell(Drop)
    /\ Measured
    /\ NoFault

StaysDown ==
    /\ stage = "evaluate"
    /\ seen # NoRow
    /\ seen.alerting_since # Never
    /\ ~Rises(seen, count)
    /\ TellNothing
    /\ Measured
    /\ UNCHANGED <<rows, clock, low, faults>>

\* A recovery from a drop that was not delivered is not told either.
AlwaysTold == TRUE
WasDelivered == seen.drop_delivered

RecoversUntold ==
    /\ stage = "evaluate"
    /\ seen # NoRow
    /\ Rises(seen, count)
    /\ ~WasDelivered
    /\ Write([rows[user] EXCEPT !.baseline = count,
                                !.alerting_since = Never,
                                !.drop_delivered = TRUE])
    /\ TellNothing
    /\ Measured
    /\ UNCHANGED <<clock, low, faults>>

Recovers ==
    /\ stage = "evaluate"
    /\ seen # NoRow
    /\ Rises(seen, count)
    /\ WasDelivered
    /\ Timestamp
    /\ Write([rows[user] EXCEPT !.baseline = count,
                                !.alerting_since = Never,
                                !.drop_delivered = TRUE,
                                !.recovery = Recovery])
    /\ Tell(Recovery)
    /\ Measured
    /\ UNCHANGED low
    /\ NoFault

\* The database refuses the statement; the next user is measured.
NotEvaluated ==
    /\ stage = "evaluate"
    /\ Fault
    /\ stage' = "users"
    /\ user' = NoRow
    /\ Measured
    /\ UNCHANGED <<rows, clock, found, low>>

\* PendingPrefixAlertDrop, PendingPrefixAlertRecovery.  Only deliveries run
\* between the two, and they only make less pending.
DropPending(u) == /\ rows[u] # NoRow
                  /\ rows[u].alerting_since # Never
                  /\ ~rows[u].drop_delivered
PendingDrop(u) == [user |-> u, event |-> "drop", at |-> rows[u].alerting_since,
                   base |-> rows[u].baseline, since |-> rows[u].alerting_since]
RecoveryPending(u) == rows[u] # NoRow /\ rows[u].recovery # NoNews
OnlyDropPending(u) == IF DropPending(u) THEN {PendingDrop(u)} ELSE {}
Pending(u) ==
    IF DropPending(u) THEN {PendingDrop(u)}
    ELSE IF RecoveryPending(u) THEN {rows[u].recovery}
    ELSE {}

LookUpPending ==
    /\ stage = "pending"
    /\ \/ found' = found \cup Pending(user) /\ NoFault
       \/ UNCHANGED found /\ Fault
    /\ stage' = "users"
    /\ user' = NoRow
    /\ UNCHANGED <<adminVars, rows, clock, todo, hasUrl, threshold, count, seen,
                   queueVars, deliveryVars, told, low>>

\* The end of Run, under deliveringMu.
QueueMerged == [u \in Users |->
    IF \E n \in found : n.user = u THEN CHOOSE n \in found : n.user = u
    ELSE queued[u]]
DeliveryIgnored == FALSE
DeliveryUnderWay == delivering

HandOver ==
    /\ stage = "users"
    /\ todo = {}
    /\ stage' = "idle"
    /\ found' = {}
    /\ \/ /\ found = {}
          /\ UNCHANGED <<queueVars, deliveryVars>>
       \/ /\ found # {}
          /\ DeliveryUnderWay
          /\ queued' = QueueMerged
          /\ UNCHANGED <<delivering, deliveryVars>>
       \/ /\ found # {}
          /\ ~DeliveryUnderWay
          /\ delivering' = TRUE
          /\ \E g \in Deliverers :
                 /\ dpc[g] = "idle"
                 /\ dpc' = [dpc EXCEPT ![g] = "pass"]
                 /\ batch' = [batch EXCEPT ![g] = found]
          /\ UNCHANGED <<queued, cur, late>>
    /\ UNCHANGED <<adminVars, rows, clock, todo, hasUrl, threshold, user, count,
                   seen, told, low, faults>>

----------------------------------------------------------------------------
(* Delivery: Checker.deliverLoop *)

Delivers(g, from, to) ==
    /\ dpc[g] = from
    /\ dpc' = [dpc EXCEPT ![g] = to]
    /\ UNCHANGED <<adminVars, clock, runVars, low>>
Took(g, n) ==
    /\ cur' = [cur EXCEPT ![g] = n]
    /\ late' = [late EXCEPT ![g] = FALSE]

BeginPass(g) ==
    /\ Delivers(g, "pass", IF url THEN "next" ELSE "disabled")
    /\ UNCHANGED <<rows, queueVars, batch, cur, late, told, faults>>

\* Without a webhook nothing is delivered; the database knows what is pending.
EndDisabled(g) ==
    /\ Delivers(g, "disabled", "idle")
    /\ delivering' = FALSE
    /\ queued' = EmptyQueue
    /\ batch' = [batch EXCEPT ![g] = {}]
    /\ UNCHANGED <<rows, cur, late, told, faults>>

AnyPending(n) == TRUE
\* PrefixAlertDropStillPending, PrefixAlertRecoveryStillPending.
StillPending(n) ==
    IF n.event = "drop"
    THEN DropPending(n.user) /\ rows[n.user].alerting_since = n.at
    ELSE RecoveryPending(n.user) /\ rows[n.user].recovery.at = n.at

Check(g) == \E n \in batch[g] :
    /\ batch' = [batch EXCEPT ![g] = @ \ {n}]
    /\ \/ /\ StillPending(n)
          /\ Delivers(g, "next", "post")
          /\ Took(g, n)
          /\ NoFault
       \/ /\ IF StillPending(n) THEN Fault ELSE NoFault
          /\ Delivers(g, "next", "next")
          /\ UNCHANGED <<cur, late>>
    /\ UNCHANGED <<rows, queueVars, told>>

Received(n) == told' = [told EXCEPT ![n.user] = n]

Post(g) ==
    /\ Delivers(g, "post", "mark")
    /\ Received(cur[g])
    /\ UNCHANGED <<rows, queueVars, batch, cur, late, faults>>
\* The webhook was told but its answer is lost: another attempt, or none.
AnswerLost(g) ==
    /\ Fault
    /\ dpc[g] = "post"
    /\ Received(cur[g])
    /\ \/ Delivers(g, "post", "post") /\ UNCHANGED <<cur, late>>
       \/ Delivers(g, "post", "next") /\ Took(g, NoNews)
    /\ UNCHANGED <<rows, queueVars, batch>>
PostFails(g) ==
    /\ Fault
    /\ Delivers(g, "post", "next")
    /\ Took(g, NoNews)
    /\ UNCHANGED <<rows, queueVars, batch, told>>

\* MarkPrefixAlertDropDelivered, MarkPrefixAlertRecoveryDelivered.
Marked(n) ==
    IF rows[n.user] = NoRow THEN rows
    ELSE IF n.event = "drop" THEN [rows EXCEPT ![n.user].drop_delivered = TRUE]
    ELSE [rows EXCEPT ![n.user].recovery = NoNews]

Mark(g) ==
    /\ Delivers(g, "mark", "next")
    /\ \/ rows' = Marked(cur[g]) /\ NoFault
       \/ UNCHANGED rows /\ Fault
    /\ Took(g, NoNews)
    /\ UNCHANGED <<queueVars, batch, told>>

\* The end of a pass, under deliveringMu.
EndPass(g) ==
    /\ batch[g] = {}
    /\ \/ /\ queued = EmptyQueue
          /\ Delivers(g, "next", "idle")
          /\ delivering' = FALSE
          /\ UNCHANGED <<queued, batch>>
       \/ /\ queued # EmptyQueue
          /\ Delivers(g, "next", "pass")
          /\ batch' = [batch EXCEPT ![g] =
                         {queued[u] : u \in Users} \ {NoNews}]
          /\ queued' = EmptyQueue
          /\ UNCHANGED delivering
    /\ UNCHANGED <<rows, cur, late, told, faults>>

----------------------------------------------------------------------------
(* The administrator, and the process *)

\* A user's row goes with the user (ON DELETE CASCADE).
ChangeUser(u) ==
    /\ users' \in {[users EXCEPT ![u] = s] : s \in UserStates \ {users[u]}}
    /\ rows' = IF users'[u] = "gone" THEN [rows EXCEPT ![u] = NoRow] ELSE rows
    /\ UNCHANGED <<url, clock, runVars, queueVars, deliveryVars, told, low,
                   faults>>
ChangeURL ==
    /\ url' = ~url
    /\ UNCHANGED <<users, rows, clock, runVars, queueVars, deliveryVars, told,
                   low, faults>>

\* The process ends, cleanly or not, and starts again: the database remains.
Restart ==
    /\ Fault
    /\ stage' = "idle"
    /\ todo' = {}
    /\ user' = NoRow
    /\ count' = 0
    /\ seen' = NoRow
    /\ found' = {}
    /\ delivering' = FALSE
    /\ queued' = EmptyQueue
    /\ dpc' = [g \in Deliverers |-> "idle"]
    /\ batch' = [g \in Deliverers |-> {}]
    /\ cur' = [g \in Deliverers |-> NoNews]
    /\ late' = [g \in Deliverers |-> FALSE]
    /\ UNCHANGED <<adminVars, rows, clock, hasUrl, threshold, told, low>>

Evaluate ==
    \/ FirstMeasured \/ StaysNormal \/ DropBegins \/ StaysDown
    \/ RecoversUntold \/ Recovers \/ NotEvaluated
Run ==
    \/ StartRun
    \/ \E u \in Users : Measure(u)
    \/ Evaluate
    \/ LookUpPending
    \/ HandOver
Deliver(g) ==
    \/ BeginPass(g) \/ EndDisabled(g) \/ Check(g) \/ Post(g) \/ AnswerLost(g)
    \/ PostFails(g) \/ Mark(g) \/ EndPass(g)
Admin == ChangeURL \/ \E u \in Users : ChangeUser(u)

Next == Run \/ (\E g \in Deliverers : Deliver(g)) \/ Admin \/ Restart

Spec == Init /\ [][Next]_vars

\* The ticker and the goroutines go on.
FairSpec ==
    /\ Spec
    /\ WF_vars(Run)
    /\ \A g \in Deliverers : WF_vars(Deliver(g))

----------------------------------------------------------------------------
(* Properties *)

Stages == {"idle", "users", "evaluate", "pending"}
DeliveryStages == {"idle", "pass", "disabled", "next", "post", "mark"}

\* Every variable keeps its shape, and what goroutine and tick have in hand
\* goes with where they are (Checker, user_prefix_alert_state).
TypeOK ==
    /\ users \in [Users -> UserStates]
    /\ url \in BOOLEAN
    /\ rows \in [Users -> Row \cup {NoRow}]
    /\ clock \in 0..MaxClock
    /\ stage \in Stages
    /\ todo \subseteq Users
    /\ hasUrl \in BOOLEAN
    /\ threshold \in Thresholds
    /\ user \in Users \cup {NoRow}
    /\ user # NoRow <=> stage \in {"evaluate", "pending"}
    /\ count \in IF stage = "evaluate" THEN Counts ELSE {0}
    /\ seen \in Row \cup {NoRow}
    /\ found \subseteq News
    /\ delivering \in BOOLEAN
    /\ queued \in [Users -> News \cup {NoNews}]
    /\ dpc \in [Deliverers -> DeliveryStages]
    /\ batch \in [Deliverers -> SUBSET News]
    /\ cur \in [Deliverers -> News \cup {NoNews}]
    /\ \A g \in Deliverers : cur[g] # NoNews <=> dpc[g] \in {"post", "mark"}
    /\ late \in [Deliverers -> BOOLEAN]
    /\ told \in [Users -> News \cup {NoNews}]
    /\ low \in [Users -> [count : Counts, threshold : Thresholds] \cup {NoRow}]
    /\ faults \in 0..MaxFaults

Feed == INSTANCE AlertFeed
        WITH Users <- Users, News <- News, NoNews <- NoNews, told <- told
\* What the webhook is told makes sense, whatever is delivered late, twice or
\* never: drops in order, and recoveries only from the drop it was last told
\* of (Run, deliverLoop and the episode checks of the store).
FollowsFeed == Feed!Spec

\* One batch is delivered at a time, and what is queued has a goroutine that
\* will look at it (deliveringMu, delivering and queued).
QueueIsServed ==
    /\ delivering <=> \E g \in Deliverers : dpc[g] # "idle"
    /\ \A g, h \in Deliverers : dpc[g] # "idle" /\ dpc[h] # "idle" => g = h
    /\ queued # EmptyQueue => delivering

\* Without failures nothing is told twice, although every tick finds again
\* what is pending and queues it (deliverLoop's check before a post).
ToldOnce ==
    [][\A g \in Deliverers :
          faults' = 0 /\ dpc[g] = "post" /\ dpc'[g] = "mark" =>
              told'[cur[g].user] # told[cur[g].user]]_vars

\* An episode does not end at a count as low as the one it began with, unless
\* the threshold has changed: a count that is parked on the line is one drop.
NoFlapping ==
    [][\A u \in Users :
          /\ rows[u] # NoRow /\ rows'[u] # NoRow
          /\ rows[u].alerting_since # Never
          /\ rows'[u].alerting_since = Never
          /\ low[u].threshold = threshold
          => count > low[u].count]_vars

\* A drop that lasts, of a user who stays enabled while a webhook is set, is
\* told in the end (PendingPrefixAlertDrop).
DropsAreTold ==
    \A u \in Users, t \in Times :
        rows[u] # NoRow /\ rows[u].alerting_since = t ~>
            \/ told[u] # NoNews /\ told[u].event = "drop" /\ told[u].at = t
            \/ rows[u] = NoRow
            \/ rows[u] # NoRow /\ rows[u].alerting_since # t
            \/ ~url
            \/ users[u] # "on"

\* A recovery that is not overtaken by another drop is told in the end
\* (PendingPrefixAlertRecovery).
RecoveriesAreTold ==
    \A u \in Users :
        RecoveryPending(u) ~>
            \/ told[u] # NoNews /\ told[u].event = "recovered"
            \/ ~RecoveryPending(u)
            \/ ~url
            \/ users[u] # "on"

\* Both: whatever lasts is told in the end.
PendingIsTold == DropsAreTold /\ RecoveriesAreTold

\* Of a drop that the webhook was told of it is also told the recovery: a user
\* who is normal again, with nothing pending or under way, was not last told
\* to be down (user_prefix_alerts.go:174 "This episode's drop was never
\* actually announced", said of the recoveries that are not told).
ToldDropsEnd ==
    \A u \in Users :
        /\ rows[u] # NoRow
        /\ rows[u].alerting_since = Never
        /\ ~RecoveryPending(u)
        /\ \A g \in Deliverers : cur[g] = NoNews
        => told[u] = NoNews \/ told[u].event # "drop"

=============================================================================
