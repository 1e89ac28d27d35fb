------------------------------- MODULE Settings -------------------------------
(***************************************************************************)
(* Settings that are changed while the program runs (settings/setting.go,  *)
(* store/settings.go, web/handlers_api_settings.go) and the global route   *)
(* filters among them, which a configuration import replaces too           *)
(* (web/handlers_api_config.go).                                           *)
(*                                                                         *)
(* A setting has a row in the database, a cached value that the program    *)
(* reads, and subscribers that were told a value.  Changes of the filters  *)
(* are audited, and announced by a reconciliation.  A request changes one  *)
(* setting after the other: it holds globalFilterMu meanwhile, but an      *)
(* import does not.  One step is one access to the database, one cached    *)
(* value or one call of the subscribers; the process may end in between.   *)
(*                                                                         *)
(* An operator that no action uses, placed before one of the same shape,   *)
(* is a wrong version of it: it is there to show which properties notice.  *)
(***************************************************************************)
EXTENDS Naturals, Sequences, FiniteSets

CONSTANTS
    Settable,    \* settings with a row
    FilterKeys,  \* filter_allow and filter_deny
    Overridden,  \* settings whose environment variable is set
    Settings,    \* values the validators accept
    Unset,       \* no row; in a request, null
    Invalid,     \* a value the validators refuse
    Default,
    FromEnv,
    Bodies,      \* requests: functions from settings to values
    Putters,     \* requests that change settings
    Importers,   \* imports
    MaxRequests, MaxImports, MaxFailures, MaxRestarts, \* bounds
    Nobody

ASSUME SettingsAssumption ==
    /\ FilterKeys \subseteq Settable \ Overridden
    /\ Overridden \subseteq Settable
    /\ Default \in Settings /\ Invalid \notin Settings
    /\ Unset \notin Settings
    /\ \A b \in Bodies : DOMAIN b \subseteq Settable
    /\ Putters \cap Importers = {}
    /\ Nobody \notin Settable \cup Putters \cup Importers
    /\ {MaxRequests, MaxImports, MaxFailures, MaxRestarts} \subseteq Nat

VARIABLES
    row,      \* app_settings
    cached,   \* Setting.value
    heard,    \* what the subscribers were told last
    mu,       \* who holds globalFilterMu
    at,       \* where a request or an import is
    body,     \* what it asks for
    left,     \* settings of it that are still to be saved
    next,     \* the setting whose cached value follows
    before,   \* the filters as it found them
    shown,    \* the filters as the preview of an import showed them
    closures, \* cached values that follow its transaction
    audited,  \* audit rows of the filters, per filter
    announced,\* the filters of the last reconciliation
    unsaid,   \* the last reconciliation failed
    half,     \* a request was refused that storage did not fail
    budget    \* requests, imports, failures and restarts so far

locals == <<at, body, left, next, before, shown, closures>>
settingsVars == <<row, cached, heard, mu, locals, audited, announced, unsaid,
                  half, budget>>

Actors == Putters \cup Importers
Idle == [k \in {} |-> Default]
NoFilters == [k \in FilterKeys |-> Unset]
Plain(b) == DOMAIN b \ FilterKeys
Some(b) == DOMAIN b \cap FilterKeys

\* newSimple: what a setting is when the program starts.
Effective(r, k) ==
    IF k \in Overridden THEN FromEnv
    ELSE IF r[k] \in Settings THEN r[k] ELSE Default
Filters(r) == [k \in FilterKeys |-> Effective(r, k)]
ValueOf(v) == IF v = Unset THEN Default ELSE v

\* Validate, as Set calls it, and what of it the handler calls in advance.
Accepts(k, v) == k \notin Overridden /\ v \in Settings \cup {Unset}
AnyKnown(k, v) == k \in Settable
Allowed(k, v) == v = Unset \/ Accepts(k, v)

Spend(what, most) ==
    budget[what] < most /\ budget' = [budget EXCEPT ![what] = @ + 1]
Fails == Spend("failures", MaxFailures)

SettingsInit ==
    /\ row \in [Settable -> Settings \cup {Unset, Invalid}]
    /\ \A k \in Settable : k \in FilterKeys \cup Overridden => row[k] = Unset
    /\ cached = [k \in Settable |-> Effective(row, k)] /\ heard = cached
    /\ mu = Nobody
    /\ at = [p \in Actors |-> "idle"]
    /\ body = [p \in Actors |-> Idle] /\ left = [p \in Actors |-> {}]
    /\ next = [p \in Actors |-> Nobody]
    /\ before = [p \in Actors |-> NoFilters] /\ shown = before
    /\ closures = [p \in Actors |-> Idle]
    /\ audited = [k \in FilterKeys |-> << >>]
    /\ announced = Filters(row) /\ unsaid = FALSE /\ half = FALSE
    /\ budget = [requests |-> 0, imports |-> 0, failures |-> 0,
                 restarts |-> 0]

----------------------------------------------------------------------------
(* apiSettingsPut *)

\* Every setting is validated first; a refused request changes nothing.
Put(p, b) ==
    /\ at[p] = "idle" /\ Spend("requests", MaxRequests)
    /\ \A k \in DOMAIN b : Allowed(k, b[k])
    /\ at' = [at EXCEPT ![p] = "lock"] /\ body' = [body EXCEPT ![p] = b]
    /\ left' = [left EXCEPT ![p] = Plain(b)]
    /\ UNCHANGED <<row, cached, heard, mu, next, before, shown, closures,
                   audited, announced, unsaid, half>>

HoldsNothing(p) == mu' = mu
Locks(p) == mu = Nobody /\ mu' = p
Enter(p) ==
    /\ at[p] = "lock" /\ Locks(p)
    /\ at' = [at EXCEPT ![p] = "save"]
    /\ before' = [before EXCEPT ![p] = [k \in FilterKeys |-> cached[k]]]
    /\ UNCHANGED <<row, cached, heard, body, left, next, shown, closures,
                   audited, announced, unsaid, half, budget>>

Unlocked(p) == IF mu = p THEN Nobody ELSE mu
Forget(p) ==
    /\ body' = [body EXCEPT ![p] = Idle] /\ left' = [left EXCEPT ![p] = {}]
    /\ next' = [next EXCEPT ![p] = Nobody]
    /\ before' = [before EXCEPT ![p] = NoFilters]
    /\ shown' = [shown EXCEPT ![p] = NoFilters]
    /\ closures' = [closures EXCEPT ![p] = Idle]

\* A setting that is no filter is set or reset: first its row, ...
SaveRow(p, k, new) ==
    /\ Accepts(k, new)
    /\ row' = [row EXCEPT ![k] = new]
    /\ left' = [left EXCEPT ![p] = @ \ {k}]
    /\ next' = [next EXCEPT ![p] = k]
    /\ at' = [at EXCEPT ![p] = "cache"]
    /\ UNCHANGED <<cached, heard, mu, body, before, shown, closures, audited,
                   announced, unsaid, half, budget>>
SetRow(p, k) ==
    /\ at[p] = "save" /\ k \in left[p] /\ body[p][k] # Unset
    /\ SaveRow(p, k, body[p][k])
ResetRow(p, k) ==
    /\ at[p] = "save" /\ k \in left[p] /\ body[p][k] = Unset
    /\ SaveRow(p, k, Unset)

\* ... then the cached value, ...
CacheValue(p) ==
    /\ at[p] = "cache"
    /\ cached' = [cached EXCEPT ![next[p]] = ValueOf(body[p][next[p]])]
    /\ at' = [at EXCEPT ![p] = "tell"]
    /\ UNCHANGED <<row, heard, mu, body, left, next, before, shown, closures,
                   audited, announced, unsaid, half, budget>>

\* ... then the subscribers.
Tell(p) ==
    /\ at[p] = "tell"
    /\ heard' = [heard EXCEPT ![next[p]] = ValueOf(body[p][next[p]])]
    /\ next' = [next EXCEPT ![p] = Nobody]
    /\ at' = [at EXCEPT ![p] = "save"]
    /\ UNCHANGED <<row, cached, mu, body, left, before, shown, closures,
                   audited, announced, unsaid, half, budget>>

\* The request ends with an error; what was saved stays.
Refuse(p) ==
    /\ at' = [at EXCEPT ![p] = "idle"] /\ mu' = Unlocked(p) /\ Forget(p)
    /\ UNCHANGED <<row, cached, heard, audited, announced, unsaid>>
SaveFails(p) ==
    /\ at[p] = "save" /\ left[p] \cup Some(body[p]) # {} /\ Fails /\ Refuse(p)
    /\ UNCHANGED half
SaveRefused(p, k) ==
    /\ at[p] = "save"
    /\ k \in left[p] \/ (left[p] = {} /\ k \in Some(body[p]))
    /\ ~Accepts(k, body[p][k])
    /\ half' = (half \/ left[p] # Plain(body[p]))
    /\ Refuse(p) /\ UNCHANGED budget

\* An audit row names what was removed and added, if anything was.
Audit(from, to) ==
    audited' = [k \in FilterKeys |->
                  IF from[k] = to[k] THEN audited[k]
                  ELSE Append(audited[k], [from |-> from[k], to |-> to[k]])]

\* Both filters and their audit row, in one transaction.
SaveFilters(p) ==
    /\ at[p] = "save" /\ left[p] = {} /\ Some(body[p]) # {}
    /\ \A k \in Some(body[p]) : Accepts(k, body[p][k])
    /\ row' = [k \in Settable |->
                 IF k \in Some(body[p]) THEN body[p][k] ELSE row[k]]
    /\ closures' = [closures EXCEPT ![p] =
                      [k \in Some(body[p]) |-> ValueOf(body[p][k])]]
    /\ Audit(before[p], [k \in FilterKeys |->
                IF k \in DOMAIN closures'[p] THEN closures'[p][k]
                ELSE before[p][k]])
    /\ at' = [at EXCEPT ![p] = "commit"]
    /\ UNCHANGED <<cached, heard, mu, body, left, next, before, shown,
                   announced, unsaid, half, budget>>

\* The closures that SetTx and ResetTx returned run after the commit.
CommitCached(p, k) ==
    /\ at[p] = "commit" /\ k \in DOMAIN closures[p]
    /\ cached' = [cached EXCEPT ![k] = closures[p][k]]
    /\ next' = [next EXCEPT ![p] = k]
    /\ at' = [at EXCEPT ![p] = "told"]
    /\ UNCHANGED <<row, heard, mu, body, left, before, shown, closures,
                   audited, announced, unsaid, half, budget>>
CommitTold(p) ==
    /\ at[p] = "told"
    /\ heard' = [heard EXCEPT ![next[p]] = closures[p][next[p]]]
    /\ closures' = [closures EXCEPT ![p] =
                      [k \in DOMAIN @ \ {next[p]} |-> @[k]]]
    /\ next' = [next EXCEPT ![p] = Nobody]
    /\ at' = [at EXCEPT ![p] = "commit"]
    /\ UNCHANGED <<row, cached, mu, body, left, before, shown, audited,
                   announced, unsaid, half, budget>>

\* Only a request that named a filter reconciles, and not under the lock.
BothGiven(b) == FilterKeys \subseteq DOMAIN b
ReconcileNeeded(b) == Some(b) # {}
Leave(p) ==
    /\ \/ at[p] = "save" /\ left[p] \cup Some(body[p]) = {}
       \/ at[p] = "commit" /\ DOMAIN closures[p] = {}
    /\ mu' = Unlocked(p)
    /\ IF p \in Importers \/ ReconcileNeeded(body[p])
       THEN at' = [at EXCEPT ![p] = "reconcile"]
       ELSE at' = [at EXCEPT ![p] = "idle"]
    /\ Forget(p)
    /\ UNCHANGED <<row, cached, heard, audited, announced, unsaid, half,
                   budget>>

\* Reconcile reads the rows and is serialised; if it fails there is a warning.
ReconcileFilters(p) ==
    /\ at[p] = "reconcile"
    /\ announced' = Filters(row) /\ unsaid' = FALSE
    /\ at' = [at EXCEPT ![p] = "idle"] /\ Forget(p)
    /\ UNCHANGED <<row, cached, heard, mu, audited, half, budget>>
ReconcileFails(p) ==
    /\ at[p] = "reconcile" /\ Fails /\ unsaid' = TRUE
    /\ at' = [at EXCEPT ![p] = "idle"] /\ Forget(p)
    /\ UNCHANGED <<row, cached, heard, mu, audited, announced, half>>
----------------------------------------------------------------------------
(* apiConfigImport, as far as it is about the filters.  It takes no lock.   *)

\* What the preview showed.
Preview(p, filters) ==
    /\ at[p] = "idle" /\ Spend("imports", MaxImports)
    /\ shown' = [shown EXCEPT ![p] = Filters(row)]
    /\ body' = [body EXCEPT ![p] = filters]
    /\ at' = [at EXCEPT ![p] = "import"]
    /\ UNCHANGED <<row, cached, heard, mu, left, next, before, closures,
                   audited, announced, unsaid, half>>

Found(p) ==
    /\ at[p] = "import"
    /\ before' = [before EXCEPT ![p] = Filters(row)]
    /\ at' = [at EXCEPT ![p] = "tables"]
    /\ UNCHANGED <<row, cached, heard, mu, body, left, next, shown, closures,
                   audited, announced, unsaid, half, budget>>

\* ApplyConfigSnapshot refuses if anything, the filters included, is not as
\* the preview showed it.  It leaves the filters to the next step, which is
\* left out if they are the same.
ApplyTables(p) ==
    /\ at[p] = "tables" /\ Filters(row) = shown[p]
    /\ at' = [at EXCEPT ![p] =
                IF before[p] = body[p] THEN "reconcile" ELSE "filters"]
    /\ UNCHANGED <<row, cached, heard, mu, body, left, next, before, shown,
                   closures, audited, announced, unsaid, half, budget>>
Stale(p) ==
    /\ at[p] = "tables" /\ Filters(row) # shown[p]
    /\ Refuse(p) /\ UNCHANGED <<half, budget>>

\* applyGlobalFiltersFromImport.
StillAsFound(p) == Filters(row) = before[p]
ApplyFilters(p) ==
    /\ at[p] = "filters" /\ StillAsFound(p)
    /\ row' = [k \in Settable |-> IF k \in FilterKeys THEN body[p][k]
                                ELSE row[k]]
    /\ closures' = [closures EXCEPT ![p] = body[p]]
    /\ Audit(before[p], body[p])
    /\ at' = [at EXCEPT ![p] = "commit"]
    /\ UNCHANGED <<cached, heard, mu, body, left, next, before, shown,
                   announced, unsaid, half, budget>>

\* They were edited since, or the database fails: the import says so and goes
\* on, the rest of it is committed.
SkipFilters(p) ==
    /\ at[p] = "filters"
    /\ \/ ~StillAsFound(p) /\ UNCHANGED budget
       \/ Fails
    /\ at' = [at EXCEPT ![p] = "reconcile"]
    /\ UNCHANGED <<row, cached, heard, mu, body, left, next, before, shown,
                   closures, audited, announced, unsaid, half>>

----------------------------------------------------------------------------
\* settings.New and the first reconciliation, after the process has ended at
\* any point.
Restart ==
    /\ Spend("restarts", MaxRestarts)
    /\ cached' = [k \in Settable |-> Effective(row, k)] /\ heard' = cached'
    /\ mu' = Nobody
    /\ at' = [p \in Actors |-> "idle"]
    /\ body' = [p \in Actors |-> Idle] /\ left' = [p \in Actors |-> {}]
    /\ next' = [p \in Actors |-> Nobody]
    /\ before' = [p \in Actors |-> NoFilters] /\ shown' = before'
    /\ closures' = [p \in Actors |-> Idle]
    /\ announced' = Filters(row) /\ unsaid' = FALSE
    /\ UNCHANGED <<row, audited, half>>

SettingsNext ==
    \/ \E p \in Putters, b \in Bodies : Put(p, b)
    \/ \E p \in Importers, f \in [FilterKeys -> Settings] : Preview(p, f)
    \/ \E p \in Putters :
          \/ Enter(p) \/ CacheValue(p) \/ Tell(p) \/ SaveFails(p)
          \/ SaveFilters(p)
          \/ \E k \in Settable :
                SetRow(p, k) \/ ResetRow(p, k) \/ SaveRefused(p, k)
    \/ \E p \in Importers :
          \/ Found(p) \/ ApplyTables(p) \/ Stale(p)
          \/ ApplyFilters(p) \/ SkipFilters(p)
    \/ \E p \in Actors :
          \/ \E k \in Settable : CommitCached(p, k)
          \/ CommitTold(p) \/ Leave(p)
          \/ ReconcileFilters(p) \/ ReconcileFails(p)
    \/ Restart

SettingsSpec == SettingsInit /\ [][SettingsNext]_settingsVars

----------------------------------------------------------------------------
(* Properties *)

Quiet == \A p \in Actors : at[p] = "idle"

\* The program reads, and its subscribers were told, what the database has,
\* an import's filters aside.
CacheAgrees ==
    Quiet => \A k \in Settable :
        budget.imports = 0 \/ k \notin FilterKeys =>
            cached[k] = Effective(row, k) /\ heard[k] = cached[k]

\* The audit rows of a filter lead from one value to the next and end at what
\* it is now: no change is missing, twice there or put down to another.
Chain(k) ==
    /\ \A i \in 1..Len(audited[k]) :
          audited[k][i].from = IF i = 1 THEN Default ELSE audited[k][i - 1].to
    /\ Effective(row, k) = IF audited[k] = << >> THEN Default
                           ELSE audited[k][Len(audited[k])].to
AuditIsChain == \A k \in FilterKeys : Chain(k)

\* Whatever failed and in whatever order requests came: when none is under way
\* the program works with what the database has, and the audit log accounts
\* for the filters that are in force, change by change.  Imports may break the
\* chain, see AuditIsChain.
\* (setting.go, Set; handlers_api_settings.go, apiSettingsPut)
RecordsAgree == CacheAgrees /\ (budget.imports = 0 => AuditIsChain)

\* A change of the filters is announced when the request has ended, unless it
\* said that the reconciliation failed.
\* (handlers_api_settings.go, apiSettingsPut; handlers_api_config.go)
FiltersAreAnnounced == Quiet /\ ~unsaid => announced = Filters(row)

\* A request that passed the validation is not refused, with some of it
\* saved, for anything but a failure of the database.
\* (handlers_api_settings.go, apiSettingsPut, validateSettingKey)
AcceptedIsApplied == ~half
=============================================================================
