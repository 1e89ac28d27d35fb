---------------------------- MODULE Records_proofs ----------------------------
(***************************************************************************)
(* Proofs about Settings, for any settings, filters, requests and imports, *)
(* any number of each at a time; about StoreOpen, for any rows, any number *)
(* of versions, whichever of them rebuilds the table; and about ChangeLog, *)
(* for any modes, categories and services; all for every bound.  The three *)
(* share no variable, as in MCRecords.                                     *)
(***************************************************************************)
EXTENDS Settings, ChangeLog, StoreOpen, FiniteSetTheorems, SequenceTheorems,
        TLAPS


----------------------------------------------------------------------------
(* Settings: the inductive invariant *)

Value == Settings \cup {Unset, FromEnv}
Change == [from : Value, to : Value]
Critical == {"save", "cache", "tell", "commit", "told"}

\* What a setting can be, and what is kept of a request.
TypeInv ==
    /\ DOMAIN row = Settable
    /\ cached \in [Settable -> Value] /\ heard \in [Settable -> Value]
    /\ DOMAIN at = Actors /\ DOMAIN body = Actors /\ DOMAIN left = Actors
    /\ DOMAIN next = Actors /\ DOMAIN shown = Actors /\ DOMAIN closures = Actors
    /\ before \in [Actors -> [FilterKeys -> Value]]
    /\ audited \in [FilterKeys -> Seq(Change)]
    /\ budget \in [requests : Nat, imports : Nat, failures : Nat,
                   restarts : Nat]

\* Where requests and imports can be, and what they have in hand there.
Local(p) ==
    /\ DOMAIN body[p] \subseteq Settable
    /\ left[p] \subseteq Plain(body[p])
    /\ p \in Importers => left[p] = {}
    /\ DOMAIN closures[p] \subseteq FilterKeys
    /\ \A k \in DOMAIN closures[p] : closures[p][k] \in Settings
    /\ DOMAIN closures[p] # {} => at[p] \in {"commit", "told"}
    /\ at[p] \in {"lock", "save", "cache", "tell"} => p \in Putters
    /\ at[p] \in {"import", "tables", "filters"} =>
          p \in Importers /\ body[p] \in [FilterKeys -> Settings]
    /\ at[p] \in {"cache", "tell"} =>
          next[p] \in Plain(body[p]) \ Overridden
    /\ at[p] \in {"lock", "save", "cache", "tell"} =>
          body[p] \in Bodies
          /\ \A k \in DOMAIN body[p] : Allowed(k, body[p][k])
    /\ at[p] = "told" => next[p] \in DOMAIN closures[p]
    /\ at[p] \in {"commit", "told"} =>
          p \in Importers \/ Some(body[p]) # {}
    /\ p \in Importers /\ budget.imports = 0 => at[p] = "idle"
LocalsInv == \A p \in Actors : Local(p)

\* Requests change settings one after the other.
MutexInv == \A p \in Putters : at[p] \in Critical => mu = p

\* A change of the filters that was not announced is going to be.
WillReconcile(p) == at[p] \in {"commit", "told", "reconcile"}
AnnounceInv ==
    announced = Filters(row) \/ unsaid \/ \E p \in Actors : WillReconcile(p)

\* The settings of which nothing but requests changes the row: no filter once
\* there was an import.
Watched(k) == k \in Settable /\ (budget.imports = 0 \/ k \notin FilterKeys)

\* Request p is going to set the cached value, or tell the subscribers.
WillSet(p, k) == \/ at[p] = "cache" /\ next[p] = k
                 \/ k \in DOMAIN closures[p] /\ ~(at[p] = "told" /\ next[p] = k)
WillTell(p, k) == \/ at[p] \in {"cache", "tell"} /\ next[p] = k
                  \/ k \in DOMAIN closures[p]

\* What a cached value or a subscriber lacks, somebody is about to give, and
\* gives what the row has.
AgreeInv ==
    \A k \in Settable : Watched(k) =>
        /\ cached[k] = Effective(row, k) \/ \E p \in Putters : WillSet(p, k)
        /\ heard[k] = cached[k] \/ \E p \in Putters : WillTell(p, k)
        /\ \A p \in Putters :
              /\ at[p] \in {"cache", "tell"} /\ next[p] = k =>
                    ValueOf(body[p][k]) = Effective(row, k)
              /\ k \in DOMAIN closures[p] =>
                    closures[p][k] = Effective(row, k)

\* Without imports the audit rows account for the filters, and a request that
\* will change them knows what they are.
AuditInv ==
    budget.imports = 0 =>
        /\ AuditIsChain
        /\ \A p \in Putters : at[p] \in {"save", "cache", "tell"} =>
              before[p] = Filters(row)

SettingsInv == /\ TypeInv /\ LocalsInv /\ MutexInv /\ AnnounceInv
               /\ AgreeInv /\ AuditInv

----------------------------------------------------------------------------
(* Settings: what a step leaves alone *)

\* Requests are no imports, and nobody is nobody.
LEMMA Apart ==
    /\ Putters \cap Importers = {}
    /\ Nobody \notin Actors /\ Nobody \notin Settable
    /\ FilterKeys \subseteq Settable /\ FilterKeys \cap Overridden = {}
    /\ Default \in Settings /\ Unset \notin Settings
  BY SettingsAssumption DEF Actors

\* Bounds count up.
LEMMA Spent ==
    ASSUME TypeInv, NEW what \in {"requests", "imports", "failures", "restarts"},
           NEW most, Spend(what, most)
    PROVE  /\ budget' \in [requests : Nat, imports : Nat, failures : Nat,
                           restarts : Nat]
           /\ budget'.imports = 0 => budget.imports = 0
           /\ what = "imports" => budget'.imports # 0
  <1>1. /\ budget \in [requests : Nat, imports : Nat, failures : Nat,
                       restarts : Nat]
        /\ budget' = [budget EXCEPT ![what] = @ + 1]
    BY DEF TypeInv, Spend
  <1>2. CASE what = "requests"
    BY <1>1, <1>2
  <1>3. CASE what = "imports"
    <2>1. budget'.imports = budget.imports + 1
      BY <1>1, <1>3
    <2> QED
      BY <1>1, <1>3, <2>1
  <1>4. CASE what = "failures"
    BY <1>1, <1>4
  <1>5. CASE what = "restarts"
    BY <1>1, <1>5
  <1> QED
    BY <1>2, <1>3, <1>4, <1>5

\* Effective and the filters, of any rows, are values.
LEMMA EffectiveValue ==
    ASSUME NEW r, NEW k
    PROVE  /\ Effective(r, k) \in Value
           /\ Filters(r) \in [FilterKeys -> Value]
           /\ k \in FilterKeys => Filters(r)[k] = Effective(r, k)
  <1>1. \A l : Effective(r, l) \in Value
    BY Apart DEF Effective, Value
  <1> QED
    BY <1>1 DEF Filters

\* The other requests and imports go on as they were.
OthersStay(p) ==
    \A q \in Actors \ {p} :
        /\ at'[q] = at[q] /\ body'[q] = body[q] /\ left'[q] = left[q]
        /\ next'[q] = next[q] /\ before'[q] = before[q]
        /\ closures'[q] = closures[q]
NoImportBefore == budget'.imports = 0 => budget.imports = 0

\* What the others have in hand is not touched.
LEMMA LocalsStay ==
    ASSUME LocalsInv, NEW p \in Actors, OthersStay(p), NoImportBefore, Local(p)'
    PROVE  LocalsInv'
  <1>1. ASSUME NEW q \in Actors, q # p
        PROVE  Local(q)'
    <2>1. /\ at'[q] = at[q] /\ body'[q] = body[q] /\ left'[q] = left[q]
          /\ next'[q] = next[q] /\ closures'[q] = closures[q]
      BY <1>1 DEF OthersStay
    <2> QED
      BY <2>1 DEF LocalsInv, Local, NoImportBefore
  <1> QED
    BY <1>1 DEF LocalsInv

\* Who takes or returns the lock does not take it from another.
LEMMA MutexStays ==
    ASSUME MutexInv, NEW p \in Actors, OthersStay(p),
           mu' = mu \/ (mu = p /\ mu' = Nobody) \/ (mu = Nobody /\ mu' = p),
           p \in Putters /\ at'[p] \in Critical => mu' = p
    PROVE  MutexInv'
  <1> SUFFICES ASSUME NEW q \in Putters, q # p, at'[q] \in Critical
               PROVE  mu' = q
    BY DEF MutexInv
  <1>1. mu = q
    BY DEF MutexInv, OthersStay, Actors
  <1> QED
    BY <1>1, Apart DEF Actors

\* Who leaves the filters alone need not announce them.
LEMMA AnnounceStays ==
    ASSUME AnnounceInv, NEW p \in Actors, OthersStay(p),
           Filters(row') = Filters(row),
           \/ announced' = Filters(row')
           \/ unsaid'
           \/ UNCHANGED <<announced, unsaid>>
              /\ (WillReconcile(p) => WillReconcile(p)')
    PROVE  AnnounceInv'
  BY DEF AnnounceInv, WillReconcile, OthersStay

\* A request that is not in the middle of a setting leaves cached values and
\* subscribers as they are.
LEMMA AgreeStays ==
    ASSUME AgreeInv, NEW p \in Actors, OthersStay(p), NoImportBefore,
           UNCHANGED <<row, cached, heard>>,
           at[p] \notin {"cache", "tell", "told"},
           at'[p] \notin {"cache", "tell", "told"},
           DOMAIN closures[p] = {}, DOMAIN closures'[p] = {}
    PROVE  AgreeInv'
  <1> SUFFICES ASSUME NEW k \in Settable, Watched(k)'
               PROVE  /\ cached[k] = Effective(row, k)
                         \/ \E q \in Putters : WillSet(q, k)'
                      /\ heard[k] = cached[k]
                         \/ \E q \in Putters : WillTell(q, k)'
                      /\ \A q \in Putters :
                            /\ at'[q] \in {"cache", "tell"} /\ next'[q] = k =>
                                  ValueOf(body'[q][k]) = Effective(row, k)
                            /\ k \in DOMAIN closures'[q] =>
                                  closures'[q][k] = Effective(row, k)
    BY DEF AgreeInv
  <1>1. Watched(k)
    BY DEF Watched, NoImportBefore
  <1>2. ASSUME NEW q \in Putters
        PROVE  /\ WillSet(q, k) => WillSet(q, k)'
               /\ WillTell(q, k) => WillTell(q, k)'
    BY DEF WillSet, WillTell, OthersStay, Actors
  <1>3. ASSUME NEW q \in Putters
        PROVE  /\ at'[q] \in {"cache", "tell"} /\ next'[q] = k =>
                     ValueOf(body'[q][k]) = Effective(row, k)
               /\ k \in DOMAIN closures'[q] =>
                     closures'[q][k] = Effective(row, k)
    BY <1>1 DEF AgreeInv, OthersStay, Actors
  <1> QED
    BY <1>1, <1>2, <1>3 DEF AgreeInv

\* What is recorded of the filters stays right while they stay.
LEMMA AuditStays ==
    ASSUME AuditInv, NEW p \in Actors, OthersStay(p), NoImportBefore,
           Filters(row') = Filters(row), audited' = audited,
           p \in Putters /\ at'[p] \in {"save", "cache", "tell"}
              /\ budget.imports = 0 => before'[p] = Filters(row)
    PROVE  AuditInv'
  <1>1. \A k \in FilterKeys : Effective(row', k) = Effective(row, k)
    BY EffectiveValue
  <1>2. AuditIsChain => AuditIsChain'
    BY <1>1 DEF AuditIsChain, Chain
  <1> QED
    BY <1>2 DEF AuditInv, NoImportBefore, OthersStay, Actors

\* A step between settings, which changes no more than where a request or an
\* import is, the lock and what was announced.
LEMMA BetweenSettings ==
    ASSUME SettingsInv, NEW p \in Actors, OthersStay(p), TypeInv', Local(p)',
           NoImportBefore, UNCHANGED <<row, cached, heard, audited>>,
           mu' = mu \/ (mu = p /\ mu' = Nobody) \/ (mu = Nobody /\ mu' = p),
           p \in Putters /\ at'[p] \in Critical => mu' = p,
           \/ announced' = Filters(row)
           \/ unsaid'
           \/ UNCHANGED <<announced, unsaid>>
              /\ (WillReconcile(p) => WillReconcile(p)'),
           at[p] \notin {"cache", "tell", "told"},
           at'[p] \notin {"cache", "tell", "told"},
           DOMAIN closures[p] = {}, DOMAIN closures'[p] = {},
           p \in Putters /\ at'[p] = "save" /\ budget.imports = 0
              => before'[p] = Filters(row)
    PROVE  SettingsInv'
  <1>1. /\ LocalsInv /\ MutexInv /\ AnnounceInv /\ AgreeInv /\ AuditInv
        /\ Filters(row') = Filters(row)
    BY DEF SettingsInv
  <1>2. LocalsInv'
    BY <1>1, LocalsStay
  <1>3. MutexInv'
    BY <1>1, MutexStays
  <1>4. AnnounceInv'
    BY <1>1, AnnounceStays
  <1>5. AgreeInv'
    BY <1>1, AgreeStays
  <1>6. AuditInv'
    BY <1>1, AuditStays
  <1> QED
    BY <1>2, <1>3, <1>4, <1>5, <1>6 DEF SettingsInv

----------------------------------------------------------------------------
(* Settings: steps between settings *)

\* A request that was validated waits for the lock (apiSettingsPut).
LEMMA PutStep ==
    ASSUME SettingsInv, NEW p \in Putters, NEW b \in Bodies, Put(p, b)
    PROVE  SettingsInv'
  <1>1. TypeInv /\ LocalsInv /\ p \in Actors
    BY DEF SettingsInv, Actors
  <1>2. /\ at[p] = "idle" /\ at'[p] = "lock" /\ body'[p] = b
        /\ \A k \in DOMAIN b : Allowed(k, b[k])
        /\ left'[p] = Plain(b) /\ closures' = closures /\ OthersStay(p)
        /\ UNCHANGED <<row, cached, heard, mu, before, audited, announced,
                       unsaid>>
    BY <1>1 DEF Put, TypeInv, OthersStay
  <1>3. NoImportBefore /\ TypeInv'
    BY <1>1, Spent DEF Put, TypeInv, NoImportBefore
  <1>4. DOMAIN closures[p] = {} /\ DOMAIN b \subseteq Settable
    BY <1>1, <1>2, SettingsAssumption DEF LocalsInv, Local
  <1>5. Local(p)'
    BY <1>1, <1>2, <1>4, Apart DEF LocalsInv, Local
  <1> QED
    BY <1>1, <1>2, <1>3, <1>4, <1>5, BetweenSettings DEF Critical, WillReconcile

\* Under the lock it looks what the filters are: nobody is about to set them.
LEMMA EnterStep ==
    ASSUME SettingsInv, NEW p \in Putters, Enter(p)
    PROVE  SettingsInv'
  <1>1. TypeInv /\ LocalsInv /\ MutexInv /\ AgreeInv /\ p \in Actors
    BY DEF SettingsInv, Actors
  <1>2. /\ at[p] = "lock" /\ at'[p] = "save" /\ mu = Nobody /\ mu' = p
        /\ before'[p] = [k \in FilterKeys |-> cached[k]]
        /\ OthersStay(p)
        /\ UNCHANGED <<row, cached, heard, body, left, next, closures,
                       audited, announced, unsaid, budget>>
    BY <1>1 DEF Enter, Locks, TypeInv, OthersStay
  <1>3. NoImportBefore
    BY <1>2 DEF NoImportBefore
  <1>4. TypeInv'
    <2>1. [k \in FilterKeys |-> cached[k]] \in [FilterKeys -> Value]
      BY <1>1, Apart DEF TypeInv
    <2> QED
      BY <1>1, <1>2, <2>1 DEF Enter, TypeInv
  <1>5. DOMAIN closures[p] = {}
    BY <1>1, <1>2 DEF LocalsInv, Local
  <1>6. Local(p)'
    BY <1>1, <1>2, <1>5, Apart DEF LocalsInv, Local
  <1>7. ASSUME budget.imports = 0
        PROVE  before'[p] = Filters(row)
    <2>1. ASSUME NEW q \in Putters, NEW k
          PROVE  ~WillSet(q, k)
      <3>1. at[q] \notin Critical /\ q \in Actors
        BY <1>1, <1>2, Apart DEF MutexInv, Actors
      <3> QED
        BY <1>1, <3>1 DEF WillSet, Critical, LocalsInv, Local
    <2>2. ASSUME NEW k \in FilterKeys
          PROVE  cached[k] = Effective(row, k)
      <3>1. Watched(k) /\ k \in Settable
        BY <1>7, Apart DEF Watched
      <3> QED
        BY <1>1, <2>1, <3>1 DEF AgreeInv
    <2> QED
      BY <1>2, <2>2 DEF Filters
  <1> QED
    BY <1>1, <1>2, <1>3, <1>4, <1>5, <1>6, <1>7, BetweenSettings
       DEF WillReconcile

\* A request or an import that ends forgets what it had in hand.
LEMMA Forgotten ==
    ASSUME TypeInv, NEW p \in Actors, NEW s, at' = [at EXCEPT ![p] = s],
           Forget(p), audited' = audited, heard' = heard, cached' = cached,
           row' = row,
           budget' \in [requests : Nat, imports : Nat, failures : Nat,
                        restarts : Nat]
    PROVE  /\ TypeInv' /\ OthersStay(p) /\ at'[p] = s
           /\ DOMAIN body'[p] = {} /\ left'[p] = {} /\ DOMAIN closures'[p] = {}
  <1>1. NoFilters \in [FilterKeys -> Value]
    BY DEF NoFilters, Value
  <1>2. DOMAIN Idle = {}
    BY DEF Idle
  <1> HIDE DEF Idle, NoFilters
  <1>3. TypeInv'
    BY <1>1 DEF TypeInv, Forget
  <1>4. OthersStay(p)
    BY DEF TypeInv, Forget, OthersStay
  <1> QED
    BY <1>2, <1>3, <1>4 DEF TypeInv, Forget

\* Ending, with an error or without, returns the lock.
LEMMA EndStep ==
    ASSUME SettingsInv, NEW p \in Actors, NEW s \in {"idle", "reconcile"},
           at' = [at EXCEPT ![p] = s], Forget(p),
           mu' = mu \/ (mu = p /\ mu' = Nobody), NoImportBefore,
           budget' \in [requests : Nat, imports : Nat, failures : Nat,
                        restarts : Nat],
           UNCHANGED <<row, cached, heard, audited>>,
           at[p] \notin {"cache", "tell", "told"}, DOMAIN closures[p] = {},
           p \in Importers /\ budget'.imports = 0 => s = "idle",
           \/ announced' = Filters(row)
           \/ unsaid'
           \/ /\ UNCHANGED <<announced, unsaid>>
              /\ at[p] \in {"commit", "reconcile"} => s = "reconcile"
    PROVE  SettingsInv'
  <1>1. TypeInv /\ LocalsInv
    BY DEF SettingsInv
  <1>2. /\ TypeInv' /\ OthersStay(p) /\ at'[p] = s
        /\ DOMAIN body'[p] = {} /\ left'[p] = {} /\ DOMAIN closures'[p] = {}
    BY <1>1, Forgotten
  <1>3. Local(p)'
    BY <1>2 DEF Local, Plain
  <1>4. at'[p] \notin Critical /\ at'[p] \notin {"cache", "tell", "told"}
        /\ at'[p] # "save"
    BY <1>2 DEF Critical
  <1>5. \/ announced' = Filters(row)
        \/ unsaid'
        \/ UNCHANGED <<announced, unsaid>>
           /\ (WillReconcile(p) => WillReconcile(p)')
    BY <1>2 DEF WillReconcile
  <1> QED
    BY <1>2, <1>3, <1>4, <1>5, BetweenSettings

\* Errors of storage, a reset that is refused and an import that finds things
\* changed (apiSettingsPut, ApplyConfigSnapshot).
LEMMA RefuseStep ==
    ASSUME SettingsInv, NEW p \in Actors,
           \/ SaveFails(p) \/ Stale(p)
           \/ \E k \in Settable : SaveRefused(p, k)
    PROVE  SettingsInv'
  <1>1. TypeInv /\ LocalsInv
    BY DEF SettingsInv
  <1>2. /\ at[p] \in {"save", "tables"}
        /\ at' = [at EXCEPT ![p] = "idle"] /\ Forget(p)
        /\ mu' = Unlocked(p)
        /\ UNCHANGED <<row, cached, heard, audited, announced, unsaid>>
        /\ UNCHANGED budget \/ Spend("failures", MaxFailures)
    BY DEF SaveFails, Stale, SaveRefused, Refuse, Fails
  <1>3. mu' = mu \/ (mu = p /\ mu' = Nobody)
    BY <1>2 DEF Unlocked
  <1>4. /\ NoImportBefore
        /\ budget' \in [requests : Nat, imports : Nat, failures : Nat,
                        restarts : Nat]
    BY <1>1, <1>2, Spent DEF NoImportBefore, TypeInv
  <1>5. DOMAIN closures[p] = {}
    BY <1>1, <1>2 DEF LocalsInv, Local
  <1> DEFINE s == "idle"
  <1>6. at[p] \notin {"commit", "reconcile", "cache", "tell", "told"}
    BY <1>2
  <1>7. s \in {"idle", "reconcile"} /\ s = "idle" /\ at' = [at EXCEPT ![p] = s]
    BY <1>2
  <1> HIDE DEF s
  <1> QED
    BY <1>2, <1>3, <1>4, <1>5, <1>6, <1>7, EndStep

\* The lock is returned; who has changed a filter reconciles.
LEMMA LeaveStep ==
    ASSUME SettingsInv, NEW p \in Actors, Leave(p)
    PROVE  SettingsInv'
  <1>1. TypeInv /\ LocalsInv
    BY DEF SettingsInv
  <1> DEFINE s == IF p \in Importers \/ ReconcileNeeded(body[p])
                  THEN "reconcile" ELSE "idle"
  <1>2. /\ \/ at[p] = "save"
           \/ at[p] = "commit" /\ DOMAIN closures[p] = {}
        /\ at' = [at EXCEPT ![p] = s] /\ Forget(p) /\ mu' = Unlocked(p)
        /\ UNCHANGED <<row, cached, heard, audited, announced, unsaid, budget>>
    <2>1. at' = [at EXCEPT ![p] = s]
      <3>1. CASE p \in Importers \/ ReconcileNeeded(body[p])
        BY <3>1 DEF Leave
      <3>2. CASE ~(p \in Importers \/ ReconcileNeeded(body[p]))
        BY <3>2 DEF Leave
      <3> QED
        BY <3>1, <3>2
    <2> HIDE DEF s
    <2> QED
      BY <2>1 DEF Leave
  <1>3. mu' = mu \/ (mu = p /\ mu' = Nobody)
    BY <1>2 DEF Unlocked
  <1>4. /\ NoImportBefore
        /\ budget' \in [requests : Nat, imports : Nat, failures : Nat,
                        restarts : Nat]
    BY <1>1, <1>2 DEF NoImportBefore, TypeInv
  <1>5. DOMAIN closures[p] = {} /\ at[p] \notin {"cache", "tell", "told"}
    BY <1>1, <1>2 DEF LocalsInv, Local
  <1>6. at[p] = "commit" => s = "reconcile"
    BY <1>1 DEF LocalsInv, Local, ReconcileNeeded
  <1>7. p \in Importers /\ budget.imports = 0 => s = "idle"
    BY <1>1, <1>2 DEF LocalsInv, Local
  <1>8. s \in {"idle", "reconcile"}
    OBVIOUS
  <1> HIDE DEF s
  <1>9. at[p] # "reconcile"
    BY <1>2
  <1> QED
    BY <1>2, <1>3, <1>4, <1>5, <1>6, <1>7, <1>8, <1>9, EndStep

\* The reconciliation announces what the rows have, or says that it failed.
LEMMA ReconcileStep ==
    ASSUME SettingsInv, NEW p \in Actors, ReconcileFilters(p) \/ ReconcileFails(p)
    PROVE  SettingsInv'
  <1>1. TypeInv /\ LocalsInv
    BY DEF SettingsInv
  <1>2. /\ at[p] = "reconcile"
        /\ at' = [at EXCEPT ![p] = "idle"] /\ Forget(p)
        /\ UNCHANGED <<row, cached, heard, mu, audited>>
        /\ UNCHANGED budget \/ Spend("failures", MaxFailures)
        /\ announced' = Filters(row) \/ unsaid'
    BY DEF ReconcileFilters, ReconcileFails, Fails
  <1>3. /\ NoImportBefore
        /\ budget' \in [requests : Nat, imports : Nat, failures : Nat,
                        restarts : Nat]
    BY <1>1, <1>2, Spent DEF NoImportBefore, TypeInv
  <1>4. DOMAIN closures[p] = {}
    <2>1. at[p] \notin {"commit", "told"}
      BY <1>2
    <2> QED
      BY <1>1, <2>1 DEF LocalsInv, Local
  <1> DEFINE s == "idle"
  <1>5. at[p] \notin {"cache", "tell", "told"}
    BY <1>2
  <1>6. s \in {"idle", "reconcile"} /\ s = "idle" /\ at' = [at EXCEPT ![p] = s]
    BY <1>2
  <1> HIDE DEF s
  <1> QED
    BY <1>2, <1>3, <1>4, <1>5, <1>6, EndStep

\* What an import was shown (apiConfigImport).
LEMMA PreviewStep ==
    ASSUME SettingsInv, NEW p \in Importers,
           NEW f \in [FilterKeys -> Settings], Preview(p, f)
    PROVE  SettingsInv'
  <1>1. TypeInv /\ LocalsInv /\ p \in Actors /\ p \notin Putters
    BY Apart DEF SettingsInv, Actors
  <1>2. /\ at[p] = "idle" /\ at'[p] = "import" /\ body'[p] = f
        /\ left' = left /\ closures' = closures /\ OthersStay(p)
        /\ UNCHANGED <<row, cached, heard, mu, before, audited, announced,
                       unsaid>>
    BY <1>1 DEF Preview, TypeInv, OthersStay
  <1>3. NoImportBefore /\ TypeInv' /\ budget'.imports # 0
    BY <1>1, Spent DEF Preview, TypeInv, NoImportBefore
  <1>4. DOMAIN closures[p] = {} /\ DOMAIN f = FilterKeys
    BY <1>1, <1>2 DEF LocalsInv, Local
  <1>5. left[p] = {}
    BY <1>1 DEF LocalsInv, Local
  <1>6. Local(p)'
    BY <1>1, <1>2, <1>3, <1>4, <1>5, Apart DEF Local
  <1> QED
    BY <1>1, <1>2, <1>3, <1>4, <1>6, BetweenSettings DEF WillReconcile

\* What it found, what it applied, and filters that it skips.
LEMMA ImportStep ==
    ASSUME SettingsInv, NEW p \in Importers,
           Found(p) \/ ApplyTables(p) \/ SkipFilters(p)
    PROVE  SettingsInv'
  <1>1. TypeInv /\ LocalsInv /\ p \in Actors /\ p \notin Putters
    BY Apart DEF SettingsInv, Actors
  <1>2. /\ at[p] \in {"import", "tables", "filters"}
        /\ at'[p] \in {"tables", "filters", "reconcile"}
        /\ UNCHANGED <<row, cached, heard, mu, body, left, next, closures,
                       audited, announced, unsaid>>
        /\ UNCHANGED budget \/ Spend("failures", MaxFailures)
        /\ OthersStay(p)
    BY <1>1 DEF Found, ApplyTables, SkipFilters, TypeInv, OthersStay, Fails
  <1>3. NoImportBefore
    BY <1>1, <1>2, Spent DEF NoImportBefore
  <1>4. TypeInv'
    <2>1. before' \in [Actors -> [FilterKeys -> Value]]
      <3>1. before' = before \/ before' = [before EXCEPT ![p] = Filters(row)]
        BY DEF Found, ApplyTables, SkipFilters
      <3>2. Filters(row) \in [FilterKeys -> Value]
        BY EffectiveValue
      <3> QED
        BY <1>1, <3>1, <3>2 DEF TypeInv
    <2>2. DOMAIN at' = Actors /\ DOMAIN shown' = Actors
      BY <1>1 DEF Found, ApplyTables, SkipFilters, TypeInv
    <2>3. budget' \in [requests : Nat, imports : Nat, failures : Nat,
                       restarts : Nat]
      BY <1>1, <1>2, Spent DEF TypeInv
    <2> QED
      BY <1>1, <1>2, <2>1, <2>2, <2>3 DEF TypeInv
  <1>5. DOMAIN closures[p] = {} /\ budget.imports # 0
    BY <1>1, <1>2 DEF LocalsInv, Local
  <1>6. Local(p)'
    BY <1>1, <1>2, <1>3, <1>5 DEF LocalsInv, Local, NoImportBefore
  <1>7. /\ at[p] \notin {"cache", "tell", "told"}
        /\ at'[p] \notin {"cache", "tell", "told"}
        /\ WillReconcile(p) => WillReconcile(p)'
    BY <1>2 DEF WillReconcile
  <1> QED
    BY <1>1, <1>2, <1>3, <1>4, <1>5, <1>6, <1>7, BetweenSettings

----------------------------------------------------------------------------
(* Settings: steps of a request that is changing a setting: it is alone *)

\* No other request is in the middle of a setting.
LEMMA Alone ==
    ASSUME SettingsInv, NEW p \in Putters, at[p] \in Critical
    PROVE  \A q \in Putters : q # p =>
              /\ at[q] \notin Critical /\ DOMAIN closures[q] = {}
              /\ \A k : ~WillSet(q, k) /\ ~WillTell(q, k)
  <1> SUFFICES ASSUME NEW q \in Putters, q # p
               PROVE  /\ at[q] \notin Critical /\ DOMAIN closures[q] = {}
                      /\ \A k : ~WillSet(q, k) /\ ~WillTell(q, k)
    OBVIOUS
  <1>1. at[q] \notin Critical /\ q \in Actors
    BY DEF SettingsInv, MutexInv, Actors
  <1>2. DOMAIN closures[q] = {}
    BY <1>1 DEF SettingsInv, LocalsInv, Local, Critical
  <1> QED
    BY <1>1, <1>2 DEF WillSet, WillTell, Critical

\* So what a cached value or a subscriber lacks, it is about to give.
LEMMA AgreeMine ==
    ASSUME SettingsInv, NEW p \in Putters, at[p] \in Critical,
           NEW k \in Settable, Watched(k)
    PROVE  /\ cached[k] = Effective(row, k) \/ WillSet(p, k)
           /\ heard[k] = cached[k] \/ WillTell(p, k)
           /\ at[p] \in {"cache", "tell"} /\ next[p] = k =>
                 ValueOf(body[p][k]) = Effective(row, k)
           /\ k \in DOMAIN closures[p] => closures[p][k] = Effective(row, k)
  BY Alone DEF SettingsInv, AgreeInv

\* And it is enough to look at what it does itself.
LEMMA AgreeAlone ==
    ASSUME SettingsInv, NEW p \in Putters, at[p] \in Critical, OthersStay(p),
           \A k \in Settable : Watched(k)' =>
              /\ cached'[k] = Effective(row', k) \/ WillSet(p, k)'
              /\ heard'[k] = cached'[k] \/ WillTell(p, k)'
              /\ at'[p] \in {"cache", "tell"} /\ next'[p] = k =>
                    ValueOf(body'[p][k]) = Effective(row', k)
              /\ k \in DOMAIN closures'[p] =>
                    closures'[p][k] = Effective(row', k)
    PROVE  AgreeInv'
  <1>1. ASSUME NEW q \in Putters, q # p
        PROVE  at'[q] \notin Critical /\ DOMAIN closures'[q] = {}
    BY <1>1, Alone DEF OthersStay, Actors
  <1>2. ASSUME NEW q \in Putters, NEW k \in Settable, Watched(k)'
        PROVE  /\ at'[q] \in {"cache", "tell"} /\ next'[q] = k =>
                     ValueOf(body'[q][k]) = Effective(row', k)
               /\ k \in DOMAIN closures'[q] =>
                     closures'[q][k] = Effective(row', k)
    <2>1. CASE q = p
      BY <1>2, <2>1
    <2>2. CASE q # p
      BY <1>1, <2>2 DEF Critical
    <2> QED
      BY <2>1, <2>2
  <1> QED
    BY <1>2 DEF AgreeInv

\* Only a reset of a filter or a value of it changes the filters.
LEMMA SameFilters ==
    ASSUME NEW r, NEW s, \A k \in FilterKeys : r[k] = s[k]
    PROVE  Filters(r) = Filters(s)
  BY DEF Filters, Effective

\* A row that is accepted is what the setting is after a restart.
LEMMA AcceptedValue ==
    ASSUME NEW r, NEW k, Accepts(k, r[k])
    PROVE  Effective(r, k) = ValueOf(r[k]) /\ ValueOf(r[k]) \in Settings
  BY Apart DEF Accepts, Effective, ValueOf

\* The row of a setting that is no filter (store/settings.go, Set and Delete).
LEMMA SaveRowStep ==
    ASSUME SettingsInv, NEW p \in Putters, NEW k \in Settable,
           at[p] = "save", k \in left[p], SaveRow(p, k, body[p][k])
    PROVE  SettingsInv'
  <1>1. TypeInv /\ LocalsInv /\ MutexInv /\ p \in Actors /\ Local(p)
    BY DEF SettingsInv, Actors, LocalsInv
  <1>2. /\ at'[p] = "cache" /\ next'[p] = k /\ left'[p] = left[p] \ {k}
        /\ row'[k] = body[p][k] /\ DOMAIN row' = Settable
        /\ \A l \in Settable : l # k => row'[l] = row[l]
        /\ OthersStay(p)
        /\ UNCHANGED <<cached, heard, mu, body, before, closures, audited,
                       announced, unsaid, budget>>
    BY <1>1 DEF SaveRow, TypeInv, OthersStay
  <1>3. /\ k \in Plain(body[p]) /\ k \notin FilterKeys /\ k \notin Overridden
        /\ DOMAIN closures[p] = {} /\ p \notin Importers
    BY <1>1, Apart DEF SaveRow, Accepts, Local, Plain
  <1>4. NoImportBefore /\ Filters(row') = Filters(row)
    BY <1>2, <1>3, SameFilters, Apart DEF NoImportBefore
  <1>5. TypeInv'
    BY <1>1, <1>2 DEF TypeInv, SaveRow
  <1>6. LocalsInv'
    <2>1. Local(p)'
      BY <1>1, <1>2, <1>3 DEF Local
    <2> QED
      BY <1>1, <1>2, <1>4, <2>1, LocalsStay
  <1>7. mu = p
    BY <1>1 DEF MutexInv, Critical
  <1>8. MutexInv'
    BY <1>1, <1>2, <1>7, MutexStays
  <1>9. AnnounceInv'
    BY <1>1, <1>2, <1>4, AnnounceStays DEF SettingsInv, WillReconcile
  <1>10. AgreeInv'
    <2>1. ASSUME NEW l \in Settable, Watched(l)'
          PROVE  /\ cached'[l] = Effective(row', l) \/ WillSet(p, l)'
                 /\ heard'[l] = cached'[l] \/ WillTell(p, l)'
                 /\ at'[p] \in {"cache", "tell"} /\ next'[p] = l =>
                       ValueOf(body'[p][l]) = Effective(row', l)
                 /\ l \in DOMAIN closures'[p] =>
                       closures'[p][l] = Effective(row', l)
      <3>1. CASE l = k
        <4>1. Effective(row', k) = ValueOf(row'[k])
          BY <1>2, AcceptedValue DEF SaveRow
        <4> QED
          BY <1>2, <1>3, <3>1, <4>1 DEF WillSet, WillTell
      <3>2. CASE l # k
        <4>1. /\ cached[l] = Effective(row, l) \/ WillSet(p, l)
              /\ heard[l] = cached[l] \/ WillTell(p, l)
          BY <1>2, <2>1, AgreeMine DEF Watched, Critical
        <4>2. Effective(row', l) = Effective(row, l)
          BY <1>2, <3>2 DEF Effective
        <4>3. ~WillSet(p, l) /\ ~WillTell(p, l)
          BY <1>3 DEF WillSet, WillTell
        <4> QED
          BY <1>2, <1>3, <3>2, <4>1, <4>2, <4>3
      <3> QED
        BY <3>1, <3>2
    <2> QED
      BY <1>2, <2>1, AgreeAlone DEF Critical
  <1>11. AuditInv'
    BY <1>1, <1>2, <1>4, AuditStays DEF SettingsInv, AuditInv
  <1> QED
    BY <1>5, <1>6, <1>8, <1>9, <1>10, <1>11 DEF SettingsInv

\* The cached value (setting.go, Set): it is what the row has.
LEMMA CacheValueStep ==
    ASSUME SettingsInv, NEW p \in Putters, CacheValue(p)
    PROVE  SettingsInv'
  <1> DEFINE k == next[p]
             v == ValueOf(body[p][k])
  <1>1. TypeInv /\ LocalsInv /\ MutexInv /\ p \in Actors /\ Local(p)
    BY DEF SettingsInv, Actors, LocalsInv
  <1>2. /\ at[p] = "cache" /\ at'[p] = "tell"
        /\ cached' = [cached EXCEPT ![k] = v]
        /\ OthersStay(p)
        /\ UNCHANGED <<row, heard, mu, body, left, next, before, closures,
                       audited, announced, unsaid, budget>>
    BY <1>1 DEF CacheValue, TypeInv, OthersStay
  <1>3. /\ k \in Settable /\ k \notin FilterKeys /\ k \notin Overridden
        /\ k \in DOMAIN body[p]
        /\ DOMAIN closures[p] = {} /\ p \notin Importers /\ Watched(k)
    BY <1>1, <1>2, Apart DEF Local, Plain, Watched
  <1>4. v = Effective(row, k)
    BY <1>2, <1>3, AgreeMine DEF Critical
  <1>5. NoImportBefore
    BY <1>2 DEF NoImportBefore
  <1>6. TypeInv'
    BY <1>1, <1>2, <1>3, <1>4, EffectiveValue DEF TypeInv, CacheValue
  <1>7. LocalsInv'
    <2>1. Local(p)'
      BY <1>1, <1>2, <1>3 DEF Local
    <2> QED
      BY <1>1, <1>2, <1>5, <2>1, LocalsStay
  <1>8. MutexInv'
    BY <1>1, <1>2, MutexStays DEF MutexInv, Critical
  <1>9. AnnounceInv'
    BY <1>1, <1>2, AnnounceStays DEF SettingsInv, WillReconcile
  <1>10. AgreeInv'
    <2>1. ASSUME NEW l \in Settable, Watched(l)'
          PROVE  /\ cached'[l] = Effective(row', l) \/ WillSet(p, l)'
                 /\ heard'[l] = cached'[l] \/ WillTell(p, l)'
                 /\ at'[p] \in {"cache", "tell"} /\ next'[p] = l =>
                       ValueOf(body'[p][l]) = Effective(row', l)
                 /\ l \in DOMAIN closures'[p] =>
                       closures'[p][l] = Effective(row', l)
      <3>1. CASE l = k
        BY <1>1, <1>2, <1>3, <1>4, <3>1 DEF WillTell, TypeInv
      <3>2. CASE l # k
        <4>1. /\ cached[l] = Effective(row, l) \/ WillSet(p, l)
              /\ heard[l] = cached[l] \/ WillTell(p, l)
          BY <1>2, <2>1, AgreeMine DEF Watched, Critical
        <4>2. ~WillSet(p, l) /\ ~WillTell(p, l)
          BY <1>3, <3>2 DEF WillSet, WillTell
        <4> QED
          BY <1>1, <1>2, <1>3, <3>2, <4>1, <4>2 DEF TypeInv
      <3> QED
        BY <3>1, <3>2
    <2> QED
      BY <1>2, <2>1, AgreeAlone DEF Critical
  <1>11. AuditInv'
    BY <1>1, <1>2, <1>5, AuditStays DEF SettingsInv, AuditInv
  <1> QED
    BY <1>6, <1>7, <1>8, <1>9, <1>10, <1>11 DEF SettingsInv

\* The subscribers (setting.go, Set): nobody else changes the value meanwhile.
LEMMA TellStep ==
    ASSUME SettingsInv, NEW p \in Putters, Tell(p)
    PROVE  SettingsInv'
  <1> DEFINE k == next[p]
             v == ValueOf(body[p][k])
  <1>1. TypeInv /\ LocalsInv /\ MutexInv /\ p \in Actors /\ Local(p)
    BY DEF SettingsInv, Actors, LocalsInv
  <1>2. /\ at[p] = "tell" /\ at'[p] = "save"
        /\ heard' = [heard EXCEPT ![k] = v]
        /\ OthersStay(p)
        /\ UNCHANGED <<row, cached, mu, body, left, before, closures,
                       audited, announced, unsaid, budget>>
    BY <1>1 DEF Tell, TypeInv, OthersStay
  <1>3. /\ k \in Settable /\ k \notin FilterKeys
        /\ DOMAIN closures[p] = {} /\ p \notin Importers /\ Watched(k)
    BY <1>1, <1>2, Apart DEF Local, Plain, Watched
  <1>4. v = Effective(row, k)
    BY <1>2, <1>3, AgreeMine DEF Critical
  <1>5. NoImportBefore
    BY <1>2 DEF NoImportBefore
  <1>6. TypeInv'
    BY <1>1, <1>2, <1>3, <1>4, EffectiveValue DEF TypeInv, Tell
  <1>7. LocalsInv'
    <2>1. Local(p)'
      BY <1>1, <1>2, <1>3 DEF Local
    <2> QED
      BY <1>1, <1>2, <1>5, <2>1, LocalsStay
  <1>8. MutexInv'
    BY <1>1, <1>2, MutexStays DEF MutexInv, Critical
  <1>9. AnnounceInv'
    BY <1>1, <1>2, AnnounceStays DEF SettingsInv, WillReconcile
  <1>10. AgreeInv'
    <2>1. ASSUME NEW l \in Settable, Watched(l)'
          PROVE  /\ cached'[l] = Effective(row', l)
                 /\ heard'[l] = cached'[l]
      <3>1. /\ cached[l] = Effective(row, l) \/ WillSet(p, l)
            /\ heard[l] = cached[l] \/ WillTell(p, l)
        BY <1>2, <2>1, AgreeMine DEF Watched, Critical
      <3>2. ~WillSet(p, l)
        BY <1>2, <1>3 DEF WillSet
      <3>3. CASE l = k
        BY <1>1, <1>2, <1>3, <1>4, <3>1, <3>2, <3>3 DEF TypeInv
      <3>4. CASE l # k
        BY <1>1, <1>2, <1>3, <3>1, <3>2, <3>4 DEF TypeInv, WillTell
      <3> QED
        BY <3>3, <3>4
    <2>2. at'[p] \notin {"cache", "tell"} /\ DOMAIN closures'[p] = {}
      BY <1>2, <1>3
    <2> QED
      BY <1>2, <2>1, <2>2, AgreeAlone DEF Critical
  <1>11. AuditInv'
    BY <1>1, <1>2, <1>5, AuditStays DEF SettingsInv, AuditInv
  <1> QED
    BY <1>6, <1>7, <1>8, <1>9, <1>10, <1>11 DEF SettingsInv

----------------------------------------------------------------------------
(* Settings: the transaction of the filters, and what follows it *)

\* An audit row more leads on from the last one.
LEMMA ChainGrows ==
    ASSUME NEW k \in FilterKeys, audited[k] \in Seq(Change), Chain(k),
           NEW from \in Value, NEW to \in Value,
           from = Effective(row, k), to = Effective(row', k),
           audited'[k] = IF from = to THEN audited[k]
                         ELSE Append(audited[k], [from |-> from, to |-> to])
    PROVE  Chain(k)'
  <1>1. CASE from = to
    BY <1>1 DEF Chain
  <1>2. CASE from # to
    <2> DEFINE c == [from |-> from, to |-> to]
    <2>1. c \in Change /\ c.from = from /\ c.to = to
      BY DEF Change
    <2> HIDE DEF c
    <2>2. /\ Len(audited'[k]) = Len(audited[k]) + 1
          /\ \A i \in 1..Len(audited[k]) : audited'[k][i] = audited[k][i]
          /\ audited'[k][Len(audited[k]) + 1] = c
          /\ audited'[k] # << >>
      BY <1>2 DEF c
    <2>3. ASSUME NEW i \in 1..Len(audited'[k])
          PROVE  audited'[k][i].from =
                    IF i = 1 THEN Default ELSE audited'[k][i - 1].to
      <3>1. CASE i \in 1..Len(audited[k])
        <4>1. audited[k][i].from =
                 IF i = 1 THEN Default ELSE audited[k][i - 1].to
          BY <3>1 DEF Chain
        <4>2. Len(audited[k]) \in Nat /\ (i = 1 \/ i - 1 \in 1..Len(audited[k]))
          BY <3>1
        <4> QED
          BY <2>2, <3>1, <4>1, <4>2
      <3>2. CASE i = Len(audited[k]) + 1
        <4>1. CASE audited[k] = << >>
          BY <2>1, <2>2, <3>2, <4>1 DEF Chain
        <4>2. CASE audited[k] # << >>
          BY <2>1, <2>2, <3>2, <4>2 DEF Chain
        <4> QED
          BY <4>1, <4>2
      <3> QED
        BY <2>2, <2>3, <3>1, <3>2
    <2> QED
      BY <2>1, <2>2, <2>3 DEF Chain
  <1> QED
    BY <1>1, <1>2

\* What the audit rows say are changes of values.
LEMMA AuditTypes ==
    ASSUME TypeInv, NEW from \in [FilterKeys -> Value],
           NEW to \in [FilterKeys -> Value], Audit(from, to)
    PROVE  audited' \in [FilterKeys -> Seq(Change)]
  <1>1. ASSUME NEW k \in FilterKeys
        PROVE  (IF from[k] = to[k] THEN audited[k]
                ELSE Append(audited[k], [from |-> from[k], to |-> to[k]]))
                  \in Seq(Change)
    <2> DEFINE c == [from |-> from[k], to |-> to[k]]
    <2>1. c \in Change
      BY DEF Change
    <2> HIDE DEF c
    <2>2. audited[k] \in Seq(Change)
      BY DEF TypeInv
    <2>3. Append(audited[k], c) \in Seq(Change)
      BY <2>1, <2>2
    <2> QED
      BY <2>2, <2>3 DEF c
  <1> QED
    BY <1>1 DEF Audit

\* The rows of both filters and their audit row (settings.go, SetTx, ResetTx).
LEMMA SaveFiltersStep ==
    ASSUME SettingsInv, NEW p \in Putters, SaveFilters(p)
    PROVE  SettingsInv'
  <1> DEFINE new == [k \in FilterKeys |->
                       IF k \in DOMAIN closures'[p] THEN closures'[p][k]
                       ELSE before[p][k]]
  <1>1. /\ TypeInv /\ LocalsInv /\ MutexInv /\ AuditInv
        /\ p \in Actors /\ Local(p)
    BY DEF SettingsInv, Actors, LocalsInv
  <1>2. /\ at[p] = "save" /\ at'[p] = "commit"
        /\ closures'[p] = [k \in Some(body[p]) |-> ValueOf(body[p][k])]
        /\ row' = [k \in Settable |->
                     IF k \in Some(body[p]) THEN body[p][k] ELSE row[k]]
        /\ Audit(before[p], new)
        /\ \A k \in Some(body[p]) : Accepts(k, body[p][k])
        /\ Some(body[p]) # {}
        /\ OthersStay(p)
        /\ UNCHANGED <<cached, heard, mu, body, left, next, before,
                       announced, unsaid, budget>>
    BY <1>1 DEF SaveFilters, TypeInv, OthersStay
  <1>3. /\ DOMAIN closures[p] = {} /\ p \notin Importers
        /\ Some(body[p]) \subseteq FilterKeys
        /\ DOMAIN closures'[p] = Some(body[p])
    BY <1>1, <1>2, Apart DEF Local, Some
  <1>4. NoImportBefore
    BY <1>2 DEF NoImportBefore
  <1>5. ASSUME NEW k \in Some(body[p])
        PROVE  /\ closures'[p][k] = Effective(row', k)
               /\ closures'[p][k] \in Settings
    <2>1. row'[k] = body[p][k] /\ closures'[p][k] = ValueOf(body[p][k])
      BY <1>2, <1>3, <1>5, Apart
    <2>2. Accepts(k, row'[k])
      BY <1>2, <1>5, <2>1
    <2> QED
      BY <2>1, <2>2, AcceptedValue
  <1>6. ASSUME NEW k \in Settable, k \notin Some(body[p])
        PROVE  Effective(row', k) = Effective(row, k)
    <2>1. row'[k] = row[k]
      BY <1>2, <1>6
    <2> QED
      BY <2>1 DEF Effective
  <1>7. before[p] \in [FilterKeys -> Value]
    BY <1>1 DEF TypeInv
  <1>8. new \in [FilterKeys -> Value]
    BY <1>3, <1>5, <1>7 DEF Value
  <1> HIDE DEF new
  <1>9. TypeInv'
    <2>1. audited' \in [FilterKeys -> Seq(Change)]
      BY <1>1, <1>2, <1>7, <1>8, AuditTypes
    <2> QED
      BY <1>1, <1>2, <2>1 DEF TypeInv, SaveFilters
  <1>10. LocalsInv'
    <2>1. Local(p)'
      BY <1>1, <1>2, <1>3, <1>5 DEF Local
    <2> QED
      BY <1>1, <1>2, <1>4, <2>1, LocalsStay
  <1>11. MutexInv'
    BY <1>1, <1>2, MutexStays DEF MutexInv, Critical
  <1>12. AnnounceInv'
    BY <1>1, <1>2 DEF AnnounceInv, WillReconcile
  <1>13. AgreeInv'
    <2>1. ASSUME NEW l \in Settable, Watched(l)'
          PROVE  /\ cached'[l] = Effective(row', l) \/ WillSet(p, l)'
                 /\ heard'[l] = cached'[l] \/ WillTell(p, l)'
                 /\ l \in DOMAIN closures'[p] =>
                       closures'[p][l] = Effective(row', l)
      <3>1. CASE l \in Some(body[p])
        BY <1>2, <1>3, <1>5, <3>1 DEF WillSet, WillTell
      <3>2. CASE l \notin Some(body[p])
        <4>1. /\ cached[l] = Effective(row, l) \/ WillSet(p, l)
              /\ heard[l] = cached[l] \/ WillTell(p, l)
          BY <1>2, <2>1, AgreeMine DEF Watched, Critical
        <4>2. ~WillSet(p, l) /\ ~WillTell(p, l)
          BY <1>2, <1>3 DEF WillSet, WillTell
        <4> QED
          BY <1>2, <1>3, <1>6, <3>2, <4>1, <4>2
      <3> QED
        BY <3>1, <3>2
    <2>2. at'[p] \notin {"cache", "tell"}
      BY <1>2
    <2> QED
      BY <1>2, <2>1, <2>2, AgreeAlone DEF Critical
  <1>14. AuditInv'
    <2> SUFFICES ASSUME budget.imports = 0
                 PROVE  /\ AuditIsChain'
                        /\ \A q \in Putters : at'[q] \notin {"save", "cache", "tell"}
      BY <1>2 DEF AuditInv
    <2>1. before[p] = Filters(row) /\ AuditIsChain
      BY <1>1, <1>2 DEF AuditInv
    <2>2. ASSUME NEW k \in FilterKeys
          PROVE  Chain(k)'
      <3>1. before[p][k] = Effective(row, k)
        BY <2>1, EffectiveValue
      <3>2. new[k] = Effective(row', k)
        BY <1>3, <1>5, <1>6, <3>1, Apart DEF new
      <3>3. audited'[k] = IF before[p][k] = new[k] THEN audited[k]
                          ELSE Append(audited[k],
                                      [from |-> before[p][k], to |-> new[k]])
        BY <1>2 DEF Audit
      <3>4. /\ audited[k] \in Seq(Change) /\ Chain(k)
            /\ before[p][k] \in Value /\ new[k] \in Value
        BY <1>1, <1>7, <1>8, <2>1 DEF TypeInv, AuditIsChain
      <3> QED
        BY <3>1, <3>2, <3>3, <3>4, ChainGrows
    <2>3. ASSUME NEW q \in Putters
          PROVE  at'[q] \notin {"save", "cache", "tell"}
      <3>1. CASE q = p
        BY <1>2, <3>1
      <3>2. CASE q # p
        BY <1>2, <3>2, Alone DEF Critical, OthersStay, Actors
      <3> QED
        BY <3>1, <3>2
    <2> QED
      BY <2>2, <2>3 DEF AuditIsChain
  <1> QED
    BY <1>9, <1>10, <1>11, <1>12, <1>13, <1>14 DEF SettingsInv

\* An import touches nothing but filters, whose rows are not watched then.
LEMMA AgreeByImport ==
    ASSUME AgreeInv, NEW p \in Importers, OthersStay(p),
           UNCHANGED budget, budget.imports # 0,
           \A k \in Settable \ FilterKeys :
              row'[k] = row[k] /\ cached'[k] = cached[k] /\ heard'[k] = heard[k]
    PROVE  AgreeInv'
  <1> SUFFICES ASSUME NEW k \in Settable, Watched(k)'
               PROVE  /\ cached'[k] = Effective(row', k)
                         \/ \E q \in Putters : WillSet(q, k)'
                      /\ heard'[k] = cached'[k]
                         \/ \E q \in Putters : WillTell(q, k)'
                      /\ \A q \in Putters :
                            /\ at'[q] \in {"cache", "tell"} /\ next'[q] = k =>
                                  ValueOf(body'[q][k]) = Effective(row', k)
                            /\ k \in DOMAIN closures'[q] =>
                                  closures'[q][k] = Effective(row', k)
    BY DEF AgreeInv
  <1>1. Watched(k) /\ k \notin FilterKeys
    BY DEF Watched
  <1>2. row'[k] = row[k] /\ cached'[k] = cached[k] /\ heard'[k] = heard[k]
    BY <1>1
  <1>3. Effective(row', k) = Effective(row, k)
    BY <1>2 DEF Effective
  <1>4. ASSUME NEW q \in Putters
        PROVE  /\ at'[q] = at[q] /\ body'[q] = body[q] /\ next'[q] = next[q]
               /\ closures'[q] = closures[q]
               /\ WillSet(q, k)' <=> WillSet(q, k)
               /\ WillTell(q, k)' <=> WillTell(q, k)
    <2>1. q \in Actors \ {p}
      BY Apart DEF Actors
    <2> QED
      BY <2>1 DEF OthersStay, WillSet, WillTell
  <1> QED
    BY <1>1, <1>2, <1>3, <1>4 DEF AgreeInv

\* The cached value of a filter, after the commit (setting.go, commit).
LEMMA CommitCachedStep ==
    ASSUME SettingsInv, NEW p \in Actors, NEW k \in Settable,
           CommitCached(p, k)
    PROVE  SettingsInv'
  <1>1. TypeInv /\ LocalsInv /\ MutexInv /\ Local(p)
    BY DEF SettingsInv, LocalsInv
  <1>2. /\ at[p] = "commit" /\ at'[p] = "told" /\ next'[p] = k
        /\ cached' = [cached EXCEPT ![k] = closures[p][k]]
        /\ k \in DOMAIN closures[p]
        /\ OthersStay(p)
        /\ UNCHANGED <<row, heard, mu, body, left, before, closures,
                       audited, announced, unsaid, budget>>
    BY <1>1 DEF CommitCached, TypeInv, OthersStay
  <1>3. k \in FilterKeys /\ closures[p][k] \in Settings
    BY <1>1, <1>2 DEF Local
  <1>4. NoImportBefore
    BY <1>2 DEF NoImportBefore
  <1>5. TypeInv'
    BY <1>1, <1>2, <1>3 DEF TypeInv, Value, CommitCached
  <1>6. LocalsInv'
    <2>1. Local(p)'
      BY <1>1, <1>2, <1>3 DEF Local
    <2> QED
      BY <1>1, <1>2, <1>4, <2>1, LocalsStay
  <1>7. MutexInv'
    BY <1>1, <1>2, MutexStays DEF MutexInv, Critical
  <1>8. AnnounceInv'
    BY <1>1, <1>2, AnnounceStays DEF SettingsInv, WillReconcile
  <1>9. AgreeInv'
    <2>1. CASE p \in Putters
      <3>1. ASSUME NEW l \in Settable, Watched(l)'
            PROVE  /\ cached'[l] = Effective(row', l) \/ WillSet(p, l)'
                   /\ heard'[l] = cached'[l] \/ WillTell(p, l)'
                   /\ l \in DOMAIN closures'[p] =>
                         closures'[p][l] = Effective(row', l)
        <4>1. /\ cached[l] = Effective(row, l) \/ WillSet(p, l)
              /\ heard[l] = cached[l] \/ WillTell(p, l)
              /\ l \in DOMAIN closures[p] =>
                    closures[p][l] = Effective(row, l)
          BY <1>2, <2>1, <3>1, AgreeMine DEF Watched, Critical
        <4>2. CASE l = k
          BY <1>1, <1>2, <4>1, <4>2 DEF WillTell, TypeInv
        <4>3. CASE l # k
          BY <1>1, <1>2, <4>1, <4>3 DEF WillSet, WillTell, TypeInv
        <4> QED
          BY <4>2, <4>3
      <3>2. at'[p] \notin {"cache", "tell"}
        BY <1>2
      <3> QED
        BY <1>2, <2>1, <3>1, <3>2, AgreeAlone DEF Critical
    <2>2. CASE p \in Importers
      BY <1>1, <1>2, <1>3, <2>2, AgreeByImport DEF SettingsInv, Local, TypeInv
    <2> QED
      BY <2>1, <2>2 DEF Actors
  <1>10. AuditInv'
    BY <1>1, <1>2, <1>4, AuditStays DEF SettingsInv
  <1> QED
    BY <1>5, <1>6, <1>7, <1>8, <1>9, <1>10 DEF SettingsInv

\* The subscribers of a filter (setting.go, commit).
LEMMA CommitToldStep ==
    ASSUME SettingsInv, NEW p \in Actors, CommitTold(p)
    PROVE  SettingsInv'
  <1> DEFINE k == next[p]
             rest == [l \in DOMAIN closures[p] \ {k} |-> closures[p][l]]
  <1>1. TypeInv /\ LocalsInv /\ MutexInv /\ Local(p)
    BY DEF SettingsInv, LocalsInv
  <1>2. /\ at[p] = "told" /\ at'[p] = "commit"
        /\ heard' = [heard EXCEPT ![k] = closures[p][k]]
        /\ closures'[p] = rest
        /\ OthersStay(p)
        /\ UNCHANGED <<row, cached, mu, body, left, before,
                       audited, announced, unsaid, budget>>
    BY <1>1 DEF CommitTold, TypeInv, OthersStay
  <1>3. /\ k \in FilterKeys /\ k \in Settable /\ k \in DOMAIN closures[p]
        /\ closures[p][k] \in Settings
    BY <1>1, <1>2, Apart DEF Local
  <1>4. NoImportBefore
    BY <1>2 DEF NoImportBefore
  <1>5. TypeInv'
    BY <1>1, <1>2, <1>3 DEF TypeInv, Value, CommitTold
  <1>6. LocalsInv'
    <2>1. Local(p)'
      BY <1>1, <1>2, <1>3 DEF Local
    <2> QED
      BY <1>1, <1>2, <1>4, <2>1, LocalsStay
  <1>7. MutexInv'
    BY <1>1, <1>2, MutexStays DEF MutexInv, Critical
  <1>8. AnnounceInv'
    BY <1>1, <1>2, AnnounceStays DEF SettingsInv, WillReconcile
  <1>9. AgreeInv'
    <2>1. CASE p \in Putters
      <3>1. ASSUME NEW l \in Settable, Watched(l)'
            PROVE  /\ cached'[l] = Effective(row', l) \/ WillSet(p, l)'
                   /\ heard'[l] = cached'[l] \/ WillTell(p, l)'
                   /\ l \in DOMAIN closures'[p] =>
                         closures'[p][l] = Effective(row', l)
        <4>1. /\ cached[l] = Effective(row, l) \/ WillSet(p, l)
              /\ heard[l] = cached[l] \/ WillTell(p, l)
              /\ l \in DOMAIN closures[p] =>
                    closures[p][l] = Effective(row, l)
          BY <1>2, <2>1, <3>1, AgreeMine DEF Watched, Critical
        <4>2. CASE l = k
          <5>1. ~WillSet(p, l)
            BY <1>2, <4>2 DEF WillSet
          <5> QED
            BY <1>1, <1>2, <1>3, <4>1, <4>2, <5>1 DEF TypeInv
        <4>3. CASE l # k
          <5>1. /\ WillSet(p, l) => WillSet(p, l)'
                /\ WillTell(p, l) => WillTell(p, l)'
            BY <1>2, <4>3 DEF WillSet, WillTell
          <5> QED
            BY <1>1, <1>2, <1>3, <4>1, <4>3, <5>1 DEF TypeInv
        <4> QED
          BY <4>2, <4>3
      <3>2. at'[p] \notin {"cache", "tell"}
        BY <1>2
      <3> QED
        BY <1>2, <2>1, <3>1, <3>2, AgreeAlone DEF Critical
    <2>2. CASE p \in Importers
      BY <1>1, <1>2, <1>3, <2>2, AgreeByImport DEF SettingsInv, Local, TypeInv
    <2> QED
      BY <2>1, <2>2 DEF Actors
  <1>10. AuditInv'
    BY <1>1, <1>2, <1>4, AuditStays DEF SettingsInv
  <1> QED
    BY <1>5, <1>6, <1>7, <1>8, <1>9, <1>10 DEF SettingsInv

\* The filters of an import (applyGlobalFiltersFromImport).
LEMMA ApplyFiltersStep ==
    ASSUME SettingsInv, NEW p \in Importers, ApplyFilters(p)
    PROVE  SettingsInv'
  <1>1. TypeInv /\ LocalsInv /\ MutexInv /\ p \in Actors /\ Local(p)
    BY DEF SettingsInv, LocalsInv, Actors
  <1>2. /\ at[p] = "filters" /\ at'[p] = "commit"
        /\ row' = [k \in Settable |-> IF k \in FilterKeys THEN body[p][k]
                                      ELSE row[k]]
        /\ closures'[p] = body[p]
        /\ Audit(before[p], body[p])
        /\ OthersStay(p)
        /\ UNCHANGED <<cached, heard, mu, body, left, next, before,
                       announced, unsaid, budget>>
    BY <1>1 DEF ApplyFilters, TypeInv, OthersStay
  <1>3. body[p] \in [FilterKeys -> Settings] /\ budget.imports # 0
        /\ p \notin Putters
    BY <1>1, <1>2, Apart DEF Local
  <1>4. NoImportBefore
    BY <1>2 DEF NoImportBefore
  <1>5. TypeInv'
    <2>1. body[p] \in [FilterKeys -> Value] /\ before[p] \in [FilterKeys -> Value]
      BY <1>1, <1>3 DEF TypeInv, Value
    <2>2. audited' \in [FilterKeys -> Seq(Change)]
      BY <1>1, <1>2, <2>1, AuditTypes
    <2> QED
      BY <1>1, <1>2, <2>2 DEF TypeInv, ApplyFilters
  <1>6. LocalsInv'
    <2>1. Local(p)'
      BY <1>1, <1>2, <1>3 DEF Local
    <2> QED
      BY <1>1, <1>2, <1>4, <2>1, LocalsStay
  <1>7. MutexInv'
    BY <1>1, <1>2, <1>3, MutexStays DEF MutexInv, Critical
  <1>8. AnnounceInv'
    BY <1>1, <1>2 DEF AnnounceInv, WillReconcile
  <1>9. AgreeInv'
    BY <1>1, <1>2, <1>3, AgreeByImport DEF SettingsInv, TypeInv
  <1>10. AuditInv'
    BY <1>2, <1>3 DEF AuditInv
  <1> QED
    BY <1>5, <1>6, <1>7, <1>8, <1>9, <1>10 DEF SettingsInv

----------------------------------------------------------------------------
(* Settings: every step *)

\* A restart reads the rows and announces the filters (settings.New).
LEMMA RestartStep ==
    ASSUME SettingsInv, Restart
    PROVE  SettingsInv'
  <1>1. TypeInv /\ AuditInv
    BY DEF SettingsInv
  <1>2. /\ cached' = [k \in Settable |-> Effective(row, k)]
        /\ heard' = cached'
        /\ \A p \in Actors : /\ at'[p] = "idle" /\ DOMAIN body'[p] = {}
                             /\ left'[p] = {} /\ DOMAIN closures'[p] = {}
        /\ announced' = Filters(row)
        /\ UNCHANGED <<row, audited>>
    BY DEF Restart, Idle
  <1>3. NoImportBefore
    BY <1>1, Spent DEF Restart, NoImportBefore
  <1>4. TypeInv'
    <2>1. cached' \in [Settable -> Value]
      BY <1>2, EffectiveValue
    <2>2. NoFilters \in [FilterKeys -> Value]
      BY DEF NoFilters, Value
    <2> QED
      BY <1>1, <1>2, <2>1, <2>2, Spent DEF TypeInv, Restart
  <1>5. LocalsInv' /\ MutexInv' /\ AnnounceInv'
    <2>1. ASSUME NEW p \in Actors
          PROVE  Local(p)'
      BY <1>2 DEF Local, Plain
    <2>2. MutexInv'
      BY <1>2 DEF MutexInv, Critical, Actors
    <2>3. Filters(row') = Filters(row)
      BY <1>2
    <2> QED
      BY <1>2, <2>1, <2>2, <2>3 DEF LocalsInv, AnnounceInv
  <1>6. AgreeInv'
    BY <1>2 DEF AgreeInv, Actors
  <1>7. AuditInv'
    <2>1. AuditIsChain => AuditIsChain'
      BY <1>2 DEF AuditIsChain, Chain, Effective
    <2> QED
      BY <1>1, <1>2, <1>3, <2>1 DEF AuditInv, NoImportBefore, Actors
  <1> QED
    BY <1>4, <1>5, <1>6, <1>7 DEF SettingsInv

\* The program starts with what the rows say, and with filters that nobody
\* has changed yet.
LEMMA SettingsStart == SettingsInit => SettingsInv
  <1> SUFFICES ASSUME SettingsInit PROVE SettingsInv
    OBVIOUS
  <1>1. /\ DOMAIN row = Settable
        /\ cached = [k \in Settable |-> Effective(row, k)] /\ heard = cached
        /\ \A p \in Actors : /\ at[p] = "idle" /\ DOMAIN body[p] = {}
                             /\ left[p] = {} /\ DOMAIN closures[p] = {}
    BY DEF SettingsInit, Idle
  <1>2. TypeInv
    <2>1. cached \in [Settable -> Value]
      BY <1>1, EffectiveValue
    <2>2. NoFilters \in [FilterKeys -> Value]
      BY DEF NoFilters, Value
    <2>3. << >> \in Seq(Change)
      OBVIOUS
    <2> QED
      BY <1>1, <2>1, <2>2, <2>3 DEF TypeInv, SettingsInit
  <1>3. LocalsInv /\ MutexInv /\ AnnounceInv
    <2>1. ASSUME NEW p \in Actors
          PROVE  Local(p)
      BY <1>1 DEF Local, Plain
    <2>2. MutexInv
      BY <1>1 DEF MutexInv, Critical, Actors
    <2>3. announced = Filters(row)
      BY DEF SettingsInit
    <2> QED
      BY <2>1, <2>2, <2>3 DEF LocalsInv, AnnounceInv
  <1>4. AgreeInv
    BY <1>1 DEF AgreeInv, Actors
  <1>5. AuditInv
    <2>1. ASSUME NEW k \in FilterKeys
          PROVE  Chain(k)
      <3>1. audited[k] = << >> /\ row[k] = Unset /\ k \notin Overridden
        BY Apart DEF SettingsInit
      <3>2. Effective(row, k) = Default
        BY <3>1, Apart DEF Effective
      <3> QED
        BY <3>1, <3>2 DEF Chain
    <2> QED
      BY <1>1, <2>1 DEF AuditInv, AuditIsChain, Actors
  <1> QED
    BY <1>2, <1>3, <1>4, <1>5 DEF SettingsInv

\* A step that changes nothing.
LEMMA SettingsRest ==
    ASSUME SettingsInv, UNCHANGED settingsVars
    PROVE  SettingsInv'
  <1>1. UNCHANGED <<row, cached, heard, mu, at, body, left, next, before, shown,
                    closures, audited, announced, unsaid, budget>>
    BY DEF settingsVars, locals
  <1>2. TypeInv' /\ MutexInv'
    BY <1>1 DEF SettingsInv, TypeInv, MutexInv
  <1>3. LocalsInv'
    BY <1>1 DEF SettingsInv, LocalsInv, Local
  <1>4. AnnounceInv'
    BY <1>1 DEF SettingsInv, AnnounceInv, WillReconcile
  <1>5. AgreeInv'
    BY <1>1 DEF SettingsInv, AgreeInv, Watched, WillSet, WillTell
  <1>6. AuditInv'
    BY <1>1 DEF SettingsInv, AuditInv, AuditIsChain, Chain
  <1> QED
    BY <1>2, <1>3, <1>4, <1>5, <1>6 DEF SettingsInv

\* No request, import, failure or restart breaks the invariant.
LEMMA SettingsStep ==
    ASSUME SettingsInv, [SettingsNext]_settingsVars
    PROVE  SettingsInv'
  <1>1. CASE \E p \in Putters, b \in Bodies : Put(p, b)
    BY <1>1, PutStep
  <1>2. CASE \E p \in Importers, f \in [FilterKeys -> Settings] : Preview(p, f)
    BY <1>2, PreviewStep
  <1>3. ASSUME NEW p \in Putters,
               \/ Enter(p) \/ CacheValue(p) \/ Tell(p) \/ SaveFails(p)
               \/ SaveFilters(p)
               \/ \E k \in Settable :
                     SetRow(p, k) \/ ResetRow(p, k) \/ SaveRefused(p, k)
        PROVE  SettingsInv'
    <2>1. p \in Actors
      BY DEF Actors
    <2>2. CASE \E k \in Settable : SetRow(p, k) \/ ResetRow(p, k)
      <3>1. PICK k \in Settable : SetRow(p, k) \/ ResetRow(p, k)
        BY <2>2
      <3>2. /\ at[p] = "save" /\ k \in left[p]
            /\ SaveRow(p, k, body[p][k])
        BY <3>1 DEF SetRow, ResetRow
      <3> QED
        BY <3>2, SaveRowStep
    <2>3. CASE SaveFails(p) \/ \E k \in Settable : SaveRefused(p, k)
      BY <2>1, <2>3, RefuseStep
    <2>4. CASE Enter(p) \/ CacheValue(p) \/ Tell(p) \/ SaveFilters(p)
      BY <2>4, EnterStep, CacheValueStep, TellStep, SaveFiltersStep
    <2> QED
      BY <1>3, <2>2, <2>3, <2>4
  <1>4. ASSUME NEW p \in Importers,
               \/ Found(p) \/ ApplyTables(p) \/ Stale(p)
               \/ ApplyFilters(p) \/ SkipFilters(p)
        PROVE  SettingsInv'
    <2>1. p \in Actors
      BY DEF Actors
    <2> QED
      BY <1>4, <2>1, ImportStep, RefuseStep, ApplyFiltersStep
  <1>5. ASSUME NEW p \in Actors,
               \/ \E k \in Settable : CommitCached(p, k)
               \/ CommitTold(p) \/ Leave(p)
               \/ ReconcileFilters(p) \/ ReconcileFails(p)
        PROVE  SettingsInv'
    BY <1>5, CommitCachedStep, CommitToldStep, LeaveStep, ReconcileStep
  <1>6. CASE Restart
    BY <1>6, RestartStep
  <1>7. CASE UNCHANGED settingsVars
    BY <1>7, SettingsRest
  <1> QED
    BY <1>1, <1>2, <1>3, <1>4, <1>5, <1>6, <1>7 DEF SettingsNext

\* So it holds whatever requests, imports, failures and restarts there are.
LEMMA SettingsInvariant == SettingsSpec => []SettingsInv
  BY SettingsStart, SettingsStep, PTL DEF SettingsSpec

----------------------------------------------------------------------------
(* Settings: theorems *)

\* Between requests every setting that the program reads, and that its
\* subscribers were told, is the one of the database, and as long as there was
\* no import the audit log of the filters leads to what is in force
\* (setting.go, Set; handlers_api_settings.go, apiSettingsPut).
THEOREM RecordsStayTrue == SettingsSpec => []RecordsAgree
  <1>1. SettingsInv => RecordsAgree
    <2> SUFFICES ASSUME SettingsInv PROVE RecordsAgree
      OBVIOUS
    <2>1. CacheAgrees
      <3> SUFFICES ASSUME Quiet, NEW k \in Settable,
                          budget.imports = 0 \/ k \notin FilterKeys
                   PROVE  cached[k] = Effective(row, k) /\ heard[k] = cached[k]
        BY DEF CacheAgrees
      <3>1. ASSUME NEW p \in Putters
            PROVE  ~WillSet(p, k) /\ ~WillTell(p, k)
        <4>1. at[p] = "idle" /\ p \in Actors
          BY DEF Quiet, Actors
        <4>2. DOMAIN closures[p] = {}
          BY <4>1 DEF SettingsInv, LocalsInv, Local
        <4> QED
          BY <4>1, <4>2 DEF WillSet, WillTell
      <3> QED
        BY <3>1 DEF SettingsInv, AgreeInv, Watched
    <2>2. budget.imports = 0 => AuditIsChain
      BY DEF SettingsInv, AuditInv
    <2> QED
      BY <2>1, <2>2 DEF RecordsAgree
  <1> QED
    BY <1>1, SettingsInvariant, PTL

\* Every change of the filters, of a request or of an import, is announced by
\* the time the request has ended, or it was said that this failed
\* (apiSettingsPut, apiConfigImport).
THEOREM ChangesAreAnnounced == SettingsSpec => []FiltersAreAnnounced
  <1>1. SettingsInv => FiltersAreAnnounced
    BY DEF SettingsInv, AnnounceInv, FiltersAreAnnounced, Quiet, WillReconcile
  <1> QED
    BY <1>1, SettingsInvariant, PTL

\* Requests that reset no setting whose environment variable is set.
NoOverriddenReset ==
    \A b \in Bodies : \A k \in DOMAIN b \cap Overridden : b[k] # Unset

\* The one thing that the validation lets through and the save refuses is a
\* reset of a setting whose environment variable is set: without one, what was
\* validated is not refused half-way (validateSettingKey, setting.go, Reset).
THEOREM AcceptedRequests ==
    ASSUME NoOverriddenReset
    PROVE  SettingsSpec => []AcceptedIsApplied
  <1>1. SettingsInit => AcceptedIsApplied
    BY DEF SettingsInit, AcceptedIsApplied
  <1>2. ASSUME SettingsInv, AcceptedIsApplied, [SettingsNext]_settingsVars
        PROVE  AcceptedIsApplied'
    <2>1. ASSUME NEW p \in Putters, NEW k \in Settable, SaveRefused(p, k)
          PROVE  FALSE
      <3>1. /\ at[p] = "save" /\ k \in DOMAIN body[p] /\ p \in Actors
            /\ body[p] \in Bodies /\ Allowed(k, body[p][k])
        BY <1>2, <2>1
           DEF SaveRefused, SettingsInv, LocalsInv, Local, Actors, Plain, Some
      <3>2. k \in Overridden => body[p][k] # Unset
        BY <3>1 DEF NoOverriddenReset
      <3>3. Accepts(k, body[p][k])
        BY <3>1, <3>2 DEF Allowed, Accepts
      <3> QED
        BY <2>1, <3>3 DEF SaveRefused
    <2>2. half' = half
      BY <1>2, <2>1
         DEF SettingsNext, settingsVars, locals, Put, Preview, Enter,
             CacheValue, Tell, SaveFails, SaveFilters, SetRow, ResetRow,
             SaveRow, Found, ApplyTables, Stale, ApplyFilters, SkipFilters,
             CommitCached, CommitTold, Leave, ReconcileFilters,
             ReconcileFails, Restart
    <2> QED
      BY <1>2, <2>2 DEF AcceptedIsApplied
  <1> QED
    BY <1>1, <1>2, SettingsInvariant, PTL DEF SettingsSpec


----------------------------------------------------------------------------
(* StoreOpen: the inductive invariant *)

Copied == {"create", "copy", "copyRest", "reopen"}
Rebuild == {"insert", "drop", "rename", "record"}

\* A table's rows, and those of the table in whichever shape a file has it.
RowsOf(t) == IF t = NoTable THEN {} ELSE t
Table(d) == RowsOf(d.old) \cup RowsOf(d.new)
Bare(d) == d.old = NoTable /\ d.new = NoTable

\* Every database that is in use, was backed up or may be restored: it has one
\* shape, a copy beside it only while a rebuild is unfinished, which then has
\* no row of its own, and never neither.
Sound(d, s) ==
    /\ d.version \in 0..LastVersion
    /\ d.old = NoTable \/ d.new = NoTable
    /\ d.version >= RebuildAt => d.new # NoTable
    /\ d.version >= 1 /\ Bare(d) => d.staging # NoTable
    /\ d.staging # NoTable => d.version = RebuildAt - 1
    /\ d.staging # NoTable /\ ~Bare(d) => d.staging \subseteq Table(d)
    /\ d.new # NoTable /\ s # "blind" => d.staging = NoTable

\* A filled copy beside the table has all its rows but those in except.
Whole(d, except) ==
    ~Bare(d) /\ d.staging # NoTable
    => d.staging = {} \/ Table(d) \subseteq d.staging \cup except

\* A copy that migrations 20, 31, 32 and 34 find filled is whole, but for what
\* an older program has entered since; one that migration 33 finds is not there
\* unless that was cut.
OneGo == script \in {"blind", "script"}
CopyIsWhole(d) ==
    /\ OneGo => Whole(d, forgone)
    /\ script = "loop" /\ ~CopyWasCut => d.staging = NoTable

FilesInv ==
    /\ db \in Databases => Sound(db, script)
    /\ db \in Databases /\ stage \notin Rebuild => CopyIsWhole(db)
    /\ \A i \in DOMAIN backups : backups[i] \in Databases =>
          Sound(backups[i], script) /\ CopyIsWhole(backups[i])

\* What is open while a backup is restored, and where it will be written to.
RestoreInv ==
    /\ strayed => stage = "down"
    /\ main = Torn => db = Torn
    /\ opened # NoFile => stage \in Copied \cup {"degraded"}
    /\ opened # NoFile => /\ opened \in Databases
                          /\ opened.version \in Versions
    /\ stage = "create" => db = NoFile
    /\ stage = "copy" => db = EmptyFile
    /\ stage = "copyRest" => db = Torn
    /\ stage = "reopen" => db = picked
    /\ stage \in Copied => /\ picked \in Databases /\ picked.version = bin
                           /\ Sound(picked, script) /\ CopyIsWhole(picked)

\* What each stage of a migration relies on.
StageInv ==
    /\ stage \in OpenSteps \cup {"restore", "serving"} => db \in Databases
    /\ stage = "restore" => db.version \in Versions
    /\ stage = "serving" => db.version >= bin
    /\ stage = "copyBackup" => /\ main = db /\ Len(backups) > 0
                               /\ backups[Len(backups)] = Torn
    /\ stage \in Rebuild => db.version = RebuildAt - 1 /\ bin >= RebuildAt
    /\ stage = "insert" =>
          /\ db.staging # NoTable
          /\ script = "afresh" => db.staging = {}
          /\ script # "blind" => db.old # NoTable
          /\ OneGo => Whole(db, forgone)
    /\ stage = "drop" =>
          /\ db.staging # NoTable
          /\ ~CopyWasCut => Table(db) \subseteq db.staging \cup forgone
    /\ stage = "rename" => Bare(db) /\ db.staging # NoTable
    /\ stage = "record" => db.new # NoTable /\ db.staging = NoTable

\* The database as it was last served is in use or backed up.
IsBackedUp(d) == \E i \in DOMAIN backups : backups[i] = d
BackupInv ==
    /\ env.backup /\ lastServed.version >= 1 =>
          db = lastServed \/ IsBackedUp(lastServed)
    /\ stage \in Copied \ {"reopen"} => lastServed = EmptyFile
    /\ stage = "reopen" => lastServed = picked

\* While nothing but the rebuild has touched it since it was served, it has the
\* rows that it had then, and so has a copy that is there before it is dropped.
Kept == /\ ~CopyWasCut
        /\ lastServed.staging = NoTable \/ script = "afresh"
KeptInv ==
    Kept =>
        /\ Held(db) = Held(lastServed)
        /\ OneGo /\ db \in Databases => Whole(db, {})
        /\ stage = "drop" => Table(db) \subseteq db.staging

\* The files that would be lost if they were written again have nothing that
\* the database does not have.
BehindInv ==
    ~strayed /\ ~CopyWasCut =>
        /\ Held(main) \subseteq Held(db) \cup forgone
        /\ opened # NoFile =>
              Held(saved[opened.version]) \subseteq Held(opened) \cup forgone

\* Every row that was entered is found somewhere.
FoundThere(r) == \/ r \in Held(db) \/ r \in Held(opened) \/ r \in forgone
            \/ \E v \in Versions : r \in Held(saved[v])
            \/ \E i \in DOMAIN backups : r \in Held(backups[i])
FoundInv == ~strayed /\ ~CopyWasCut => \A r \in entered : FoundThere(r)

StoreInv ==
    /\ StoreTypeOK /\ FilesInv /\ RestoreInv /\ StageInv /\ BackupInv
    /\ KeptInv /\ BehindInv /\ FoundInv /\ UpgradeIsBackedUp

----------------------------------------------------------------------------
(* StoreOpen: what files hold *)

\* A database holds what is in the table, in either shape, and in its copy
\* (020_adapter_m2m.go and 031 to 039: name and name_new).
LEMMA HeldIs ==
    ASSUME NEW d \in Databases
    PROVE  /\ Held(d) = Table(d) \cup RowsOf(d.staging)
           /\ Table(d) \subseteq Rows /\ RowsOf(d.staging) \subseteq Rows
  <1>1. d \notin {NoFile, Torn}
    BY StoreNames
  <1>2. Held(d) = UNION ({d.old, d.new, d.staging} \ {NoTable})
    BY <1>1 DEF Held
  <1>3. /\ d.old \in (SUBSET Rows) \cup {NoTable}
        /\ d.new \in (SUBSET Rows) \cup {NoTable}
        /\ d.staging \in (SUBSET Rows) \cup {NoTable}
    BY DEF Databases
  <1>4. ASSUME NEW r
        PROVE  r \in Held(d) <=> r \in Table(d) \cup RowsOf(d.staging)
    BY <1>2 DEF Table, RowsOf
  <1>5. Held(d) = Table(d) \cup RowsOf(d.staging)
    BY <1>4
  <1>6. Table(d) \subseteq Rows
    BY <1>3 DEF Table, RowsOf
  <1>7. RowsOf(d.staging) \subseteq Rows
    BY <1>3 DEF RowsOf
  <1> QED
    BY <1>5, <1>6, <1>7

\* A file that is missing or was copied in part holds nothing, nor does the
\* one that SQLite makes of an empty file.
LEMMA NoneHeld ==
    /\ Held(NoFile) = {} /\ Held(Torn) = {} /\ Held(EmptyFile) = {}
    /\ EmptyFile \in Databases /\ EmptyFile.version = 0
    /\ EmptyFile.staging = NoTable /\ Bare(EmptyFile)
  <1>1. EmptyFile \in Databases
    <2>1. 0 \in Nat /\ NoTable \in (SUBSET Rows) \cup {NoTable}
      OBVIOUS
    <2> QED
      BY <2>1 DEF EmptyFile, Databases
  <1>2. /\ EmptyFile.old = NoTable /\ EmptyFile.new = NoTable
        /\ EmptyFile.staging = NoTable /\ EmptyFile.version = 0
    BY DEF EmptyFile
  <1>3. Held(EmptyFile) = {}
    BY <1>1, <1>2, HeldIs DEF Table, RowsOf
  <1> QED
    BY <1>1, <1>2, <1>3 DEF Held, Bare

\* An empty database is one that migrations can be applied to.
LEMMA EmptySound ==
    ASSUME NEW s, NEW e
    PROVE  Sound(EmptyFile, s) /\ Whole(EmptyFile, e)
  <1>1. LastVersion \in Nat /\ RebuildAt \in Nat /\ RebuildAt >= 2
    BY StoreAssumption
  <1> QED
    BY <1>1, NoneHeld DEF Sound, Whole, Bare

\* A copy that lacks no more than some rows lacks no more than those and others.
LEMMA WholeGrows ==
    ASSUME NEW d, NEW e, NEW f, e \subseteq f, Whole(d, e)
    PROVE  Whole(d, f)
  BY DEF Whole

\* The version of the program that starts is one, and the rebuild is one.
LEMMA Numbers ==
    /\ LastVersion \in Nat /\ RebuildAt \in Nat /\ RebuildAt >= 2
    /\ RebuildAt <= LastVersion
    /\ \A v \in Versions : v \in Nat /\ v >= 1 /\ v <= LastVersion
  BY StoreAssumption DEF Versions

\* No set of rows is a missing table, and no database a missing file.
LEMMA Names ==
    /\ {} # NoTable
    /\ \A d \in Databases :
          /\ d # NoFile /\ d # Torn
          /\ d.version \in Nat
          /\ d.old # NoTable => d.old \subseteq Rows
          /\ d.new # NoTable => d.new \subseteq Rows
          /\ d.staging # NoTable => d.staging \subseteq Rows
  <1>1. {} # NoTable
    <2>1. {} \in SUBSET Rows
      OBVIOUS
    <2> QED
      BY <2>1, StoreNames
  <1>2. ASSUME NEW d \in Databases
        PROVE  /\ d # NoFile /\ d # Torn
               /\ d.version \in Nat
               /\ d.old # NoTable => d.old \subseteq Rows
               /\ d.new # NoTable => d.new \subseteq Rows
               /\ d.staging # NoTable => d.staging \subseteq Rows
    <2>1. d # NoFile /\ d # Torn
      BY StoreNames
    <2>2. /\ d.version \in Nat
          /\ d.old \in (SUBSET Rows) \cup {NoTable}
          /\ d.new \in (SUBSET Rows) \cup {NoTable}
          /\ d.staging \in (SUBSET Rows) \cup {NoTable}
      BY DEF Databases
    <2> QED
      BY <2>1, <2>2
  <1> QED
    BY <1>1, <1>2

\* A log that was parted from its file, and a cut of migration 33, are not
\* undone; a failure or a crash of that migration is a cut.
LEMMA CutGrows ==
    ASSUME StoreTypeOK, UNCHANGED script,
           \/ UNCHANGED spent
           \/ spent' = [spent EXCEPT !.failures = @ + 1]
           \/ spent' = [spent EXCEPT !.crashes = @ + 1]
    PROVE  /\ CopyWasCut => CopyWasCut'
           /\ ~UNCHANGED spent => (CopyWasCut' <=> script = "loop")
           /\ UNCHANGED spent => (CopyWasCut' <=> CopyWasCut)
  <1>1. /\ MaxCrashes \in Nat /\ MaxErrors \in Nat
        /\ spent \in [crashes : 0..MaxCrashes, failures : 0..MaxErrors]
    BY StoreAssumption DEF StoreTypeOK
  <1>2. CASE UNCHANGED spent
    BY <1>2 DEF CopyWasCut
  <1>3. CASE spent' = [spent EXCEPT !.failures = @ + 1]
    <2>1. spent'.failures # 0
      BY <1>1, <1>3
    <2> QED
      BY <2>1 DEF CopyWasCut
  <1>4. CASE spent' = [spent EXCEPT !.crashes = @ + 1]
    <2>1. spent'.crashes # 0
      BY <1>1, <1>4
    <2> QED
      BY <2>1 DEF CopyWasCut
  <1> QED
    BY <1>2, <1>3, <1>4

----------------------------------------------------------------------------
(* StoreOpen: statements of migrations *)

\* What a statement of a migration has to respect: it changes nothing but the
\* database and where the program is (store.go, Migrate).
LEMMA SqlStep ==
    ASSUME StoreInv, NEW s, Sql(db'), MoveTo(s),
           stage \in {"migrate"} \cup Rebuild, s \in {"migrate"} \cup Rebuild,
           db.version < bin,
           db' \in Databases, Sound(db', script), StageInv',
           s = "migrate" => CopyIsWhole(db)',
           ~CopyWasCut => Held(db) \subseteq Held(db') \cup forgone,
           Kept => /\ Held(db') = Held(db)
                   /\ OneGo => Whole(db', {})
                   /\ s = "drop" => Table(db') \subseteq db'.staging
    PROVE  StoreInv'
  <1>1. /\ stage' = s
        /\ UNCHANGED <<main, opened, saved, backups, script, env, bin, picked,
                       spent, entered, lastServed, forgone, strayed>>
    BY DEF Sql, MoveTo
  <1>2. /\ StoreTypeOK /\ FilesInv /\ RestoreInv /\ StageInv /\ BackupInv
        /\ KeptInv /\ BehindInv /\ FoundInv /\ UpgradeIsBackedUp
    BY DEF StoreInv
  <1>3. CopyWasCut' = CopyWasCut /\ Kept' = Kept /\ OneGo' = OneGo
    BY <1>1 DEF CopyWasCut, Kept, OneGo
  <1>4. StoreTypeOK'
    BY <1>1, <1>2 DEF StoreTypeOK
  <1>5. FilesInv'
    <2>1. \A i \in DOMAIN backups' : backups'[i] \in Databases =>
             Sound(backups'[i], script') /\ CopyIsWhole(backups[i])'
      BY <1>1, <1>2 DEF FilesInv, CopyIsWhole, CopyWasCut, OneGo
    <2>2. db' \in Databases => Sound(db', script')
      BY <1>1
    <2>3. stage' \notin Rebuild => CopyIsWhole(db)'
      BY <1>1
    <2> QED
      BY <2>1, <2>2, <2>3 DEF FilesInv
  <1>6. db \in Databases /\ db # NoFile /\ db # Torn
    BY <1>2, Names DEF StageInv, OpenSteps, Rebuild
  <1>7. RestoreInv'
    BY <1>1, <1>2, <1>6 DEF RestoreInv, Copied, Rebuild
  <1>8. BackupInv'
    <2>1. /\ stage' \notin Copied
          /\ stage \in OpenSteps \ {"backup", "copyBackup"}
      BY <1>1 DEF Copied, Rebuild, OpenSteps
    <2>2. ASSUME env.backup, lastServed.version >= 1
          PROVE  IsBackedUp(lastServed)
      <3>1. CASE db = lastServed
        <4>1. lastServed.version \in 1 .. bin - 1
          BY <1>2, <1>6, <2>2, <3>1, Names, Numbers DEF StoreTypeOK
        <4> QED
          BY <1>2, <2>1, <2>2, <4>1 DEF UpgradeIsBackedUp, IsBackedUp
      <3> QED
        BY <1>2, <2>2, <3>1 DEF BackupInv
    <2>3. IsBackedUp(lastServed)' <=> IsBackedUp(lastServed)
      BY <1>1 DEF IsBackedUp
    <2> QED
      BY <1>1, <2>1, <2>2, <2>3 DEF BackupInv, Copied
  <1>9. KeptInv'
    BY <1>1, <1>2, <1>3 DEF KeptInv
  <1>10. BehindInv'
    BY <1>1, <1>2, <1>3, <1>6 DEF BehindInv
  <1>11. FoundInv'
    BY <1>1, <1>2, <1>3 DEF FoundInv, FoundThere
  <1>12. UpgradeIsBackedUp'
    <2>1. stage \in OpenSteps \ {"backup", "copyBackup"}
      BY DEF Rebuild, OpenSteps
    <2> QED
      BY <1>1, <1>2, <2>1 DEF UpgradeIsBackedUp
  <1>13. StageInv'
    OBVIOUS
  <1> QED
    BY <1>4, <1>5, <1>7, <1>8, <1>9, <1>10, <1>11, <1>12, <1>13 DEF StoreInv

\* What is known of the database while migrations run.
LEMMA Migrates ==
    ASSUME StoreInv, stage \in {"migrate"} \cup Rebuild
    PROVE  /\ db \in Databases /\ Sound(db, script)
           /\ bin \in Nat /\ bin <= LastVersion
           /\ stage # "migrate" =>
                 db.version = RebuildAt - 1 /\ db.version < bin
           /\ stage = "migrate" => CopyIsWhole(db)
           /\ StageInv /\ KeptInv
  <1>1. /\ StoreTypeOK /\ FilesInv /\ StageInv /\ KeptInv
    BY DEF StoreInv
  <1>2. db \in Databases
    BY <1>1 DEF StageInv, OpenSteps, Rebuild
  <1>3. bin \in Nat /\ bin <= LastVersion
    BY <1>1, Numbers DEF StoreTypeOK
  <1>4. stage # "migrate" => db.version = RebuildAt - 1 /\ db.version < bin
    BY <1>1, <1>2, <1>3, Names, Numbers DEF StageInv
  <1>5. stage = "migrate" => CopyIsWhole(db)
    BY <1>1, <1>2 DEF FilesInv, Rebuild
  <1> QED
    BY <1>1, <1>2, <1>3, <1>4, <1>5 DEF FilesInv

\* A migration within a transaction leaves rows and copy as they are: no copy is
\* there, for those are of the migration that rebuilds (store.go, Migrate).
LEMMA ApplyMigrationStep ==
    ASSUME StoreInv, ApplyMigration
    PROVE  StoreInv'
  <1> DEFINE new == IF NextVersion = 1 /\ ~HasTable THEN {} ELSE db.old
  <1>1. /\ stage = "migrate" /\ db.version < bin
        /\ db.version + 1 # RebuildAt
        /\ Sql(db') /\ MoveTo("migrate")
        /\ db' = [db EXCEPT !.version = db.version + 1, !.old = new]
    BY DEF ApplyMigration, Migrating, NextVersion, Sql
  <1>2. /\ db \in Databases /\ Sound(db, script) /\ CopyIsWhole(db)
        /\ bin \in Nat /\ bin <= LastVersion /\ StageInv /\ KeptInv
    BY <1>1, Migrates
  <1>3. /\ db.version \in Nat /\ db.version + 1 \in Nat
        /\ db.old \in (SUBSET Rows) \cup {NoTable}
    BY <1>2 DEF Databases
  <1>4. new \in (SUBSET Rows) \cup {NoTable}
    BY <1>3
  <1>5. /\ db' \in Databases
        /\ db'.version = db.version + 1 /\ db'.old = new
        /\ db'.new = db.new /\ db'.staging = db.staging
    BY <1>1, <1>2, <1>3, <1>4 DEF Databases
  <1>6. db.staging = NoTable
    BY <1>1, <1>2, <1>3, Numbers DEF Sound
  <1>7. new = db.old \/ (Bare(db) /\ new = {} /\ db.version = 0)
    BY <1>3 DEF HasTable, Bare, NextVersion
  <1>8. Held(db') = Held(db)
    BY <1>2, <1>5, <1>7, HeldIs, Names DEF Table, RowsOf, Bare
  <1>9. Sound(db', script)
    <2>1. db.version = 0 => ~Bare(db')
      BY <1>5, <1>3, Names DEF Bare, HasTable, NextVersion
    <2>2. Bare(db') => Bare(db)
      BY <1>5, <1>7, Names DEF Bare
    <2>3. db'.old = NoTable \/ db'.new = NoTable
      BY <1>2, <1>5, <1>7 DEF Sound, Bare
    <2>4. db'.version >= RebuildAt => db'.new # NoTable
      BY <1>1, <1>2, <1>3, <1>5, Numbers DEF Sound
    <2>5. db'.version >= 1 => ~Bare(db')
      BY <1>2, <1>3, <1>5, <1>6, <2>1, <2>2 DEF Sound
    <2>6. db'.version \in 0..LastVersion
      BY <1>1, <1>2, <1>3, <1>5, Numbers
    <2> QED
      BY <1>5, <1>6, <2>3, <2>4, <2>5, <2>6 DEF Sound
  <1>10. \A e : Whole(db', e)
    BY <1>5, <1>6 DEF Whole
  <1>11. CopyIsWhole(db)'
    BY <1>5, <1>6, <1>10 DEF CopyIsWhole
  <1>12. stage' = "migrate"
    BY <1>1 DEF MoveTo
  <1>13. StageInv'
    BY <1>5, <1>12 DEF StageInv, OpenSteps, Rebuild
  <1> QED
    BY <1>1, <1>5, <1>8, <1>9, <1>10, <1>11, <1>13, SqlStep

\* What is known when the rebuild begins or goes on (020_adapter_m2m.go and
\* 031 to 039, which look at the tables first).
LEMMA RebuildIsDue ==
    ASSUME StoreInv, RebuildDue
    PROVE  /\ stage = "migrate" /\ stage \in {"migrate"} \cup Rebuild
           /\ db \in Databases /\ Sound(db, script) /\ CopyIsWhole(db)
           /\ StageInv /\ KeptInv
           /\ db.version = RebuildAt - 1 /\ db.version < bin /\ bin >= RebuildAt
           /\ db.version >= 1
  <1>1. stage = "migrate" /\ db.version < bin /\ db.version + 1 = RebuildAt
    BY DEF RebuildDue, Migrating, NextVersion
  <1>2. /\ db \in Databases /\ Sound(db, script) /\ CopyIsWhole(db)
        /\ bin \in Nat /\ StageInv /\ KeptInv
    BY <1>1, Migrates
  <1> QED
    BY <1>1, <1>2, Names, Numbers

\* Creating, filling or emptying the copy leaves a sound database, as long as
\* the table is there and has all rows of the copy.
LEMMA StagingSound ==
    ASSUME db \in Databases, Sound(db, script), NEW c \in SUBSET Rows,
           db' = [db EXCEPT !.staging = c], db.version = RebuildAt - 1,
           db.new # NoTable => script = "blind",
           ~Bare(db) => c \subseteq Table(db)
    PROVE  /\ db' \in Databases /\ Sound(db', script)
           /\ db'.version = db.version /\ db'.old = db.old /\ db'.new = db.new
           /\ db'.staging = c /\ c # NoTable
           /\ Bare(db') = Bare(db) /\ Table(db') = Table(db)
           /\ Held(db') = Table(db) \cup c
  <1>1. c # NoTable
    BY StoreNames
  <1>2. /\ db' \in Databases
        /\ db'.version = db.version /\ db'.old = db.old /\ db'.new = db.new
        /\ db'.staging = c
    BY DEF Databases
  <1>3. Bare(db') = Bare(db) /\ Table(db') = Table(db)
    BY <1>2 DEF Bare, Table
  <1>4. Sound(db', script)
    BY <1>1, <1>2, <1>3, Numbers DEF Sound
  <1>5. Held(db') = Table(db) \cup c
    BY <1>1, <1>2, <1>3, HeldIs DEF RowsOf
  <1> QED
    BY <1>1, <1>2, <1>3, <1>4, <1>5

\* CREATE TABLE IF NOT EXISTS keeps a copy that is there.
LEMMA WithCopyIs ==
    ASSUME db \in Databases, Sound(db, script), db' = WithCopy,
           db.version = RebuildAt - 1, db.new # NoTable => script = "blind"
    PROVE  /\ db' \in Databases /\ Sound(db', script)
           /\ db'.version = db.version /\ db'.old = db.old /\ db'.new = db.new
           /\ db'.staging # NoTable
           /\ db'.staging = IF db.staging = NoTable THEN {} ELSE db.staging
           /\ Bare(db') = Bare(db) /\ Table(db') = Table(db)
           /\ Held(db') = Held(db)
           /\ \A e : Whole(db, e) => Whole(db', e)
  <1> DEFINE c == IF db.staging = NoTable THEN {} ELSE db.staging
  <1>1. c \in SUBSET Rows
    BY Names
  <1>2. db' = [db EXCEPT !.staging = c]
    BY DEF WithCopy
  <1>3. ~Bare(db) => c \subseteq Table(db)
    BY DEF Sound
  <1> HIDE DEF c
  <1>4. /\ db' \in Databases /\ Sound(db', script)
        /\ db'.version = db.version /\ db'.old = db.old /\ db'.new = db.new
        /\ db'.staging = c /\ c # NoTable
        /\ Bare(db') = Bare(db) /\ Table(db') = Table(db)
        /\ Held(db') = Table(db) \cup c
    BY <1>1, <1>2, <1>3, StagingSound
  <1>5. Held(db') = Held(db)
    BY <1>4, HeldIs DEF RowsOf, c
  <1>6. ASSUME NEW e, Whole(db, e)
        PROVE  Whole(db', e)
    BY <1>4, <1>6 DEF Whole, c
  <1> QED
    BY <1>4, <1>5, <1>6 DEF c

\* Migration 20 does not look, and finds a copy whole or none.
LEMMA BeginBlindStep ==
    ASSUME StoreInv, BeginBlind
    PROVE  StoreInv'
  <1>1. /\ RebuildDue /\ script = "blind" /\ Sql(db') /\ MoveTo("insert")
        /\ db' = WithCopy /\ stage' = "insert" /\ "insert" \in Rebuild
        /\ UNCHANGED <<script, forgone, bin, spent>>
    BY DEF BeginBlind, Sql, MoveTo, Rebuild
  <1>2. /\ stage \in {"migrate"} \cup Rebuild
        /\ db \in Databases /\ Sound(db, script) /\ CopyIsWhole(db)
        /\ StageInv /\ KeptInv
        /\ db.version = RebuildAt - 1 /\ db.version < bin /\ bin >= RebuildAt
    BY <1>1, RebuildIsDue
  <1>3. /\ db' \in Databases /\ Sound(db', script)
        /\ db'.version = db.version /\ db'.staging # NoTable
        /\ Held(db') = Held(db) /\ \A e : Whole(db, e) => Whole(db', e)
    BY <1>1, <1>2, WithCopyIs
  <1>4. OneGo => Whole(db', forgone)
    BY <1>2, <1>3 DEF CopyIsWhole
  <1>5. StageInv'
    BY <1>1, <1>2, <1>3, <1>4 DEF StageInv, OpenSteps, OneGo
  <1>6. Kept => (OneGo => Whole(db', {}))
    BY <1>2, <1>3 DEF KeptInv
  <1> QED
    BY <1>1, <1>2, <1>3, <1>5, <1>6, SqlStep

\* Migrations 31 to 34 begin where the table has its old shape; 33 goes on to
\* drop it only if it was cut.
LEMMA BeginCopyStep ==
    ASSUME StoreInv, BeginCopy
    PROVE  StoreInv'
  <1> DEFINE s == IF script = "loop" /\ WithCopy.staging # {} THEN "drop"
                  ELSE "insert"
  <1>1. /\ RebuildDue /\ script \in {"script", "loop"} /\ db.old # NoTable
        /\ Sql(db') /\ MoveTo(s) /\ db' = WithCopy
        /\ stage' = s /\ s \in Rebuild
        /\ UNCHANGED <<script, forgone, bin, spent>>
    BY DEF BeginCopy, Sql, MoveTo, Rebuild
  <1>2. /\ stage \in {"migrate"} \cup Rebuild
        /\ db \in Databases /\ Sound(db, script) /\ CopyIsWhole(db)
        /\ StageInv /\ KeptInv
        /\ db.version = RebuildAt - 1 /\ db.version < bin /\ bin >= RebuildAt
    BY <1>1, RebuildIsDue
  <1>3. db.new = NoTable
    BY <1>1, <1>2 DEF Sound
  <1>4. /\ db' \in Databases /\ Sound(db', script)
        /\ db'.version = db.version /\ db'.old = db.old
        /\ db'.staging # NoTable
        /\ db'.staging = IF db.staging = NoTable THEN {} ELSE db.staging
        /\ Held(db') = Held(db) /\ \A e : Whole(db, e) => Whole(db', e)
    BY <1>1, <1>2, <1>3, WithCopyIs
  <1>5. OneGo => Whole(db', forgone)
    BY <1>2, <1>4 DEF CopyIsWhole
  <1>6. s = "drop" => CopyWasCut
    BY <1>1, <1>2, <1>4 DEF CopyIsWhole
  <1>7. s = "drop" \/ s = "insert"
    OBVIOUS
  <1>8. Kept => (OneGo => Whole(db', {}))
    BY <1>2, <1>4 DEF KeptInv
  <1> HIDE DEF s
  <1>9. CopyWasCut' = CopyWasCut /\ OneGo' = OneGo
    BY <1>1 DEF CopyWasCut, OneGo
  <1>10. StageInv'
    BY <1>1, <1>2, <1>4, <1>5, <1>6, <1>7, <1>9 DEF StageInv, OpenSteps
  <1>11. Kept => s # "drop"
    BY <1>6 DEF Kept
  <1>12. s # "migrate"
    BY <1>7
  <1> QED
    BY <1>1, <1>2, <1>4, <1>8, <1>10, <1>11, <1>12, SqlStep

\* Migration 39 discards a copy, whose rows are all in the table.
LEMMA BeginAfreshStep ==
    ASSUME StoreInv, BeginAfresh
    PROVE  StoreInv'
  <1>1. /\ RebuildDue /\ script = "afresh" /\ db.old # NoTable
        /\ Sql(db') /\ MoveTo("insert") /\ db' = [db EXCEPT !.staging = {}]
        /\ stage' = "insert" /\ "insert" \in Rebuild
        /\ UNCHANGED <<script, forgone, bin, spent>>
    BY DEF BeginAfresh, Sql, MoveTo, Rebuild
  <1>2. /\ stage \in {"migrate"} \cup Rebuild
        /\ db \in Databases /\ Sound(db, script) /\ CopyIsWhole(db)
        /\ StageInv /\ KeptInv
        /\ db.version = RebuildAt - 1 /\ db.version < bin /\ bin >= RebuildAt
    BY <1>1, RebuildIsDue
  <1>3. db.new = NoTable /\ ~Bare(db)
    BY <1>1, <1>2 DEF Sound, Bare
  <1> DEFINE c == {}
  <1>8. /\ c \in SUBSET Rows /\ c \subseteq Table(db)
        /\ db' = [db EXCEPT !.staging = c]
    BY <1>1
  <1> HIDE DEF c
  <1>4. /\ db' \in Databases /\ Sound(db', script)
        /\ db'.version = db.version /\ db'.old = db.old
        /\ db'.staging = {} /\ db'.staging # NoTable
        /\ Held(db') = Table(db)
    <2>1. /\ db' \in Databases /\ Sound(db', script)
          /\ db'.version = db.version /\ db'.old = db.old
          /\ db'.staging = c /\ c # NoTable
          /\ Held(db') = Table(db) \cup c
      BY <1>2, <1>3, <1>8, StagingSound
    <2> QED
      BY <2>1 DEF c
  <1>5. Held(db) = Table(db)
    BY <1>2, <1>3, HeldIs DEF Sound, RowsOf
  <1>6. \A e : Whole(db', e)
    BY <1>4 DEF Whole
  <1>7. StageInv'
    BY <1>1, <1>2, <1>4, <1>6 DEF StageInv, OpenSteps, OneGo
  <1> QED
    BY <1>1, <1>2, <1>4, <1>5, <1>6, <1>7, SqlStep

\* The copy that is renamed becomes the table, with all that it holds.
LEMMA RenamedSound ==
    ASSUME db \in Databases, Sound(db, script), Bare(db),
           db.staging # NoTable, db.version = RebuildAt - 1,
           db' = [db EXCEPT !.new = db.staging, !.staging = NoTable]
    PROVE  /\ db' \in Databases /\ Sound(db', script)
           /\ db'.version = db.version
           /\ db'.new # NoTable /\ db'.staging = NoTable
           /\ Held(db') = Held(db) /\ \A e : Whole(db', e)
  <1>1. /\ db' \in Databases
        /\ db'.version = db.version /\ db'.old = db.old
        /\ db'.new = db.staging /\ db'.staging = NoTable
    BY DEF Databases
  <1>2. Held(db') = Held(db)
    BY <1>1, HeldIs DEF Table, RowsOf, Bare
  <1>3. Sound(db', script)
    BY <1>1, Numbers, Names DEF Sound, Bare
  <1> QED
    BY <1>1, <1>2, <1>3 DEF Whole

\* A missing table whose copy is there was dropped: the rename is made up for.
LEMMA FinishRenameStep ==
    ASSUME StoreInv, FinishRename
    PROVE  StoreInv'
  <1>1. /\ RebuildDue /\ Sql(db') /\ MoveTo("record") /\ Bare(db)
        /\ db' = [db EXCEPT !.new = db.staging, !.staging = NoTable]
        /\ stage' = "record" /\ "record" \in Rebuild
        /\ UNCHANGED <<script, bin>>
    BY DEF FinishRename, Finished, Sql, MoveTo, Rebuild, HasTable, Bare
  <1>2. /\ stage \in {"migrate"} \cup Rebuild
        /\ db \in Databases /\ Sound(db, script)
        /\ db.version = RebuildAt - 1 /\ db.version < bin /\ bin >= RebuildAt
        /\ db.version >= 1
    BY <1>1, RebuildIsDue
  <1>3. db.staging # NoTable
    BY <1>1, <1>2 DEF Sound
  <1>4. /\ db' \in Databases /\ Sound(db', script)
        /\ db'.version = db.version
        /\ db'.new # NoTable /\ db'.staging = NoTable
        /\ Held(db') = Held(db) /\ \A e : Whole(db', e)
    BY <1>1, <1>2, <1>3, RenamedSound
  <1>5. StageInv'
    BY <1>1, <1>2, <1>4 DEF StageInv, OpenSteps
  <1> QED
    BY <1>1, <1>2, <1>4, <1>5, SqlStep

\* A table that has its new shape has no copy beside it, but with migration 20,
\* which does not look.
LEMMA AlreadyRebuiltStep ==
    ASSUME StoreInv, AlreadyRebuilt
    PROVE  StoreInv'
  <1>1. /\ RebuildDue /\ script # "blind" /\ db.new # NoTable
        /\ Sql(db') /\ MoveTo("record") /\ db' = db
        /\ stage' = "record" /\ "record" \in Rebuild
        /\ UNCHANGED <<script, bin>>
    BY DEF AlreadyRebuilt, Sql, MoveTo, Rebuild
  <1>2. /\ stage \in {"migrate"} \cup Rebuild
        /\ db \in Databases /\ Sound(db, script) /\ KeptInv
        /\ db.version = RebuildAt - 1 /\ db.version < bin /\ bin >= RebuildAt
    BY <1>1, RebuildIsDue
  <1>3. db.staging = NoTable
    BY <1>1, <1>2 DEF Sound
  <1>4. StageInv'
    BY <1>1, <1>2, <1>3 DEF StageInv, OpenSteps
  <1> QED
    BY <1>1, <1>2, <1>4, SqlStep DEF KeptInv

\* What is known in the middle of the rebuild.
LEMMA Rebuilding ==
    ASSUME StoreInv, stage \in Rebuild
    PROVE  /\ stage \in {"migrate"} \cup Rebuild
           /\ db \in Databases /\ Sound(db, script) /\ StageInv /\ KeptInv
           /\ db.version = RebuildAt - 1 /\ db.version < bin /\ bin >= RebuildAt
           /\ script \in ScriptKinds
  <1>1. stage # "migrate"
    BY DEF Rebuild
  <1>2. script \in ScriptKinds
    BY StoreAssumption DEF StoreInv, StoreTypeOK
  <1> QED
    BY <1>1, <1>2, Migrates DEF StageInv

\* INSERT ... SELECT: an empty copy becomes whole, a filled one is that already
\* but for what was entered beside it.
LEMMA InsertAllStep ==
    ASSUME StoreInv, InsertAll
    PROVE  StoreInv'
  <1> DEFINE c == IF db.staging = {} THEN Held(db) ELSE db.staging
  <1>1. /\ stage = "insert" /\ stage \in Rebuild /\ script # "loop"
        /\ ~Bare(db) /\ Sql(db') /\ MoveTo("drop")
        /\ db' = [db EXCEPT !.staging = c]
        /\ stage' = "drop" /\ "drop" \in Rebuild
        /\ UNCHANGED <<script, forgone, bin, spent>>
    <2>1. db' = [db EXCEPT !.staging = c]
      BY DEF InsertAll, Sql
    <2> HIDE DEF c
    <2> QED
      BY <2>1 DEF InsertAll, Sql, MoveTo, Rebuild, HasTable, Bare
  <1>2. /\ stage \in {"migrate"} \cup Rebuild
        /\ db \in Databases /\ Sound(db, script) /\ StageInv /\ KeptInv
        /\ db.version = RebuildAt - 1 /\ db.version < bin /\ bin >= RebuildAt
        /\ script \in ScriptKinds
    BY <1>1, Rebuilding
  <1>3. /\ db.staging # NoTable
        /\ script = "afresh" => db.staging = {}
        /\ script # "blind" => db.old # NoTable
        /\ OneGo => Whole(db, forgone)
    BY <1>1, <1>2 DEF StageInv
  <1>4. Held(db) = Table(db) /\ c \in SUBSET Rows /\ Table(db) \subseteq Rows
    <2>1. /\ Held(db) = Table(db) \cup RowsOf(db.staging)
          /\ Table(db) \subseteq Rows /\ RowsOf(db.staging) \subseteq Rows
      BY <1>2, HeldIs
    <2>2. RowsOf(db.staging) = db.staging /\ db.staging \subseteq Table(db)
      BY <1>1, <1>2, <1>3 DEF Sound, RowsOf
    <2> QED
      BY <2>1, <2>2
  <1>5. c = Table(db) \/ (db.staging # {} /\ c = db.staging)
    BY <1>4
  <1>6. c \subseteq Table(db)
    BY <1>1, <1>2, <1>3, <1>5 DEF Sound
  <1> HIDE DEF c
  <1>7. db.new # NoTable => script = "blind"
    BY <1>2, <1>3 DEF Sound
  <1>8. /\ db' \in Databases /\ Sound(db', script)
        /\ db'.version = db.version /\ db'.staging = c /\ c # NoTable
        /\ Table(db') = Table(db) /\ Held(db') = Table(db) \cup c
        /\ Bare(db') = Bare(db)
    BY <1>1, <1>2, <1>4, <1>6, <1>7, StagingSound
  <1>9. Held(db') = Held(db)
    BY <1>4, <1>6, <1>8
  <1>10. script \in {"blind", "script"} \/ script = "afresh"
    BY <1>1, <1>2 DEF ScriptKinds
  <1>11. Table(db') \subseteq c \cup forgone
    BY <1>1, <1>3, <1>5, <1>8, <1>10 DEF Whole, OneGo
  <1>12. Kept => Table(db') \subseteq c
    BY <1>1, <1>2, <1>3, <1>5, <1>8, <1>10 DEF Whole, OneGo, KeptInv
  <1>13. Kept => Whole(db', {})
    BY <1>8, <1>12 DEF Whole
  <1>14. StageInv'
    BY <1>1, <1>2, <1>8, <1>11 DEF StageInv, OpenSteps
  <1> QED
    BY <1>1, <1>2, <1>8, <1>9, <1>12, <1>13, <1>14, SqlStep

\* Migration 33 inserts a row of the table.
LEMMA InsertRowStep ==
    ASSUME StoreInv, InsertRow
    PROVE  StoreInv'
  <1>1. PICK r \in db.old \ db.staging :
             db' = [db EXCEPT !.staging = @ \cup {r}]
    BY DEF InsertRow, Sql
  <1> DEFINE c == db.staging \cup {r}
  <1>2. /\ stage = "insert" /\ stage \in Rebuild /\ script = "loop"
        /\ Sql(db') /\ MoveTo("insert")
        /\ db' = [db EXCEPT !.staging = c]
        /\ stage' = "insert" /\ UNCHANGED <<script, bin>>
    BY <1>1 DEF InsertRow, Sql, MoveTo, Rebuild
  <1>3. /\ stage \in {"migrate"} \cup Rebuild
        /\ db \in Databases /\ Sound(db, script) /\ StageInv /\ KeptInv
        /\ db.version = RebuildAt - 1 /\ db.version < bin /\ bin >= RebuildAt
    BY <1>2, Rebuilding
  <1>4. db.staging # NoTable /\ db.old # NoTable
    BY <1>2, <1>3 DEF StageInv
  <1>5. db.old \subseteq Rows /\ db.staging \subseteq Rows
    BY <1>3, <1>4, Names
  <1>6. ~Bare(db) /\ Table(db) = db.old /\ db.new = NoTable
    BY <1>3, <1>4 DEF Sound, Bare, Table, RowsOf
  <1>7. c \in SUBSET Rows /\ c \subseteq Table(db)
    BY <1>3, <1>4, <1>5, <1>6 DEF Sound
  <1>8. Held(db) = Table(db)
    BY <1>3, <1>4, <1>6, HeldIs DEF Sound, RowsOf
  <1> HIDE DEF c
  <1>9. /\ db' \in Databases /\ Sound(db', script)
        /\ db'.version = db.version /\ db'.old = db.old
        /\ db'.staging = c /\ c # NoTable
        /\ Held(db') = Table(db) \cup c
    BY <1>2, <1>3, <1>6, <1>7, StagingSound
  <1>10. Held(db') = Held(db)
    BY <1>7, <1>8, <1>9
  <1>11. StageInv'
    BY <1>2, <1>3, <1>4, <1>9 DEF StageInv, OpenSteps, OneGo, Rebuild
  <1>12. ~OneGo
    BY <1>2 DEF OneGo
  <1> QED
    BY <1>2, <1>3, <1>9, <1>10, <1>11, <1>12, SqlStep

\* ... until it has them all.
LEMMA InsertedRowsStep ==
    ASSUME StoreInv, InsertedRows
    PROVE  StoreInv'
  <1>1. /\ stage = "insert" /\ stage \in Rebuild /\ script = "loop"
        /\ db.old \subseteq db.staging
        /\ Sql(db') /\ MoveTo("drop") /\ db' = db
        /\ stage' = "drop" /\ "drop" \in Rebuild
        /\ UNCHANGED <<script, bin>>
    BY DEF InsertedRows, Sql, MoveTo, Rebuild
  <1>2. /\ stage \in {"migrate"} \cup Rebuild
        /\ db \in Databases /\ Sound(db, script) /\ StageInv /\ KeptInv
        /\ db.version = RebuildAt - 1 /\ db.version < bin /\ bin >= RebuildAt
    BY <1>1, Rebuilding
  <1>3. db.staging # NoTable /\ db.old # NoTable
    BY <1>1, <1>2 DEF StageInv
  <1>4. Table(db) \subseteq db.staging
    BY <1>1, <1>2, <1>3 DEF Sound, Table, RowsOf
  <1>5. StageInv'
    BY <1>1, <1>2, <1>3, <1>4 DEF StageInv, OpenSteps
  <1> QED
    BY <1>1, <1>2, <1>4, <1>5, SqlStep DEF KeptInv

\* The table is dropped when its copy has all its rows.
LEMMA DropTableStep ==
    ASSUME StoreInv, DropTable
    PROVE  StoreInv'
  <1>1. /\ stage = "drop" /\ stage \in Rebuild
        /\ Sql(db') /\ MoveTo("rename")
        /\ db' = [db EXCEPT !.old = NoTable, !.new = NoTable]
        /\ stage' = "rename" /\ "rename" \in Rebuild
        /\ UNCHANGED <<script, bin, forgone>>
    BY DEF DropTable, Sql, MoveTo, Rebuild
  <1>2. /\ stage \in {"migrate"} \cup Rebuild
        /\ db \in Databases /\ Sound(db, script) /\ StageInv /\ KeptInv
        /\ db.version = RebuildAt - 1 /\ db.version < bin /\ bin >= RebuildAt
    BY <1>1, Rebuilding
  <1>3. /\ db.staging # NoTable
        /\ ~CopyWasCut => Table(db) \subseteq db.staging \cup forgone
    BY <1>1, <1>2 DEF StageInv
  <1>4. /\ db' \in Databases
        /\ db'.version = db.version /\ db'.old = NoTable
        /\ db'.new = NoTable /\ db'.staging = db.staging
    BY <1>1, <1>2 DEF Databases
  <1>5. Held(db') = db.staging /\ Held(db) = Table(db) \cup db.staging
    BY <1>2, <1>3, <1>4, HeldIs DEF Table, RowsOf
  <1>6. Sound(db', script) /\ Bare(db')
    BY <1>2, <1>3, <1>4, Numbers DEF Sound, Bare
  <1>7. Kept => Table(db) \subseteq db.staging
    BY <1>1, <1>2 DEF KeptInv
  <1>8. \A e : Whole(db', e)
    BY <1>6 DEF Whole
  <1>9. StageInv'
    BY <1>1, <1>2, <1>3, <1>4, <1>6 DEF StageInv, OpenSteps
  <1>10. /\ ~CopyWasCut => Held(db) \subseteq Held(db') \cup forgone
         /\ Kept => Held(db') = Held(db)
    BY <1>3, <1>5, <1>7
  <1> QED
    BY <1>1, <1>2, <1>4, <1>6, <1>8, <1>9, <1>10, SqlStep

\* The copy takes its place.
LEMMA RenameTableStep ==
    ASSUME StoreInv, RenameTable
    PROVE  StoreInv'
  <1>1. /\ stage = "rename" /\ stage \in Rebuild
        /\ Sql(db') /\ MoveTo("record")
        /\ db' = [db EXCEPT !.new = db.staging, !.staging = NoTable]
        /\ stage' = "record" /\ "record" \in Rebuild
        /\ UNCHANGED <<script, bin>>
    BY DEF RenameTable, Sql, MoveTo, Rebuild
  <1>2. /\ stage \in {"migrate"} \cup Rebuild
        /\ db \in Databases /\ Sound(db, script) /\ StageInv
        /\ db.version = RebuildAt - 1 /\ db.version < bin /\ bin >= RebuildAt
    BY <1>1, Rebuilding
  <1>3. Bare(db) /\ db.staging # NoTable
    BY <1>1, <1>2 DEF StageInv
  <1>4. /\ db' \in Databases /\ Sound(db', script)
        /\ db'.version = db.version
        /\ db'.new # NoTable /\ db'.staging = NoTable
        /\ Held(db') = Held(db) /\ \A e : Whole(db', e)
    BY <1>1, <1>2, <1>3, RenamedSound
  <1>5. StageInv'
    BY <1>1, <1>2, <1>4 DEF StageInv, OpenSteps
  <1> QED
    BY <1>1, <1>2, <1>4, <1>5, SqlStep

\* What is recorded has run to its end.
LEMMA RecordMigrationStep ==
    ASSUME StoreInv, RecordMigration
    PROVE  StoreInv'
  <1>1. /\ stage = "record" /\ stage \in Rebuild
        /\ Sql(db') /\ MoveTo("migrate")
        /\ db' = [db EXCEPT !.version = db.version + 1]
        /\ stage' = "migrate" /\ UNCHANGED <<script, bin, forgone, spent>>
    BY DEF RecordMigration, NextVersion, Sql, MoveTo, Rebuild
  <1>2. /\ stage \in {"migrate"} \cup Rebuild
        /\ db \in Databases /\ Sound(db, script) /\ StageInv
        /\ db.version = RebuildAt - 1 /\ db.version < bin /\ bin >= RebuildAt
    BY <1>1, Rebuilding
  <1>3. db.new # NoTable /\ db.staging = NoTable
    BY <1>1, <1>2 DEF StageInv
  <1>4. /\ db' \in Databases
        /\ db'.version = db.version + 1 /\ db'.old = db.old
        /\ db'.new = db.new /\ db'.staging = db.staging
    BY <1>1, <1>2 DEF Databases
  <1>5. Held(db') = Held(db)
    BY <1>2, <1>4, HeldIs DEF Table
  <1>6. Sound(db', script)
    BY <1>2, <1>3, <1>4, Numbers DEF Sound, Bare
  <1>7. \A e : Whole(db', e)
    BY <1>3, <1>4 DEF Whole
  <1>8. StageInv'
    BY <1>1, <1>4 DEF StageInv, OpenSteps, Rebuild
  <1>9. CopyIsWhole(db)'
    BY <1>3, <1>4, <1>7 DEF CopyIsWhole
  <1> QED
    BY <1>1, <1>2, <1>4, <1>5, <1>6, <1>7, <1>8, <1>9, SqlStep

----------------------------------------------------------------------------
(* StoreOpen: starting, and restoring a backup *)

\* What was backed up stays what it is when the backups are left alone.
LEMMA BackupsStay ==
    ASSUME StoreInv, UNCHANGED <<backups, script>>, forgone \subseteq forgone',
           CopyWasCut => CopyWasCut'
    PROVE  \A i \in DOMAIN backups' : backups'[i] \in Databases =>
              Sound(backups'[i], script') /\ CopyIsWhole(backups[i])'
  BY WholeGrows DEF StoreInv, FilesInv, CopyIsWhole, OneGo

\* A database that the program opens is the one that was there, or an empty one,
\* and is backed up if it has to be (store.go, Open).
LEMMA StartStep ==
    ASSUME StoreInv, NEW v \in Versions, Start(v)
    PROVE  StoreInv'
  <1> DEFINE file == IF db = NoFile THEN EmptyFile ELSE db
  <1>1. /\ stage = "down" /\ db # Torn /\ ~strayed
        /\ db' = file /\ bin' = v
        /\ main' = IF db = NoFile THEN file ELSE main
        /\ UNCHANGED <<opened, saved, backups, script, env, picked, spent,
                       entered, lastServed, forgone, strayed>>
    BY DEF Start
  <1>2. /\ stage' \in {"restore", "degraded", "backup", "migrate"}
        /\ stage' = "restore" => file.version > v
        /\ stage' = "migrate" => ~NeedsBackup(file, v)
    BY DEF Start
  <1>3. /\ StoreTypeOK /\ FilesInv /\ RestoreInv /\ BackupInv
        /\ KeptInv /\ BehindInv /\ FoundInv
    BY DEF StoreInv
  <1>4. opened = NoFile
    BY <1>1, <1>3 DEF RestoreInv, Copied
  <1>5. file \in Databases /\ Held(file) = Held(db)
    BY <1>1, <1>3, NoneHeld DEF StoreTypeOK
  <1>6. Sound(file, script) /\ (db = NoFile => \A e : Whole(file, e))
    BY <1>1, <1>3, <1>5, EmptySound DEF FilesInv
  <1>7. CopyWasCut' = CopyWasCut /\ Kept' = Kept /\ OneGo' = OneGo
    BY <1>1 DEF CopyWasCut, Kept, OneGo
  <1>8. CopyIsWhole(file)
    <2>1. CASE db = NoFile
      BY <1>6, <2>1, NoneHeld DEF CopyIsWhole
    <2>2. CASE db # NoFile
      BY <1>1, <1>3, <1>5, <2>2 DEF FilesInv, Rebuild
    <2> QED
      BY <2>1, <2>2
  <1>9. OneGo /\ Kept => Whole(file, {})
    BY <1>3, <1>5, <1>6 DEF KeptInv
  <1>10. db = NoFile => db # lastServed
    BY <1>3, Names DEF StoreTypeOK
  <1>11. db # NoFile => file = db
    OBVIOUS
  <1>12. db = NoFile => main' = file
    BY <1>1
  <1> HIDE DEF file
  <1>13. StoreTypeOK'
    BY <1>1, <1>3, <1>5 DEF StoreTypeOK
  <1>14. FilesInv'
    <2>1. CopyIsWhole(db)'
      BY <1>1, <1>7, <1>8 DEF CopyIsWhole
    <2> QED
      BY <1>1, <1>6, <1>7, <2>1, BackupsStay DEF StoreInv, FilesInv
  <1>15. RestoreInv'
    BY <1>1, <1>2, <1>3, <1>4, <1>5, <1>11, <1>12, Names DEF RestoreInv, Copied
  <1>16. StageInv'
    <2>1. file.version > v => file.version \in Versions
      BY <1>5, <1>6, Names, Numbers DEF Sound, Versions
    <2> QED
      BY <1>1, <1>2, <1>5, <2>1 DEF StageInv, Rebuild
  <1>17. IsBackedUp(lastServed)' <=> IsBackedUp(lastServed)
    BY <1>1 DEF IsBackedUp
  <1>18. BackupInv'
    BY <1>1, <1>2, <1>3, <1>10, <1>11, <1>17 DEF BackupInv, Copied
  <1>19. KeptInv'
    BY <1>1, <1>2, <1>3, <1>5, <1>7, <1>9 DEF KeptInv
  <1>20. BehindInv'
    BY <1>1, <1>3, <1>4, <1>5, <1>7, <1>12 DEF BehindInv
  <1>21. FoundInv'
    BY <1>1, <1>3, <1>5, <1>7 DEF FoundInv, FoundThere
  <1>22. UpgradeIsBackedUp'
    <2>1. ASSUME stage' = "migrate", env.backup,
                 lastServed.version \in 1 .. v - 1
          PROVE  IsBackedUp(lastServed)
      <3>1. lastServed.version \in Nat /\ v \in Nat
        BY <1>3, Names, Numbers DEF StoreTypeOK
      <3>2. file # lastServed
        BY <1>2, <2>1, <3>1 DEF NeedsBackup
      <3> QED
        BY <1>3, <1>10, <1>11, <2>1, <3>1, <3>2 DEF BackupInv
    <2> QED
      BY <1>1, <1>2, <2>1, <1>17 DEF UpgradeIsBackedUp, IsBackedUp, OpenSteps
  <1> QED
    BY <1>13, <1>14, <1>15, <1>16, <1>18, <1>19, <1>20, <1>21, <1>22
       DEF StoreInv

\* Without a suitable backup, or when an error ends the restore, the program
\* goes on in degraded mode with the files as they are (store.go, tryRestore).
LEMMA DegradedStep ==
    ASSUME StoreInv, NoBackupFound \/ RestoreFails
    PROVE  StoreInv'
  <1>1. /\ stage \in {"restore", "create", "copy", "copyRest"}
        /\ stage' = "degraded"
        /\ UNCHANGED <<files, script, env, bin, picked, entered, lastServed,
                       forgone, strayed>>
    BY DEF NoBackupFound, RestoreFails, MoveTo
  <1>2. UNCHANGED <<db, main, opened, saved, backups>>
    BY <1>1 DEF files
  <1>3. /\ StoreTypeOK /\ FilesInv /\ RestoreInv /\ BackupInv
        /\ KeptInv /\ BehindInv /\ FoundInv
    BY DEF StoreInv
  <1>4. \/ UNCHANGED spent
        \/ spent' = [spent EXCEPT !.failures = @ + 1] /\ spent.failures < MaxErrors
    BY DEF NoBackupFound, RestoreFails, MoveTo
  <1>5. CopyWasCut => CopyWasCut'
    BY <1>1, <1>3, <1>4, CutGrows
  <1>6. spent' \in [crashes : 0..MaxCrashes, failures : 0..MaxErrors]
    BY <1>3, <1>4, StoreAssumption DEF StoreTypeOK
  <1>7. /\ OneGo' = OneGo
        /\ Kept' => Kept
    BY <1>1, <1>5 DEF Kept, OneGo
  <1>8. StoreTypeOK'
    BY <1>1, <1>2, <1>3, <1>6 DEF StoreTypeOK
  <1>9. FilesInv'
    <2>1. db \in Databases => CopyIsWhole(db)
      BY <1>1, <1>3 DEF FilesInv, Rebuild
    <2>2. db' \in Databases => CopyIsWhole(db)'
      BY <1>1, <1>2, <1>5, <1>7, <2>1 DEF CopyIsWhole
    <2> QED
      BY <1>1, <1>2, <1>3, <1>5, <2>2, BackupsStay DEF FilesInv
  <1>10. RestoreInv'
    BY <1>1, <1>2, <1>3 DEF RestoreInv, Copied
  <1>11. StageInv'
    BY <1>1 DEF StageInv, OpenSteps, Rebuild
  <1>12. IsBackedUp(lastServed)' <=> IsBackedUp(lastServed)
    BY <1>1, <1>2 DEF IsBackedUp
  <1>13. BackupInv'
    BY <1>1, <1>2, <1>3, <1>12 DEF BackupInv, Copied
  <1>14. KeptInv'
    BY <1>1, <1>2, <1>3, <1>7 DEF KeptInv
  <1>15. BehindInv'
    BY <1>1, <1>2, <1>3, <1>5 DEF BehindInv
  <1>16. FoundInv'
    BY <1>1, <1>2, <1>3, <1>5 DEF FoundInv, FoundThere
  <1>17. UpgradeIsBackedUp'
    BY <1>1 DEF UpgradeIsBackedUp, OpenSteps
  <1> QED
    BY <1>8, <1>9, <1>10, <1>11, <1>13, <1>14, <1>15, <1>16, <1>17 DEF StoreInv

\* The database that is set aside stays open: its rows are found there, and
\* what its file has of them in the file of that name.
LEMMA SetAsideStep ==
    ASSUME StoreInv, SetAside
    PROVE  StoreInv'
  <1>1. PICK i \in Candidates : picked' = backups[i]
    BY DEF SetAside
  <1>2. /\ stage = "restore" /\ stage' = "create"
        /\ saved' = [saved EXCEPT ![db.version] = main]
        /\ forgone' = forgone \cup Held(saved[db.version])
        /\ opened' = db /\ db' = NoFile /\ main' = NoFile
        /\ lastServed' = EmptyFile
        /\ UNCHANGED <<backups, script, env, bin, spent, entered, strayed>>
    BY DEF SetAside
  <1>3. /\ StoreTypeOK /\ FilesInv /\ RestoreInv /\ StageInv
        /\ BehindInv /\ FoundInv
    BY DEF StoreInv
  <1>4. /\ db \in Databases /\ db.version \in Versions
        /\ opened = NoFile /\ main # Torn /\ ~strayed
    BY <1>2, <1>3, Names DEF StageInv, RestoreInv, Copied
  <1>5. /\ i \in DOMAIN backups /\ backups[i] # Torn
        /\ backups[i].version = bin /\ backups[i] \in Databases
    BY <1>1, <1>3 DEF Candidates, StoreTypeOK
  <1>6. CopyWasCut' = CopyWasCut /\ OneGo' = OneGo
    BY <1>2 DEF CopyWasCut, OneGo
  <1>7. main \in Databases \cup {NoFile} /\ saved[db.version] \in Databases \cup {NoFile}
    BY <1>3, <1>4 DEF StoreTypeOK
  <1>8. Held(saved[db.version]) \subseteq Rows
    <2>1. CASE saved[db.version] = NoFile
      BY <2>1, NoneHeld
    <2>2. CASE saved[db.version] \in Databases
      BY <2>2, HeldIs
    <2> QED
      BY <1>7, <2>1, <2>2
  <1>9. StoreTypeOK'
    <2>1. saved' \in [Versions -> Databases \cup {NoFile}]
      BY <1>2, <1>3, <1>4, <1>7 DEF StoreTypeOK
    <2>2. {db', main', opened', picked'} \subseteq Databases \cup {NoFile, Torn}
      BY <1>1, <1>2, <1>4, <1>5
    <2>3. lastServed' \in Databases /\ forgone' \subseteq Rows
      BY <1>2, <1>3, <1>8, NoneHeld DEF StoreTypeOK
    <2> QED
      BY <1>2, <1>3, <2>1, <2>2, <2>3 DEF StoreTypeOK
  <1>10. FilesInv'
    <2>1. db' \notin Databases
      BY <1>2, Names
    <2>2. forgone \subseteq forgone'
      BY <1>2
    <2> QED
      BY <1>2, <1>6, <2>1, <2>2, BackupsStay DEF FilesInv
  <1>11. RestoreInv'
    <2>1. Sound(backups[i], script) /\ CopyIsWhole(backups[i])
      BY <1>3, <1>5 DEF FilesInv
    <2>2. CopyIsWhole(picked)'
      BY <1>1, <1>2, <1>6, <2>1, WholeGrows DEF CopyIsWhole
    <2> QED
      BY <1>1, <1>2, <1>4, <1>5, <2>1, <2>2, StoreNames DEF RestoreInv, Copied
  <1>12. StageInv'
    BY <1>2 DEF StageInv, OpenSteps, Rebuild
  <1>13. BackupInv'
    BY <1>2, NoneHeld DEF BackupInv
  <1>14. KeptInv'
    BY <1>2, NoneHeld, Names DEF KeptInv
  <1>15. BehindInv'
    <2>1. saved'[opened'.version] = main
      BY <1>2, <1>3, <1>4 DEF StoreTypeOK
    <2> QED
      BY <1>2, <1>3, <1>4, <1>6, <2>1, NoneHeld DEF BehindInv
  <1>16. ASSUME NEW r, FoundThere(r)
         PROVE  FoundThere(r)'
    <2>1. ASSUME NEW w \in Versions, r \in Held(saved[w])
          PROVE  r \in forgone' \/ r \in Held(saved'[w])
      BY <1>2, <1>3, <1>4, <2>1 DEF StoreTypeOK
    <2> QED
      BY <1>2, <1>4, <1>16, <2>1, NoneHeld DEF FoundThere
  <1>17. FoundInv'
    BY <1>2, <1>3, <1>6, <1>16 DEF FoundInv
  <1>18. UpgradeIsBackedUp'
    BY <1>2 DEF UpgradeIsBackedUp, OpenSteps
  <1> QED
    BY <1>9, <1>10, <1>11, <1>12, <1>13, <1>14, <1>15, <1>17, <1>18 DEF StoreInv

\* While a backup is copied to its place nothing is there that could be lost;
\* what stands there at the end is what was restored.
LEMMA WriteFileStep ==
    ASSUME StoreInv, CreateFile \/ CopyPart \/ CopyRest
    PROVE  StoreInv'
  <1>1. /\ stage \in Copied \ {"reopen"} /\ stage' \in Copied \ {"create"}
        /\ main' = db'
        /\ UNCHANGED <<opened, saved, backups, script, env, bin, picked, spent,
                       entered, forgone, strayed>>
    BY DEF CreateFile, CopyPart, CopyRest, WriteFile, Copied
  <1>2. /\ StoreTypeOK /\ FilesInv /\ RestoreInv /\ BackupInv
        /\ BehindInv /\ FoundInv
    BY DEF StoreInv
  <1>3. /\ picked \in Databases /\ picked.version = bin
        /\ Sound(picked, script) /\ CopyIsWhole(picked)
        /\ lastServed = EmptyFile
    BY <1>1, <1>2 DEF RestoreInv, BackupInv
  <1>4. picked # EmptyFile /\ picked # Torn
    BY <1>2, <1>3, NoneHeld, Names, Numbers DEF StoreTypeOK
  <1>5. /\ stage' = "copy" => db' = EmptyFile /\ lastServed' = EmptyFile
        /\ stage' = "copyRest" => db' = Torn /\ lastServed' = EmptyFile
        /\ stage' = "reopen" => db' = picked /\ lastServed' = picked
    BY <1>3, <1>4 DEF CreateFile, CopyPart, CopyRest, WriteFile
  <1>6. stage' \in {"copy", "copyRest", "reopen"}
    BY <1>1 DEF Copied
  <1>7. Held(db) = {} /\ ~strayed
    BY <1>1, <1>2, NoneHeld DEF RestoreInv, Copied
  <1>8. CopyWasCut' = CopyWasCut /\ OneGo' = OneGo
    BY <1>1 DEF CopyWasCut, OneGo
  <1>9. StoreTypeOK'
    <2>1. db' \in Databases \cup {NoFile, Torn} /\ lastServed' \in Databases
      BY <1>3, <1>5, <1>6, NoneHeld
    <2> QED
      BY <1>1, <1>2, <2>1 DEF StoreTypeOK
  <1>10. CopyIsWhole(picked)' /\ Sound(picked', script')
    BY <1>1, <1>3, <1>8 DEF CopyIsWhole
  <1>11. FilesInv'
    <2>1. ASSUME db' \in Databases
          PROVE  Sound(db', script') /\ CopyIsWhole(db)'
      <3>1. CASE db' = EmptyFile
        BY <1>8, <3>1, EmptySound, NoneHeld DEF CopyIsWhole
      <3>2. CASE db' = picked
        BY <1>1, <1>8, <1>10, <3>2 DEF CopyIsWhole
      <3> QED
        BY <1>5, <1>6, <2>1, <3>1, <3>2, Names
    <2> QED
      BY <1>1, <1>8, <2>1, BackupsStay DEF FilesInv
  <1>12. RestoreInv'
    BY <1>1, <1>2, <1>3, <1>5, <1>6, <1>7, <1>10 DEF RestoreInv, Copied
  <1>13. StageInv'
    BY <1>6 DEF StageInv, OpenSteps, Rebuild
  <1>14. BackupInv'
    BY <1>1, <1>5, <1>6, NoneHeld DEF BackupInv, Copied
  <1>15. KeptInv'
    <2>1. Held(db') = Held(lastServed')
      BY <1>5, <1>6, NoneHeld
    <2>2. Kept' /\ OneGo' /\ db' \in Databases => db'.staging = NoTable
      BY <1>5, <1>6, NoneHeld, Names DEF Kept, OneGo
    <2>3. db'.staging = NoTable => Whole(db', {})
      BY DEF Whole
    <2> QED
      BY <1>6, <2>1, <2>2, <2>3 DEF KeptInv
  <1>16. BehindInv'
    BY <1>1, <1>2, <1>8 DEF BehindInv
  <1>17. FoundInv'
    BY <1>1, <1>2, <1>7, <1>8 DEF FoundInv, FoundThere
  <1>18. UpgradeIsBackedUp'
    BY <1>6 DEF UpgradeIsBackedUp, OpenSteps
  <1> QED
    BY <1>9, <1>11, <1>12, <1>13, <1>14, <1>15, <1>16, <1>17, <1>18 DEF StoreInv

----------------------------------------------------------------------------
(* StoreOpen: closing, and the end of the process *)

\* What was left by a statement of the rebuild that is the last to run has a
\* copy that the next attempt may take as it finds it (020_adapter_m2m.go:95).
LEMMA CutCopy ==
    ASSUME StoreInv, stage \in Rebuild, OneGo
    PROVE  Whole(db, forgone)
  <1>1. StageInv /\ ~CopyWasCut
    BY DEF StoreInv, OneGo, CopyWasCut
  <1> QED
    BY <1>1 DEF StageInv, Rebuild, Whole, OneGo

\* Closing the database writes what is open to the file that was renamed, and
\* loses nothing that was there (store.go, Close).
LEMMA ClosedKeeps ==
    ASSUME StoreInv, saved' = Closed, opened' = NoFile, ~strayed, ~CopyWasCut,
           UNCHANGED <<db, backups, forgone>>, NEW r, FoundThere(r)
    PROVE  FoundThere(r)'
  <1>1. StoreTypeOK /\ RestoreInv /\ BehindInv
    BY DEF StoreInv
  <1>2. CASE opened = NoFile
    BY <1>2, NoneHeld DEF FoundThere, Closed
  <1>3. CASE opened # NoFile
    <2>1. /\ opened.version \in Versions
          /\ saved' = [saved EXCEPT ![opened.version] = opened]
      BY <1>1, <1>3 DEF RestoreInv, Closed
    <2>2. saved'[opened.version] = opened
      BY <1>1, <2>1 DEF StoreTypeOK
    <2>3. ASSUME NEW v \in Versions, r \in Held(saved[v]), v # opened.version
          PROVE  r \in Held(saved'[v])
      BY <1>1, <2>1, <2>3 DEF StoreTypeOK
    <2>4. Held(saved[opened.version]) \subseteq Held(opened) \cup forgone
      BY <1>1, <1>3 DEF BehindInv
    <2> QED
      BY <2>1, <2>2, <2>3, <2>4 DEF FoundThere
  <1> QED
    BY <1>2, <1>3

\* The database that a program left has the invariant when it is down.
LEMMA DownStep ==
    ASSUME StoreInv, stage # "down", stage' = "down", opened' = NoFile,
           UNCHANGED <<db, backups, script, env, bin, picked, entered,
                       lastServed, forgone>>,
           main' = main \/ main' = db,
           saved' \in [Versions -> Databases \cup {NoFile}],
           strayed' \in BOOLEAN,
           \/ UNCHANGED spent /\ stage \notin Rebuild
           \/ /\ spent.failures < MaxErrors
              /\ spent' = [spent EXCEPT !.failures = @ + 1]
           \/ /\ spent.crashes < MaxCrashes
              /\ spent' = [spent EXCEPT !.crashes = @ + 1],
           ~strayed' /\ ~CopyWasCut' => \A r : FoundThere(r) => FoundThere(r)'
    PROVE  StoreInv'
  <1>1. /\ StoreTypeOK /\ FilesInv /\ RestoreInv /\ BackupInv
        /\ KeptInv /\ BehindInv /\ FoundInv
    BY DEF StoreInv
  <1>2. /\ CopyWasCut => CopyWasCut'
        /\ ~UNCHANGED spent => (CopyWasCut' <=> script = "loop")
    BY <1>1, CutGrows
  <1>3. spent' \in [crashes : 0..MaxCrashes, failures : 0..MaxErrors]
    BY <1>1, StoreAssumption DEF StoreTypeOK
  <1>4. OneGo' = OneGo /\ (Kept' => Kept)
    BY <1>2 DEF Kept, OneGo
  <1>5. ~strayed
    BY <1>1 DEF RestoreInv
  <1>6. StoreTypeOK'
    BY <1>1, <1>3 DEF StoreTypeOK
  <1>7. FilesInv'
    <2>1. ASSUME db \in Databases
          PROVE  CopyIsWhole(db)'
      <3>1. CASE stage \notin Rebuild
        BY <1>1, <1>2, <1>4, <2>1, <3>1 DEF FilesInv, CopyIsWhole
      <3>2. CASE stage \in Rebuild
        <4>1. OneGo => Whole(db, forgone)
          BY <3>2, CutCopy
        <4>2. script = "loop" => CopyWasCut'
          <5>1. CASE spent' = [spent EXCEPT !.failures = @ + 1]
            <6>1. spent'.failures = spent.failures + 1
              BY <1>1, <5>1 DEF StoreTypeOK
            <6>2. spent.failures \in Nat
              BY <1>1, StoreAssumption DEF StoreTypeOK
            <6> QED
              BY <1>2, <6>1, <6>2
          <5>2. CASE spent' = [spent EXCEPT !.crashes = @ + 1]
            <6>1. spent'.crashes = spent.crashes + 1
              BY <1>1, <5>2 DEF StoreTypeOK
            <6>2. spent.crashes \in Nat
              BY <1>1, StoreAssumption DEF StoreTypeOK
            <6> QED
              BY <1>2, <6>1, <6>2
          <5> QED
            BY <3>2, <5>1, <5>2
        <4> QED
          BY <1>4, <4>1, <4>2 DEF CopyIsWhole
      <3> QED
        BY <3>1, <3>2
    <2> QED
      BY <1>1, <1>2, <2>1, BackupsStay DEF FilesInv
  <1>8. RestoreInv'
    BY <1>1 DEF RestoreInv, Copied
  <1>9. StageInv'
    BY DEF StageInv, OpenSteps, Rebuild
  <1>10. IsBackedUp(lastServed)' <=> IsBackedUp(lastServed)
    BY DEF IsBackedUp
  <1>11. BackupInv'
    BY <1>1, <1>10 DEF BackupInv, Copied
  <1>12. KeptInv'
    BY <1>1, <1>4 DEF KeptInv
  <1>13. BehindInv'
    BY <1>1, <1>2, <1>5 DEF BehindInv
  <1>14. FoundInv'
    BY <1>1, <1>2, <1>5 DEF FoundInv
  <1>15. UpgradeIsBackedUp'
    BY DEF UpgradeIsBackedUp, OpenSteps
  <1> QED
    BY <1>6, <1>7, <1>8, <1>9, <1>11, <1>12, <1>13, <1>14, <1>15 DEF StoreInv

\* What Close writes are databases under versions of the program.
LEMMA ClosedType ==
    ASSUME StoreInv
    PROVE  Closed \in [Versions -> Databases \cup {NoFile}]
  BY DEF StoreInv, StoreTypeOK, RestoreInv, Closed

\* Shutdown, and Open when it fails.
LEMMA CloseStep ==
    ASSUME StoreInv, Stop \/ OpenFails
    PROVE  StoreInv'
  <1>1. Close
    BY DEF Stop, OpenFails
  <1>2. /\ saved' = Closed /\ opened' = NoFile /\ stage' = "down"
        /\ main' = main \/ main' = db
        /\ UNCHANGED <<db, backups, script, env, bin, picked, entered,
                       lastServed, forgone, strayed>>
    BY <1>1 DEF Close
  <1>3. /\ stage # "down"
        /\ \/ UNCHANGED spent /\ stage \notin Rebuild
           \/ /\ spent.failures < MaxErrors
              /\ spent' = [spent EXCEPT !.failures = @ + 1]
    BY DEF Stop, OpenFails, OpenSteps, Rebuild
  <1>4. saved' \in [Versions -> Databases \cup {NoFile}]
    BY <1>2, ClosedType
  <1>5. StoreTypeOK
    BY DEF StoreInv
  <1>6. CopyWasCut => CopyWasCut'
    BY <1>2, <1>3, <1>5, CutGrows
  <1>7. ~strayed' /\ ~CopyWasCut' => \A r : FoundThere(r) => FoundThere(r)'
    BY <1>2, <1>6, ClosedKeeps
  <1>8. strayed' \in BOOLEAN
    BY <1>2, <1>5 DEF StoreTypeOK
  <1> QED
    BY <1>2, <1>3, <1>4, <1>7, <1>8, DownStep

\* The end of the process loses what is open only with its log.
LEMMA CrashStep ==
    ASSUME StoreInv, Crash
    PROVE  StoreInv'
  <1>1. /\ stage # "down" /\ spent.crashes < MaxCrashes
        /\ spent' = [spent EXCEPT !.crashes = @ + 1]
        /\ strayed' = (opened # NoFile /\ Closed # saved)
        /\ stage' = "down" /\ opened' = NoFile
        /\ UNCHANGED <<db, main, saved, backups, script, env, bin, picked,
                       entered, lastServed, forgone>>
    BY DEF Crash
  <1>2. StoreTypeOK /\ RestoreInv
    BY DEF StoreInv
  <1>3. CopyWasCut => CopyWasCut'
    BY <1>1, <1>2, CutGrows
  <1>4. ~strayed
    BY <1>1, <1>2 DEF RestoreInv
  <1>5. ~strayed' => saved' = Closed
    BY <1>1 DEF Closed
  <1>6. ~strayed' /\ ~CopyWasCut' => \A r : FoundThere(r) => FoundThere(r)'
    BY <1>1, <1>3, <1>4, <1>5, ClosedKeeps
  <1>7. strayed' \in BOOLEAN /\ saved' \in [Versions -> Databases \cup {NoFile}]
    BY <1>1, <1>2 DEF StoreTypeOK
  <1> QED
    BY <1>1, <1>6, <1>7, DownStep

\* The database is opened by that name again, and its old file closed.
LEMMA ReopenStep ==
    ASSUME StoreInv, Reopen
    PROVE  StoreInv'
  <1>1. /\ stage = "reopen" /\ stage' = "migrate"
        /\ saved' = Closed /\ opened' = NoFile
        /\ UNCHANGED <<db, main, backups, script, env, bin, picked, spent,
                       entered, lastServed, forgone, strayed>>
    BY DEF Reopen, MoveTo
  <1>2. /\ StoreTypeOK /\ FilesInv /\ RestoreInv /\ BackupInv
        /\ KeptInv /\ BehindInv /\ FoundInv
    BY DEF StoreInv
  <1>3. /\ db = picked /\ lastServed = picked /\ ~strayed
        /\ picked \in Databases /\ picked.version = bin
    BY <1>1, <1>2 DEF RestoreInv, BackupInv, Copied
  <1>4. CopyWasCut' = CopyWasCut /\ OneGo' = OneGo /\ Kept' = Kept
    BY <1>1 DEF CopyWasCut, OneGo, Kept
  <1>5. StoreTypeOK'
    <2>1. saved' \in [Versions -> Databases \cup {NoFile}]
      BY <1>1, ClosedType
    <2> QED
      BY <1>1, <1>2, <2>1 DEF StoreTypeOK
  <1>6. FilesInv'
    <2>1. CopyIsWhole(db)
      BY <1>1, <1>2, <1>3 DEF FilesInv, Rebuild
    <2>2. CopyIsWhole(db)'
      BY <1>1, <1>4, <2>1 DEF CopyIsWhole
    <2> QED
      BY <1>1, <1>2, <1>4, <2>2, BackupsStay DEF FilesInv
  <1>7. RestoreInv'
    BY <1>1, <1>2 DEF RestoreInv, Copied
  <1>8. StageInv'
    BY <1>1, <1>3 DEF StageInv, Rebuild
  <1>9. IsBackedUp(lastServed)' <=> IsBackedUp(lastServed)
    BY <1>1 DEF IsBackedUp
  <1>10. BackupInv'
    BY <1>1, <1>2, <1>9 DEF BackupInv, Copied
  <1>11. KeptInv'
    BY <1>1, <1>2, <1>4 DEF KeptInv
  <1>12. BehindInv'
    BY <1>1, <1>2, <1>4 DEF BehindInv
  <1>13. FoundInv'
    BY <1>1, <1>2, <1>3, <1>4, ClosedKeeps DEF FoundInv
  <1>14. UpgradeIsBackedUp'
    BY <1>1, <1>2, <1>3, Numbers DEF UpgradeIsBackedUp, StoreTypeOK
  <1> QED
    BY <1>5, <1>6, <1>7, <1>8, <1>10, <1>11, <1>12, <1>13, <1>14 DEF StoreInv

----------------------------------------------------------------------------
(* StoreOpen: backing up *)

\* A new backup is none before it is whole, and the file it is copied from has
\* everything that the log had.
LEMMA BeginBackupStep ==
    ASSUME StoreInv, BeginBackup
    PROVE  StoreInv'
  <1>1. /\ stage = "backup" /\ stage' = "copyBackup" /\ main' = db
        /\ backups' = Append(backups, Torn)
        /\ UNCHANGED <<db, opened, saved, script, env, bin, picked, spent,
                       entered, lastServed, forgone, strayed>>
    BY DEF BeginBackup, MoveTo, Checkpointed
  <1>2. /\ StoreTypeOK /\ FilesInv /\ RestoreInv /\ StageInv /\ BackupInv
        /\ KeptInv /\ BehindInv /\ FoundInv
    BY DEF StoreInv
  <1>3. db \in Databases /\ db # Torn /\ ~strayed /\ opened = NoFile
    BY <1>1, <1>2, Names DEF StageInv, OpenSteps, RestoreInv, Copied
  <1>4. /\ backups \in Seq(Databases \cup {Torn})
        /\ backups' \in Seq(Databases \cup {Torn})
        /\ Len(backups') = Len(backups) + 1 /\ Len(backups) \in Nat
        /\ backups'[Len(backups')] = Torn
        /\ \A i \in DOMAIN backups :
              i \in DOMAIN backups' /\ backups'[i] = backups[i]
        /\ \A i \in DOMAIN backups' :
              \/ i \in DOMAIN backups /\ backups'[i] = backups[i]
              \/ backups'[i] = Torn
    BY <1>1, <1>2 DEF StoreTypeOK
  <1>5. CopyWasCut' = CopyWasCut /\ OneGo' = OneGo /\ Kept' = Kept
    BY <1>1 DEF CopyWasCut, OneGo, Kept
  <1>6. StoreTypeOK'
    BY <1>1, <1>2, <1>4 DEF StoreTypeOK
  <1>7. FilesInv'
    <2>1. ASSUME NEW i \in DOMAIN backups', backups'[i] \in Databases
          PROVE  Sound(backups'[i], script') /\ CopyIsWhole(backups[i])'
      <3>1. i \in DOMAIN backups /\ backups'[i] = backups[i]
        BY <1>4, <2>1, Names
      <3>2. Sound(backups[i], script) /\ CopyIsWhole(backups[i])
        BY <1>2, <2>1, <3>1 DEF FilesInv
      <3> QED
        BY <1>1, <1>5, <3>1, <3>2 DEF CopyIsWhole
    <2>2. CopyIsWhole(db)'
      <3>1. CopyIsWhole(db)
        BY <1>1, <1>2, <1>3 DEF FilesInv, Rebuild
      <3> QED
        BY <1>1, <1>5, <3>1 DEF CopyIsWhole
    <2> QED
      BY <1>1, <1>2, <2>1, <2>2 DEF FilesInv
  <1>8. RestoreInv'
    BY <1>1, <1>2, <1>3 DEF RestoreInv, Copied
  <1>9. StageInv'
    BY <1>1, <1>3, <1>4 DEF StageInv, Rebuild
  <1>10. IsBackedUp(lastServed) => IsBackedUp(lastServed)'
    BY <1>1, <1>4 DEF IsBackedUp
  <1>11. BackupInv'
    BY <1>1, <1>2, <1>10 DEF BackupInv, Copied
  <1>12. KeptInv'
    BY <1>1, <1>2, <1>5 DEF KeptInv
  <1>13. BehindInv'
    BY <1>1, <1>3 DEF BehindInv
  <1>14. FoundInv'
    BY <1>1, <1>2, <1>4, <1>5 DEF FoundInv, FoundThere
  <1>15. UpgradeIsBackedUp'
    BY <1>1 DEF UpgradeIsBackedUp
  <1> QED
    BY <1>6, <1>7, <1>8, <1>9, <1>11, <1>12, <1>13, <1>14, <1>15 DEF StoreInv

\* When it is whole it is the database that migrations begin with.
LEMMA CopyBackupStep ==
    ASSUME StoreInv, CopyBackup
    PROVE  StoreInv'
  <1>1. /\ stage = "copyBackup" /\ stage' = "migrate"
        /\ backups' = [backups EXCEPT ![Len(backups)] = main]
        /\ UNCHANGED <<db, main, opened, saved, script, env, bin, picked,
                       spent, entered, lastServed, forgone, strayed>>
    BY DEF CopyBackup, MoveTo
  <1>2. /\ StoreTypeOK /\ FilesInv /\ RestoreInv /\ StageInv /\ BackupInv
        /\ KeptInv /\ BehindInv /\ FoundInv
    BY DEF StoreInv
  <1>3. /\ db \in Databases /\ db # Torn /\ main = db
        /\ Len(backups) > 0 /\ backups[Len(backups)] = Torn
    BY <1>1, <1>2, Names DEF StageInv, OpenSteps
  <1>4. /\ backups' \in Seq(Databases \cup {Torn})
        /\ DOMAIN backups' = DOMAIN backups
        /\ Len(backups) \in DOMAIN backups
        /\ backups'[Len(backups)] = db
        /\ \A i \in DOMAIN backups :
              i # Len(backups) => backups'[i] = backups[i]
    BY <1>1, <1>2, <1>3 DEF StoreTypeOK
  <1>5. CopyWasCut' = CopyWasCut /\ OneGo' = OneGo /\ Kept' = Kept
    BY <1>1 DEF CopyWasCut, OneGo, Kept
  <1>6. StoreTypeOK'
    BY <1>1, <1>2, <1>4 DEF StoreTypeOK
  <1>7. Sound(db, script) /\ CopyIsWhole(db)
    BY <1>1, <1>2, <1>3 DEF FilesInv, Rebuild
  <1>8. FilesInv'
    <2>1. ASSUME NEW i \in DOMAIN backups', backups'[i] \in Databases
          PROVE  Sound(backups'[i], script') /\ CopyIsWhole(backups[i])'
      <3>1. Sound(backups'[i], script) /\ CopyIsWhole(backups'[i])
        BY <1>2, <1>4, <1>7, <2>1 DEF FilesInv
      <3> QED
        BY <1>1, <1>5, <3>1 DEF CopyIsWhole
    <2>2. CopyIsWhole(db)'
      BY <1>1, <1>5, <1>7 DEF CopyIsWhole
    <2> QED
      BY <1>1, <1>2, <2>1, <2>2 DEF FilesInv
  <1>9. RestoreInv'
    BY <1>1, <1>2 DEF RestoreInv, Copied
  <1>10. StageInv'
    BY <1>1, <1>3 DEF StageInv, Rebuild
  <1>11. lastServed # Torn
    BY <1>2, Names DEF StoreTypeOK
  <1>12. IsBackedUp(lastServed) \/ db = lastServed => IsBackedUp(lastServed)'
    BY <1>1, <1>3, <1>4, <1>11 DEF IsBackedUp
  <1>13. BackupInv'
    BY <1>1, <1>2, <1>12 DEF BackupInv, Copied
  <1>14. KeptInv'
    BY <1>1, <1>2, <1>5 DEF KeptInv
  <1>15. BehindInv'
    BY <1>1, <1>2, <1>5 DEF BehindInv
  <1>16. FoundInv'
    <2>1. Held(backups[Len(backups)]) = {}
      BY <1>3, NoneHeld
    <2>2. ASSUME NEW r, NEW i \in DOMAIN backups, r \in Held(backups[i])
          PROVE  i \in DOMAIN backups' /\ r \in Held(backups'[i])
      BY <1>4, <2>1, <2>2
    <2> QED
      BY <1>1, <1>2, <1>5, <2>2 DEF FoundInv, FoundThere
  <1>17. UpgradeIsBackedUp'
    <2>1. lastServed.version \in Nat /\ bin \in Nat
      BY <1>2, Names, Numbers DEF StoreTypeOK
    <2> QED
      BY <1>1, <1>2, <1>12, <2>1 DEF UpgradeIsBackedUp, IsBackedUp, BackupInv
  <1> QED
    BY <1>6, <1>8, <1>9, <1>10, <1>13, <1>14, <1>15, <1>16, <1>17 DEF StoreInv

----------------------------------------------------------------------------
(* StoreOpen: serving *)

\* What is served is as it was served, whatever has gone before.
LEMMA ServeStep ==
    ASSUME StoreInv, Serve
    PROVE  StoreInv'
  <1>1. /\ stage = "migrate" /\ db.version >= bin /\ stage' = "serving"
        /\ lastServed' = db
        /\ UNCHANGED <<db, main, opened, saved, backups, script, env, bin,
                       picked, spent, entered, forgone, strayed>>
    BY DEF Serve, files
  <1>2. /\ StoreTypeOK /\ FilesInv /\ RestoreInv /\ StageInv
        /\ BehindInv /\ FoundInv
    BY DEF StoreInv
  <1>3. db \in Databases
    BY <1>1, <1>2 DEF StageInv, OpenSteps
  <1>4. CopyWasCut' = CopyWasCut /\ OneGo' = OneGo
    BY <1>1 DEF CopyWasCut, OneGo
  <1>5. StoreTypeOK'
    BY <1>1, <1>2, <1>3 DEF StoreTypeOK
  <1>6. FilesInv'
    <2>1. CopyIsWhole(db)
      BY <1>1, <1>2, <1>3 DEF FilesInv, Rebuild
    <2>2. CopyIsWhole(db)'
      BY <1>1, <1>4, <2>1 DEF CopyIsWhole
    <2> QED
      BY <1>1, <1>2, <1>4, <2>2, BackupsStay DEF FilesInv
  <1>7. RestoreInv'
    BY <1>1, <1>2 DEF RestoreInv, Copied
  <1>8. StageInv'
    BY <1>1, <1>3 DEF StageInv, OpenSteps, Rebuild
  <1>9. BackupInv'
    BY <1>1 DEF BackupInv, Copied
  <1>10. KeptInv'
    <2>1. Kept' /\ OneGo' => db'.staging = NoTable
      BY <1>1 DEF Kept, OneGo
    <2>2. db'.staging = NoTable => Whole(db', {})
      BY DEF Whole
    <2> QED
      BY <1>1, <2>1, <2>2 DEF KeptInv
  <1>11. BehindInv'
    BY <1>1, <1>2, <1>4 DEF BehindInv
  <1>12. FoundInv'
    BY <1>1, <1>2, <1>4 DEF FoundInv, FoundThere
  <1>13. UpgradeIsBackedUp'
    BY <1>1 DEF UpgradeIsBackedUp, OpenSteps
  <1> QED
    BY <1>5, <1>6, <1>7, <1>8, <1>9, <1>10, <1>11, <1>12, <1>13 DEF StoreInv

\* A row that an administrator enters joins the table in whichever shape the
\* program finds it.
LEMMA EnteredRow ==
    ASSUME StoreInv, NEW r \in Rows, EnterRow(r)
    PROVE  /\ db \in Databases /\ db' \in Databases
           /\ db'.version = db.version /\ db'.staging = db.staging
           /\ Bare(db') = Bare(db) /\ ~Bare(db)
           /\ Table(db') = Table(db) \cup {r}
           /\ Held(db') = Held(db) \cup {r}
           /\ Sound(db', script)
  <1>1. /\ stage = "serving"
        /\ \/ /\ bin < RebuildAt /\ db.old # NoTable
              /\ db' = [db EXCEPT !.old = @ \cup {r}]
           \/ /\ bin >= RebuildAt /\ db.new # NoTable
              /\ db' = [db EXCEPT !.new = @ \cup {r}]
    BY Numbers DEF EnterRow, Sql, StoreInv, StoreTypeOK
  <1>2. /\ db \in Databases /\ Sound(db, script) /\ db.version >= bin
        /\ bin \in Nat
    BY <1>1, Numbers
       DEF StoreInv, StoreTypeOK, StageInv, FilesInv, OpenSteps
  <1>3. db.version \in Nat /\ RebuildAt \in Nat
    BY <1>2, Names, Numbers
  <1>4. CASE bin < RebuildAt /\ db.old # NoTable
             /\ db' = [db EXCEPT !.old = @ \cup {r}]
    <2>1. db.old \cup {r} \in SUBSET Rows /\ db.new = NoTable
      BY <1>2, <1>4, Names DEF Sound
    <2>2. /\ db' \in Databases
          /\ db'.version = db.version /\ db'.old = db.old \cup {r}
          /\ db'.new = NoTable /\ db'.staging = db.staging
      BY <1>2, <1>4, <2>1 DEF Databases
    <2>3. db'.old # NoTable
      BY <2>1, <2>2, StoreNames
    <2>4. /\ ~Bare(db) /\ ~Bare(db')
          /\ Table(db) = db.old /\ Table(db') = db.old \cup {r}
      BY <1>4, <2>1, <2>2, <2>3 DEF Bare, Table, RowsOf
    <2>5. Held(db') = Held(db) \cup {r}
      BY <1>2, <2>2, <2>4, HeldIs
    <2>6. Sound(db', script)
      BY <1>2, <1>3, <2>1, <2>2, <2>3, <2>4 DEF Sound
    <2> QED
      BY <1>2, <2>2, <2>4, <2>5, <2>6 DEF Bare
  <1>5. CASE bin >= RebuildAt /\ db.new # NoTable
             /\ db' = [db EXCEPT !.new = @ \cup {r}]
    <2>1. /\ db.new \cup {r} \in SUBSET Rows /\ db.old = NoTable
          /\ db.staging = NoTable
      BY <1>2, <1>3, <1>5, Names DEF Sound
    <2>2. /\ db' \in Databases
          /\ db'.version = db.version /\ db'.new = db.new \cup {r}
          /\ db'.old = NoTable /\ db'.staging = db.staging
      BY <1>2, <1>5, <2>1 DEF Databases
    <2>3. db'.new # NoTable
      BY <2>1, <2>2, StoreNames
    <2>4. /\ ~Bare(db) /\ ~Bare(db')
          /\ Table(db) = db.new /\ Table(db') = db.new \cup {r}
      BY <1>5, <2>1, <2>2, <2>3 DEF Bare, Table, RowsOf
    <2>5. Held(db') = Held(db) \cup {r}
      BY <1>2, <2>2, <2>4, HeldIs
    <2>6. Sound(db', script)
      BY <1>2, <1>3, <2>1, <2>2, <2>3, <2>4 DEF Sound
    <2> QED
      BY <1>2, <2>2, <2>4, <2>5, <2>6 DEF Bare
  <1> QED
    BY <1>1, <1>4, <1>5

\* What is entered is found, and is served as it stands.
LEMMA EnterRowStep ==
    ASSUME StoreInv, NEW r \in Rows, EnterRow(r)
    PROVE  StoreInv'
  <1>1. /\ stage = "serving" /\ stage' = "serving"
        /\ entered' = entered \cup {r} /\ lastServed' = db'
        /\ forgone' = IF db.staging # NoTable /\ script # "afresh"
                      THEN forgone \cup {r} ELSE forgone
        /\ UNCHANGED <<main, opened, saved, backups, script, env, bin, picked,
                       spent, strayed>>
    BY DEF EnterRow, Sql
  <1>2. /\ StoreTypeOK /\ FilesInv /\ RestoreInv /\ StageInv
        /\ BehindInv /\ FoundInv
    BY DEF StoreInv
  <1>3. /\ db \in Databases /\ db' \in Databases
        /\ db'.version = db.version /\ db'.staging = db.staging
        /\ Bare(db') = Bare(db)
        /\ Table(db') = Table(db) \cup {r}
        /\ Held(db') = Held(db) \cup {r}
        /\ Sound(db', script)
    BY EnteredRow
  <1>4. CopyWasCut' = CopyWasCut /\ OneGo' = OneGo /\ forgone \subseteq forgone'
    BY <1>1 DEF CopyWasCut, OneGo
  <1>5. StoreTypeOK'
    BY <1>1, <1>2, <1>3 DEF StoreTypeOK
  <1>6. FilesInv'
    <2>1. CopyIsWhole(db)
      BY <1>1, <1>2, <1>3 DEF FilesInv, Rebuild
    <2>2. OneGo => Whole(db', forgone')
      BY <1>1, <1>3, <2>1 DEF CopyIsWhole, Whole, OneGo
    <2>3. CopyIsWhole(db)'
      BY <1>1, <1>3, <1>4, <2>1, <2>2 DEF CopyIsWhole
    <2> QED
      BY <1>1, <1>3, <1>4, <2>3, BackupsStay DEF FilesInv
  <1>7. RestoreInv'
    BY <1>1, <1>2, <1>3, Names DEF RestoreInv, Copied
  <1>8. StageInv'
    BY <1>1, <1>2, <1>3 DEF StageInv, OpenSteps, Rebuild
  <1>9. BackupInv'
    BY <1>1 DEF BackupInv, Copied
  <1>10. KeptInv'
    <2>1. Kept' /\ OneGo' => db'.staging = NoTable
      BY <1>1 DEF Kept, OneGo
    <2>2. db'.staging = NoTable => Whole(db', {})
      BY DEF Whole
    <2> QED
      BY <1>1, <2>1, <2>2 DEF KeptInv
  <1>11. BehindInv'
    BY <1>1, <1>2, <1>3, <1>4 DEF BehindInv, RestoreInv, Copied
  <1>12. FoundInv'
    <2>1. ASSUME NEW q, FoundThere(q)
          PROVE  FoundThere(q)'
      BY <1>1, <1>3, <1>4, <2>1 DEF FoundThere
    <2>2. FoundThere(r)'
      BY <1>3 DEF FoundThere
    <2> QED
      BY <1>1, <1>2, <1>4, <2>1, <2>2 DEF FoundInv
  <1>13. UpgradeIsBackedUp'
    BY <1>1 DEF UpgradeIsBackedUp, OpenSteps
  <1> QED
    BY <1>5, <1>6, <1>7, <1>8, <1>9, <1>10, <1>11, <1>12, <1>13 DEF StoreInv

\* SQLite brings the file up to date.
LEMMA CheckpointStep ==
    ASSUME StoreInv, Checkpoint
    PROVE  StoreInv'
  <1>1. /\ stage = "serving" /\ stage' = "serving" /\ main' = db
        /\ UNCHANGED <<db, opened, saved, backups, script, env, bin, picked,
                       spent, entered, lastServed, forgone, strayed>>
    BY DEF Checkpoint, MoveTo
  <1>2. /\ StoreTypeOK /\ FilesInv /\ RestoreInv /\ StageInv /\ BackupInv
        /\ KeptInv /\ BehindInv /\ FoundInv
    BY DEF StoreInv
  <1>3. db \in Databases
    BY <1>1, <1>2 DEF StageInv
  <1>4. CopyWasCut' = CopyWasCut /\ OneGo' = OneGo /\ Kept' = Kept
    BY <1>1 DEF CopyWasCut, OneGo, Kept
  <1>5. StoreTypeOK'
    BY <1>1, <1>2, <1>3 DEF StoreTypeOK
  <1>6. FilesInv'
    <2>1. CopyIsWhole(db)'
      BY <1>1, <1>2, <1>3, <1>4 DEF FilesInv, CopyIsWhole, Rebuild
    <2> QED
      BY <1>1, <1>2, <1>4, <2>1, BackupsStay DEF FilesInv
  <1>7. RestoreInv'
    BY <1>1, <1>2 DEF RestoreInv, Copied
  <1>8. StageInv'
    BY <1>1, <1>2 DEF StageInv, Rebuild
  <1>9. IsBackedUp(lastServed)' <=> IsBackedUp(lastServed)
    BY <1>1 DEF IsBackedUp
  <1>10. BackupInv'
    BY <1>1, <1>2, <1>9 DEF BackupInv
  <1>11. KeptInv'
    BY <1>1, <1>2, <1>4 DEF KeptInv
  <1>12. BehindInv'
    BY <1>1, <1>2, <1>4 DEF BehindInv, RestoreInv, Copied
  <1>13. FoundInv'
    BY <1>1, <1>2, <1>4 DEF FoundInv, FoundThere
  <1>14. UpgradeIsBackedUp'
    BY <1>1 DEF UpgradeIsBackedUp, OpenSteps
  <1> QED
    BY <1>5, <1>6, <1>7, <1>8, <1>10, <1>11, <1>12, <1>13, <1>14 DEF StoreInv

----------------------------------------------------------------------------
(* StoreOpen: theorems *)

\* A new installation, and one that an earlier version has filled.
LEMMA InitInv ==
    ASSUME StoreInit
    PROVE  StoreInv
  <1>1. /\ main = db /\ opened = NoFile /\ backups = <<>>
        /\ saved = [v \in Versions |-> NoFile]
        /\ script \in Scripts /\ env \in [backup : BOOLEAN, restore : BOOLEAN]
        /\ bin = 1 /\ stage = "down" /\ picked = NoFile
        /\ spent = [crashes |-> 0, failures |-> 0]
        /\ entered = Held(db) /\ forgone = {} /\ strayed = FALSE
    BY DEF StoreInit
  <1>2. /\ db \in Databases \cup {NoFile} /\ lastServed \in Databases
        /\ db \in Databases => /\ Sound(db, script) /\ db.staging = NoTable
                               /\ db = lastServed
        /\ db = NoFile => lastServed = EmptyFile
        /\ Held(db) = Held(lastServed) /\ Held(db) \subseteq Rows
    <2>1. CASE db = NoFile /\ lastServed = EmptyFile
      BY <2>1, NoneHeld, Names
    <2>2. ASSUME NEW rows \in SUBSET Rows,
                 db = [EmptyFile EXCEPT !.version = RebuildAt - 1, !.old = rows],
                 lastServed = db
          PROVE  <1>2
      <3>1. RebuildAt - 1 \in Nat /\ RebuildAt - 1 >= 1
        BY Numbers
      <3>2. EmptyFile.new = NoTable
        BY DEF EmptyFile
      <3>3. /\ db \in Databases /\ db.version = RebuildAt - 1
            /\ db.old = rows /\ db.new = NoTable /\ db.staging = NoTable
        BY <2>2, <3>1 DEF EmptyFile, Databases
      <3>4. rows # NoTable
        BY StoreNames
      <3>5. Sound(db, script)
        BY <3>1, <3>3, <3>4, Numbers DEF Sound, Bare
      <3>6. Held(db) \subseteq Rows
        BY <3>3, HeldIs
      <3> QED
        BY <2>2, <3>3, <3>5, <3>6, Names
    <2> QED
      BY <2>1, <2>2 DEF StoreInit
  <1>3. StoreTypeOK
    <2>1. 0 \in 0..MaxCrashes /\ 0 \in 0..MaxErrors /\ 1 \in Versions
      BY StoreAssumption DEF Versions
    <2>2. backups \in Seq(Databases \cup {Torn})
      BY <1>1
    <2> QED
      BY <1>1, <1>2, <2>1, <2>2 DEF StoreTypeOK
  <1>4. FilesInv
    BY <1>1, <1>2 DEF FilesInv, CopyIsWhole, Whole
  <1>5. RestoreInv
    BY <1>1 DEF RestoreInv, Copied
  <1>6. StageInv
    BY <1>1 DEF StageInv, OpenSteps, Rebuild
  <1>7. BackupInv
    BY <1>1, <1>2, NoneHeld DEF BackupInv, Copied
  <1>8. KeptInv
    BY <1>1, <1>2 DEF KeptInv, Whole
  <1>9. BehindInv /\ FoundInv /\ UpgradeIsBackedUp
    BY <1>1 DEF BehindInv, FoundInv, FoundThere, UpgradeIsBackedUp, OpenSteps
  <1> QED
    BY <1>3, <1>4, <1>5, <1>6, <1>7, <1>8, <1>9 DEF StoreInv

\* The invariant holds, whatever is cut short where.
LEMMA StoreInvariant == StoreSpec => []StoreInv
  <1>1. StoreInit => StoreInv
    BY InitInv
  <1>2. StoreInv /\ [StoreNext]_storeVars => StoreInv'
    <2> SUFFICES ASSUME StoreInv, [StoreNext]_storeVars
                 PROVE  StoreInv'
      OBVIOUS
    <2>1. ASSUME NEW v \in Versions, Start(v)
          PROVE  StoreInv'
      BY <2>1, StartStep
    <2>2. CASE NoBackupFound \/ RestoreFails
      BY <2>2, DegradedStep
    <2>3. CASE SetAside
      BY <2>3, SetAsideStep
    <2>4. CASE CreateFile \/ CopyPart \/ CopyRest
      BY <2>4, WriteFileStep
    <2>5. CASE Reopen
      BY <2>5, ReopenStep
    <2>6. CASE BeginBackup
      BY <2>6, BeginBackupStep
    <2>7. CASE CopyBackup
      BY <2>7, CopyBackupStep
    <2>8. CASE ApplyMigration
      BY <2>8, ApplyMigrationStep
    <2>9. CASE BeginBlind \/ BeginCopy \/ BeginAfresh
      BY <2>9, BeginBlindStep, BeginCopyStep, BeginAfreshStep
    <2>10. CASE FinishRename \/ AlreadyRebuilt
      BY <2>10, FinishRenameStep, AlreadyRebuiltStep
    <2>11. CASE InsertAll \/ InsertRow \/ InsertedRows
      BY <2>11, InsertAllStep, InsertRowStep, InsertedRowsStep
    <2>12. CASE DropTable \/ RenameTable \/ RecordMigration
      BY <2>12, DropTableStep, RenameTableStep, RecordMigrationStep
    <2>13. CASE Serve
      BY <2>13, ServeStep
    <2>14. ASSUME NEW r \in Rows, EnterRow(r)
           PROVE  StoreInv'
      BY <2>14, EnterRowStep
    <2>15. CASE Checkpoint
      BY <2>15, CheckpointStep
    <2>16. CASE Stop \/ OpenFails
      BY <2>16, CloseStep
    <2>17. CASE Crash
      BY <2>17, CrashStep
    <2>18. CASE UNCHANGED storeVars
      <3>1. UNCHANGED <<db, main, opened, saved, backups, script, env, bin,
                        stage, picked, spent, entered, lastServed, forgone,
                        strayed>>
        BY <2>18 DEF storeVars, files
      <3>2. CopyWasCut' = CopyWasCut /\ OneGo' = OneGo /\ Kept' = Kept
        BY <3>1 DEF CopyWasCut, OneGo, Kept
      <3>3. /\ StoreTypeOK /\ FilesInv /\ RestoreInv /\ StageInv /\ BackupInv
            /\ KeptInv /\ BehindInv /\ FoundInv /\ UpgradeIsBackedUp
        BY DEF StoreInv
      <3>4. StoreTypeOK'
        BY <3>1, <3>3 DEF StoreTypeOK
      <3>5. FilesInv'
        BY <3>1, <3>2, <3>3 DEF FilesInv, CopyIsWhole
      <3>6. RestoreInv'
        BY <3>1, <3>2, <3>3 DEF RestoreInv, CopyIsWhole
      <3>7. StageInv'
        BY <3>1, <3>2, <3>3 DEF StageInv
      <3>8. BackupInv' /\ UpgradeIsBackedUp'
        BY <3>1, <3>3 DEF BackupInv, IsBackedUp, UpgradeIsBackedUp
      <3>9. KeptInv' /\ BehindInv'
        BY <3>1, <3>2, <3>3 DEF KeptInv, BehindInv
      <3>10. FoundInv'
        BY <3>1, <3>2, <3>3 DEF FoundInv, FoundThere
      <3> QED
        BY <3>4, <3>5, <3>6, <3>7, <3>8, <3>9, <3>10 DEF StoreInv
    <2> QED
      BY <2>1, <2>2, <2>3, <2>4, <2>5, <2>6, <2>7, <2>8, <2>9, <2>10, <2>11,
         <2>12, <2>13, <2>14, <2>15, <2>16, <2>17, <2>18 DEF StoreNext
  <1> QED
    BY <1>1, <1>2, PTL DEF StoreSpec

\* Files are databases, missing or cut short, and what is set aside lies under
\* a version of the program.
THEOREM StoreTypes == StoreSpec => []StoreTypeOK
  <1>1. StoreInv => StoreTypeOK
    BY DEF StoreInv
  <1> QED
    BY <1>1, StoreInvariant, PTL

\* Restores, backups and migrations that are cut short anywhere lose no row
\* that was entered, but for the exceptions that NothingIsLost names
\* (store.go, Open, tryRestore and Migrate).
THEOREM RowsAreFound == StoreSpec => []NothingIsLost
  <1>1. StoreInv => NothingIsLost
    <2> SUFFICES ASSUME StoreInv, ~strayed, ~CopyWasCut,
                        NEW r \in entered
                 PROVE  r \in forgone
                        \cup UNION {Held(f) : f \in {db, opened}
                                      \cup {saved[v] : v \in Versions}
                                      \cup {backups[i] : i \in DOMAIN backups}}
      BY DEF NothingIsLost
    <2>1. FoundThere(r)
      BY DEF StoreInv, FoundInv
    <2> QED
      BY <2>1 DEF FoundThere
  <1> QED
    BY <1>1, StoreInvariant, PTL

\* Before a migration runs the database that was served last is among the
\* backups, and it still is when an attempt is repeated (store.go, Migrate).
THEOREM BackedUpBeforeMigrations == StoreSpec => []UpgradeIsBackedUp
  <1>1. StoreInv => UpgradeIsBackedUp
    BY DEF StoreInv
  <1> QED
    BY <1>1, StoreInvariant, PTL

\* An upgrade that is served has all rows, and its table in the new shape,
\* however often it was cut short (020_adapter_m2m.go and 031 to 039).
THEOREM RowsSurviveUpgrades == StoreSpec => UpgradeKeepsRows
  <1>1. ASSUME StoreInv, StoreNext, StartsServing
        PROVE  /\ lastServed.staging = NoTable \/ script = "afresh"
                  => CopyWasCut \/ RowsAreKept
               /\ db.version >= RebuildAt
                  => db.new # NoTable /\ db.old = NoTable
                     /\ db.staging = NoTable
    <2>1. Serve
      BY <1>1
         DEF StoreNext, StartsServing, Start, NoBackupFound, SetAside,
             CreateFile, CopyPart, CopyRest, WriteFile, Reopen, RestoreFails,
             BeginBackup, CopyBackup, ApplyMigration, BeginBlind, BeginCopy,
             BeginAfresh, FinishRename, AlreadyRebuilt, InsertAll, InsertRow,
             InsertedRows, DropTable, RenameTable, RecordMigration, EnterRow,
             Checkpoint, Stop, OpenFails, Close, Crash, MoveTo
    <2>2. stage = "migrate" /\ db' = db
      BY <2>1 DEF Serve, files
    <2>3. db \in Databases /\ Sound(db, script) /\ KeptInv
      BY <1>1, <2>2, Migrates
    <2>4. lastServed.staging = NoTable \/ script = "afresh"
          => CopyWasCut \/ RowsAreKept
      BY <2>2, <2>3 DEF KeptInv, Kept, RowsAreKept
    <2>5. db.version >= RebuildAt => db.staging = NoTable
      BY <2>3, Names, Numbers DEF Sound
    <2> QED
      BY <2>3, <2>4, <2>5 DEF Sound
  <1>2. StoreInv /\ [StoreNext]_storeVars =>
          [StartsServing =>
             /\ lastServed.staging = NoTable \/ script = "afresh"
                => CopyWasCut \/ RowsAreKept
             /\ db.version >= RebuildAt
                => db.new # NoTable /\ db.old = NoTable /\ db.staging = NoTable
          ]_storeVars
    BY <1>1
  <1> QED
    BY <1>2, StoreInvariant, PTL DEF StoreSpec, UpgradeKeepsRows

----------------------------------------------------------------------------
(* ChangeLog: first and last rows *)

\* A nonempty set of numbers up to n has a largest ...
LEMMA LargestOf ==
    ASSUME NEW n \in Nat, NEW T \in SUBSET (1..n), T # {}
    PROVE  \E m \in T : \A t \in T : t <= m
<1> DEFINE Higher(t) == {u \in T : t < u}
<1> DEFINE Sets == {Higher(t) : t \in T}
<1>1. IsFiniteSet(T) /\ T \subseteq Int
  <2>1. IsFiniteSet(1..n)
    BY FS_Interval
  <2>2. IsFiniteSet(T)
    BY <2>1, FS_Subset
  <2>. QED
    BY <2>2
<1>2. Sets \subseteq FiniteSubsetsOf(T) /\ Sets # {}
  <2>1. \A t \in T : IsFiniteSet(Higher(t)) /\ Higher(t) \subseteq T
    BY <1>1, FS_Subset
  <2>. QED
    BY <2>1 DEF FiniteSubsetsOf
<1>3. PICK X \in Sets : \A Y \in Sets : ~(<<Y, X>> \in StrictSubsetOrdering(T))
  <2> HIDE DEF Sets
  <2>. QED
    BY <1>2, FS_StrictSubsetOrderingWellFounded, WFMin
<1>4. PICK m \in T : X = Higher(m)
    OBVIOUS
<1>5. ASSUME NEW u \in T, m < u
      PROVE  FALSE
  <2>1. /\ \A w \in T : u < w => m < w
        /\ ~(u < u)
    BY <1>1, <1>5
  <2>2. Higher(u) \subseteq Higher(m) /\ u \in Higher(m) /\ u \notin Higher(u)
    BY <1>5, <2>1
  <2>3. <<Higher(u), X>> \in StrictSubsetOrdering(T)
    BY <1>4, <2>2 DEF StrictSubsetOrdering
  <2>. QED
    BY <1>3, <2>3
<1>. QED
    BY <1>1, <1>5

\* ... and a smallest.
LEMMA SmallestOf ==
    ASSUME NEW n \in Nat, NEW T \in SUBSET (1..n), T # {}
    PROVE  \E m \in T : \A t \in T : m <= t
<1> DEFINE U == {(n + 1) - t : t \in T}
<1>0. \A t \in T : t \in Int /\ (n + 1) - t \in 1..n
    OBVIOUS
<1>1. U \in SUBSET (1..n) /\ U # {}
    BY <1>0
<1>2. PICK u \in U : \A v \in U : v <= u
  <2> HIDE DEF U
  <2>. QED
    BY <1>1, LargestOf
<1>3. PICK m \in T : u = (n + 1) - m
    OBVIOUS
<1>4. \A t \in T : m <= t
  <2> SUFFICES ASSUME NEW t \in T PROVE m <= t
    OBVIOUS
  <2>1. (n + 1) - t <= (n + 1) - m
    BY <1>2, <1>3
  <2>2. t \in Int /\ m \in Int
    BY <1>0
  <2>. QED
    BY <2>1, <2>2
<1>. QED
    BY <1>4

\* AuditEntryTx: ids are unique, and times and transactions follow them.
RowsInOrder(rows) ==
    \A r, q \in rows :
        /\ r.id = q.id => r = q
        /\ r.id < q.id => r.at <= q.at /\ r.n <= q.n
Numbered(rows, n) ==
    \A r \in rows : r.id \in 1..n /\ r.at \in Nat /\ r.n \in Nat

\* The first of some rows.
Earliest(rows) == CHOOSE r \in rows : \A q \in rows : r.id <= q.id

LEMMA EarliestFacts ==
    ASSUME NEW rows, NEW n \in Nat, Numbered(rows, n), rows # {}
    PROVE  /\ Earliest(rows) \in rows
           /\ \A q \in rows : Earliest(rows).id <= q.id
<1> DEFINE T == {r.id : r \in rows}
<1>1. T \in SUBSET (1..n) /\ T # {}
    BY DEF Numbered
<1>2. PICK m \in T : \A t \in T : m <= t
  <2> HIDE DEF T
  <2>. QED
    BY <1>1, SmallestOf
<1>3. \E r \in rows : \A q \in rows : r.id <= q.id
    BY <1>2
<1>. QED
    BY <1>3 DEF Earliest

LEMMA EarliestIs ==
    ASSUME NEW rows, NEW n \in Nat, Numbered(rows, n), RowsInOrder(rows),
           NEW r \in rows, \A q \in rows : r.id <= q.id
    PROVE  Earliest(rows) = r
<1>1. Earliest(rows) \in rows /\ Earliest(rows).id <= r.id
    BY EarliestFacts
<1>2. Earliest(rows).id \in Int /\ r.id \in Int /\ r.id <= Earliest(rows).id
    BY <1>1 DEF Numbered
<1>. QED
    BY <1>1, <1>2 DEF RowsInOrder

\* The reader finds it by its time first.
LEMMA FirstIsEarliest ==
    ASSUME NEW rows, NEW n \in Nat, Numbered(rows, n), RowsInOrder(rows),
           rows # {}
    PROVE  First(rows) = Earliest(rows)
<1> DEFINE e == Earliest(rows)
<1> DEFINE Leads(r) ==
        \A q \in rows : r.at < q.at \/ (r.at = q.at /\ r.id <= q.id)
<1>1. e \in rows /\ \A q \in rows : e.id <= q.id
    BY EarliestFacts
<1> HIDE DEF e
<1>2. \A r \in rows : r.id \in Int /\ r.at \in Int
    BY DEF Numbered
<1>3. Leads(e)
  <2> SUFFICES ASSUME NEW q \in rows
               PROVE  e.at < q.at \/ (e.at = q.at /\ e.id <= q.id)
    OBVIOUS
  <2>1. e.id < q.id \/ e.id = q.id
    BY <1>1, <1>2
  <2>2. e.at <= q.at
    BY <1>1, <1>2, <2>1 DEF RowsInOrder
  <2>. QED
    BY <1>1, <1>2, <2>2
<1>4. \A r \in rows : Leads(r) => r = e
  <2> SUFFICES ASSUME NEW r \in rows, Leads(r)
               PROVE  r = e
    OBVIOUS
  <2>1. r.at < e.at \/ (r.at = e.at /\ r.id <= e.id)
    BY <1>1
  <2>2. e.id < r.id => e.at <= r.at
    BY <1>1 DEF RowsInOrder
  <2>3. e.id = r.id
    BY <1>1, <1>2, <2>1, <2>2
  <2>. QED
    BY <1>1, <2>3 DEF RowsInOrder
<1>5. First(rows) \in rows /\ Leads(First(rows))
    BY <1>1, <1>3 DEF First
<1>. QED
    BY <1>4, <1>5 DEF e

----------------------------------------------------------------------------
(* ChangeLog: what the tables record *)

Accounts == [mode : LogModes, floor : Nat, since : Nat]
FeedRows == [on : BOOLEAN, synced : BOOLEAN, offers : SUBSET LogServices,
             in : SUBSET LogModes]
UpdateRows == [id : Nat, at : Nat, seq : Nat, modes : SUBSET LogModes,
               added : SUBSET LogServices, removed : SUBSET LogServices,
               live : BOOLEAN, of : Nat, matters : SUBSET LogServices]
RowOk(r, now, n, last) ==
    /\ r.kind \in {"selection", "mode"} /\ r.mode \in LogModes
    /\ r.before = Big \/ r.before \in SUBSET LogKeys
    /\ r.id \in 1..last /\ r.at \in 0..now /\ r.n \in 1..n
SyncOk(s, now, n, last) ==
    /\ s \in UpdateRows
    /\ s.id \in 1..n /\ s.at \in 0..now /\ s.seq \in 0..last /\ s.of \in 0..n

\* Every row has its shape, and none is newer than the counters say.
Typed(now, n, last, complete, acc, picks, rows, updates) ==
    /\ now \in Nat /\ n \in Nat /\ last \in Nat /\ complete \in Nat
    /\ acc # NoAccount =>
           acc \in Accounts /\ acc.floor <= last /\ acc.since <= n
    /\ picks \in [LogModes -> SUBSET LogKeys]
    /\ \A r \in rows : RowOk(r, now, n, last)
    /\ \A s \in updates : SyncOk(s, now, n, last)
LogTypes ==
    Typed(clock, commits, lastId, completeSince, account, sel, audit, syncs)
FeedType == feed # NoFeed => feed \in FeedRows

\* An update has its place among the audit rows, in time too.
PlacesInOrder(rows, updates) ==
    \A r \in rows, s \in updates :
        /\ r.id > s.seq => r.at >= s.at /\ r.n >= s.id
        /\ r.id <= s.seq => r.at <= s.at /\ r.n <= s.id
SyncsInOrder(updates) ==
    \A s, t \in updates :
        /\ s.id = t.id => s = t
        /\ s.id < t.id => s.at <= t.at /\ s.seq <= t.seq

\* The floor of a user parts his rows and updates from those of whoever had
\* his id before.
Owned(rows, updates, acc) ==
    /\ \A r \in rows : r.id > acc.floor => r.n > acc.since
    /\ \A s \in updates : s.of = acc.since <=> s.seq >= acc.floor

\* What the rows, all of them, tell of the moment of an update.
RowsAfter(rows, s, kind) == {r \in rows : r.kind = kind /\ r.id > s.seq}
PicksAfter(rows, s, m) == {r \in RowsAfter(rows, s, "selection") : r.mode = m}
WasMode(rows, acc, s) ==
    IF RowsAfter(rows, s, "mode") = {} THEN acc.mode
    ELSE Earliest(RowsAfter(rows, s, "mode")).mode
WasPicked(rows, picks, s, m) ==
    IF PicksAfter(rows, s, m) = {} THEN picks[m]
    ELSE Earliest(PicksAfter(rows, s, m)).before
Matched(s, m, chosen) ==
    s.matters = IF m \in s.modes THEN Covered(chosen, s.added \cup s.removed)
                ELSE {}
Remembered(rows, picks, acc, s) ==
    LET m == WasMode(rows, acc, s)
        chosen == WasPicked(rows, picks, s, m)
    IN  chosen = Big \/ Matched(s, m, chosen)

\* As far back as the log is complete, they tell what the update was then.
Truthful(complete, acc, picks, rows, updates) ==
    acc # NoAccount =>
        \A s \in updates : s.of = acc.since /\ s.at >= complete =>
            Remembered(rows, picks, acc, s)
TruthInv == Truthful(completeSince, account, sel, audit, syncs)

LogInv ==
    /\ LogTypes /\ FeedType
    /\ RowsInOrder(audit) /\ PlacesInOrder(audit, syncs)
    /\ SyncsInOrder(syncs)
    /\ account # NoAccount => Owned(audit, syncs, account)
    /\ TruthInv

LEMMA RowFacts ==
    ASSUME LogTypes, NEW r \in audit
    PROVE  /\ r.id \in Nat /\ r.at \in Nat /\ r.n \in Nat
           /\ r.kind \in {"selection", "mode"} /\ r.mode \in LogModes
           /\ r.before = Big \/ r.before \in SUBSET LogKeys
    BY DEF LogTypes, Typed, RowOk
LEMMA SyncFacts ==
    ASSUME LogTypes, NEW s \in syncs
    PROVE  /\ s.id \in Nat /\ s.at \in Nat /\ s.seq \in Nat /\ s.of \in Nat
           /\ s.added \in SUBSET LogServices /\ s.removed \in SUBSET LogServices
    BY DEF LogTypes, Typed, SyncOk, UpdateRows
LEMMA PartNumbered ==
    ASSUME LogTypes, NEW rows \in SUBSET audit
    PROVE  /\ Numbered(rows, lastId) /\ lastId \in Nat
           /\ RowsInOrder(audit) => RowsInOrder(rows)
    BY RowFacts DEF LogTypes, Typed, RowOk, Numbered, RowsInOrder

----------------------------------------------------------------------------
(* ChangeLog: reading the log *)

\* There are finitely many rows.
LEMMA FinitelyMany ==
    ASSUME LogTypes, RowsInOrder(audit)
    PROVE  IsFiniteSet(audit)
<1> DEFINE f == [r \in audit |-> r.id]
<1>1. f \in Injection(audit, 1..lastId)
    BY DEF LogTypes, Typed, RowOk, RowsInOrder, Injection, IsInjective
<1>2. IsFiniteSet(1..lastId)
    BY FS_Interval DEF LogTypes, Typed
<1>. QED
    BY <1>1, <1>2, FS_Injection

\* newUserHistory: the rows that were read are all, or all from the horizon.
LEMMA ReadFacts ==
    ASSUME LogTypes, RowsInOrder(audit)
    PROVE  /\ Read \subseteq MyRows /\ MyRows \subseteq audit
           /\ Horizon(Read) \in Nat
           /\ \A r \in MyRows : r.id > Horizon(Read) => r \in Read
<1> DEFINE Newer(r) == {q \in MyRows : q.id > r.id}
<1>1. MyRows \subseteq audit /\ IsFiniteSet(MyRows)
    BY FinitelyMany, FS_Subset DEF MyRows
<1>2. Read = {r \in MyRows : Cardinality(Newer(r)) < MaxRows}
    BY DEF Read
<1>3. IsFiniteSet(Read) /\ Cardinality(Read) \in Nat
    BY <1>1, <1>2, FS_Subset, FS_CardinalityType
<1>4. \A r \in MyRows : IsFiniteSet(Newer(r)) /\ Cardinality(Newer(r)) \in Nat
    BY <1>1, FS_Subset, FS_CardinalityType
<1>m. MaxRows \in Nat \ {0}
    BY LogAssumption
<1> HIDE DEF Newer
<1>5. CASE Cardinality(Read) < MaxRows
  <2>1. SUFFICES ASSUME MyRows \ Read # {} PROVE FALSE
    BY <1>1, <1>2, <1>5 DEF Horizon
  <2> DEFINE T == {r.id : r \in MyRows \ Read}
  <2>2. T \in SUBSET (1..lastId) /\ T # {} /\ lastId \in Nat
    BY <1>1, <2>1 DEF LogTypes, Typed, RowOk
  <2>3. PICK m \in T : \A t \in T : t <= m
    <3> HIDE DEF T
    <3>. QED
      BY <2>2, LargestOf
  <2>4. PICK r \in MyRows \ Read : r.id = m
    OBVIOUS
  <2>5. Newer(r) \subseteq Read
    <3> SUFFICES ASSUME NEW q \in MyRows, q.id > r.id, q \notin Read
                 PROVE  FALSE
      BY DEF Newer
    <3>1. q.id <= r.id
      BY <2>3, <2>4
    <3>2. q.id \in Nat /\ r.id \in Nat
      BY <1>1, RowFacts
    <3>. QED
      BY <3>1, <3>2
  <2>6. Cardinality(Newer(r)) <= Cardinality(Read)
    BY <1>3, <2>5, FS_Subset
  <2>. QED
    BY <1>2, <1>3, <1>4, <1>5, <1>m, <2>4, <2>6
<1>6. CASE ~(Cardinality(Read) < MaxRows)
  <2> DEFINE T == {r.id : r \in Read}
  <2>1. Read # {}
    BY <1>3, <1>6, <1>m, FS_EmptySet
  <2>2. T \in SUBSET (1..lastId) /\ T # {} /\ lastId \in Nat
    BY <1>1, <1>2, <2>1 DEF LogTypes, Typed, RowOk
  <2>3. Horizon(Read) = Min(T)
    BY <1>6 DEF Horizon
  <2>4. Min(T) \in T /\ T \subseteq Nat
    <3> HIDE DEF T
    <3>1. \E m \in T : \A t \in T : m <= t
      BY <2>2, SmallestOf
    <3>2. Min(T) \in T
      BY <3>1 DEF Min
    <3>3. T \subseteq Nat
      BY <2>2
    <3>. QED
      BY <3>2, <3>3
  <2>5. PICK o \in Read : o.id = Horizon(Read)
    BY <2>3, <2>4
  <2>6. ASSUME NEW r \in MyRows, r.id > o.id
        PROVE  r \in Read
    <3>1. Newer(r) \subseteq Newer(o)
      <4>1. \A q \in MyRows : q.id \in Nat
        BY <1>1, RowFacts
      <4>. QED
        BY <1>2, <2>6, <4>1 DEF Newer
    <3>2. Cardinality(Newer(r)) <= Cardinality(Newer(o))
      BY <1>2, <1>4, <3>1, FS_Subset
    <3>. QED
      BY <1>2, <1>4, <1>m, <3>2
  <2>. QED
    BY <1>1, <1>2, <2>3, <2>4, <2>5, <2>6
<1>. QED
    BY <1>5, <1>6

\* What the reader takes to follow an update of the user's is what does.
LEMMA FollowingFacts ==
    ASSUME LogInv, account # NoAccount, NEW s \in syncs,
           s.of = account.since, s.at >= Since, s.seq >= Horizon(Read),
           NEW kind
    PROVE  Following(Read, s, kind) = RowsAfter(audit, s, kind)
<1>1. /\ Read \subseteq MyRows /\ MyRows \subseteq audit
      /\ Horizon(Read) \in Nat
      /\ \A r \in MyRows : r.id > Horizon(Read) => r \in Read
    BY ReadFacts DEF LogInv
<1>2. /\ s.at \in Nat /\ s.seq \in Nat /\ account.floor \in Nat /\ Since \in Nat
  <2>1. Since \in Nat
    BY LogAssumption DEF LogInv, LogTypes, Typed, Since, Later
  <2>. QED
    BY <2>1, SyncFacts DEF LogInv, LogTypes, Typed, Accounts
<1>3. s.seq >= account.floor
    BY DEF LogInv, Owned
<1>4. ASSUME NEW r \in audit
      PROVE  After(s, r) <=> r.id > s.seq
  <2>1. r.at \in Nat /\ r.id \in Nat
    BY RowFacts DEF LogInv
  <2>. QED
    BY <1>2, <2>1 DEF After, LogInv, PlacesInOrder
<1>5. ASSUME NEW r \in audit, r.id > s.seq
      PROVE  r \in Read
  <2>1. r.at \in Nat /\ r.id \in Nat /\ r.at >= s.at
    BY <1>5, RowFacts DEF LogInv, PlacesInOrder
  <2>2. r \in MyRows
    BY <1>2, <1>3, <1>5, <2>1 DEF MyRows, MineOnly
  <2>3. r.id > Horizon(Read)
    BY <1>1, <1>2, <1>5, <2>1
  <2>. QED
    BY <1>1, <2>2, <2>3
<1>. QED
    BY <1>1, <1>4, <1>5 DEF Following, RowsAfter

\* So it finds the mode and the selection that the rows tell.
LEMMA StatesFound ==
    ASSUME LogInv, account # NoAccount, NEW s \in syncs,
           s.of = account.since, s.at >= Since, s.seq >= Horizon(Read)
    PROVE  /\ ModeAt(Read, s) = WasMode(audit, account, s)
           /\ \A m : SelectionAt(Read, s, m) = WasPicked(audit, sel, s, m)
<1>1. ASSUME NEW rows \in SUBSET audit, rows # {}
      PROVE  First(rows) = Earliest(rows)
    BY <1>1, PartNumbered, FirstIsEarliest DEF LogInv
<1>2. /\ Following(Read, s, "mode") = RowsAfter(audit, s, "mode")
      /\ Following(Read, s, "selection") = RowsAfter(audit, s, "selection")
    BY FollowingFacts
<1>3. \A kind : RowsAfter(audit, s, kind) \in SUBSET audit
    BY DEF RowsAfter
<1>4. ModeAt(Read, s) = WasMode(audit, account, s)
    BY <1>1, <1>2, <1>3 DEF ModeAt, WasMode
<1>5. ASSUME NEW m
      PROVE  SelectionAt(Read, s, m) = WasPicked(audit, sel, s, m)
  <2>1. PicksAfter(audit, s, m) \in SUBSET audit
    BY <1>3 DEF PicksAfter
  <2>. QED
    BY <1>1, <1>2, <2>1 DEF SelectionAt, WasPicked, PicksAfter
<1>. QED
    BY <1>4, <1>5

\* What the log calls on is among what it looks at: no candidate is missed.
LEMMA NothingMissed ==
    ASSUME LogInv, account # NoAccount, NEW s \in syncs,
           s.of = account.since, s.at >= Since, s.seq >= Horizon(Read),
           NEW m, m = WasMode(audit, account, s), m \in s.modes,
           NEW chosen, chosen = WasPicked(audit, sel, s, m), chosen # Big,
           Covered(chosen, s.added \cup s.removed) # {}
    PROVE  Candidate(Read, s)
<1>0. LogTypes
    BY DEF LogInv
<1>1. /\ RowsAfter(audit, s, "mode") \subseteq Read
      /\ PicksAfter(audit, s, m) \subseteq Read
  <2>1. /\ Following(Read, s, "mode") = RowsAfter(audit, s, "mode")
        /\ Following(Read, s, "selection") = RowsAfter(audit, s, "selection")
    BY FollowingFacts
  <2>. QED
    BY <2>1 DEF Following, PicksAfter
<1>2. ASSUME NEW rows \in SUBSET audit, rows # {}
      PROVE  Earliest(rows) \in rows
    BY <1>0, <1>2, PartNumbered, EarliestFacts
<1>3. RowsAfter(audit, s, "mode") \in SUBSET audit
      /\ PicksAfter(audit, s, m) \in SUBSET audit
    BY DEF RowsAfter, PicksAfter
<1>4. m \in ReachedModes(Read) /\ m \in LogModes
  <2>1. CASE RowsAfter(audit, s, "mode") = {}
    BY <1>0, <2>1 DEF WasMode, ReachedModes, LogTypes, Typed, Accounts
  <2>2. CASE RowsAfter(audit, s, "mode") # {}
    <3>1. PICK r \in RowsAfter(audit, s, "mode") : m = r.mode
      BY <1>2, <1>3, <2>2 DEF WasMode
    <3>2. r \in Read /\ r.kind = "mode" /\ r \in audit
      BY <1>1, <3>1 DEF RowsAfter
    <3>. QED
      BY <1>0, <3>1, <3>2, RowFacts DEF ReachedModes
  <2>. QED
    BY <2>1, <2>2
<1>5. chosen \subseteq ReachedKeys(Read) /\ chosen \subseteq LogKeys
  <2>1. CASE PicksAfter(audit, s, m) = {}
    <3>1. chosen = sel[m]
      BY <2>1 DEF WasPicked
    <3>2. sel[m] \subseteq ReachedKeys(Read)
      BY <1>4 DEF ReachedKeys
    <3>3. sel[m] \subseteq LogKeys
      BY <1>0, <1>4 DEF LogTypes, Typed
    <3>. QED
      BY <3>1, <3>2, <3>3
  <2>2. CASE PicksAfter(audit, s, m) # {}
    <3>1. PICK r \in PicksAfter(audit, s, m) : chosen = r.before
      BY <1>2, <1>3, <2>2 DEF WasPicked
    <3>2. r \in Read /\ r \in audit
      BY <1>1, <1>3, <3>1
    <3>3. chosen \subseteq ReachedKeys(Read)
      BY <3>1, <3>2 DEF ReachedKeys
    <3>. QED
      BY <1>0, <3>1, <3>2, <3>3, RowFacts
  <2>. QED
    BY <2>1, <2>2
<1>6. PICK v \in s.added \cup s.removed : {v, CategoryOfService[v]} \cap chosen # {}
    BY DEF Covered
<1>7. v \in LogServices /\ CategoryOfService[v] \in LogCategories
    BY <1>0, SyncFacts, LogAssumption
<1>8. CategoryOfService[v] \in ReachedCategories(Read)
  <2>1. PICK k \in ReachedKeys(Read) : k = v \/ k = CategoryOfService[v]
    BY <1>5, <1>6
  <2>. QED
    BY <1>7, <2>1 DEF ReachedCategories
<1>. QED
    BY <1>4, <1>8 DEF Candidate

\* What the log says of one update.
LEMMA OneUpdate ==
    ASSUME LogInv, account # NoAccount, NEW s \in syncs
    PROVE  /\ Listed(Read, s) \subseteq WasTrue(s)
           /\ Readable(Read, s) => Listed(Read, s) = WasTrue(s)
<1> DEFINE m == ModeAt(Read, s)
<1> DEFINE chosen == SelectionAt(Read, s, m)
<1> DEFINE all == Covered(chosen, s.added \cup s.removed)
<1>1. Listed(Read, s) =
        IF \/ ~Candidate(Read, s)
           \/ s.seq < Later(account.floor, Horizon(Read))
           \/ m \notin s.modes \/ chosen = Big
        THEN {} ELSE all
    BY DEF Listed
<1>2. /\ s.at \in Nat /\ s.seq \in Nat /\ account.floor \in Nat
      /\ Horizon(Read) \in Nat /\ Since \in Nat /\ completeSince <= Since
  <2>1. Since \in Nat /\ completeSince <= Since
    BY LogAssumption DEF LogInv, LogTypes, Typed, Since, Later
  <2>. QED
    BY <2>1, SyncFacts, ReadFacts DEF LogInv, LogTypes, Typed, Accounts
<1>3. CASE s.of # account.since
  <2>1. s.seq < account.floor
    BY <1>2, <1>3 DEF LogInv, Owned
  <2>2. Listed(Read, s) = {}
    BY <1>1, <1>2, <2>1 DEF Later
  <2>. QED
    BY <1>3, <2>2 DEF WasTrue
<1>4. CASE s.of = account.since /\ ~(s.at >= Since /\ s.seq >= Horizon(Read))
  <2>1. Listed(Read, s) = {}
    BY <1>1, <1>2, <1>4 DEF Later, Candidate
  <2>. QED
    BY <1>4, <2>1 DEF Readable
<1>5. CASE s.of = account.since /\ s.at >= Since /\ s.seq >= Horizon(Read)
  <2>1. /\ m = WasMode(audit, account, s)
        /\ chosen = WasPicked(audit, sel, s, m)
    BY <1>5, StatesFound
  <2>2. chosen = Big \/ s.matters = IF m \in s.modes THEN all ELSE {}
    <3>1. s.at >= completeSince
      BY <1>2, <1>5 DEF LogInv, LogTypes, Typed
    <3>2. Remembered(audit, sel, account, s)
      BY <1>5, <3>1 DEF LogInv, TruthInv, Truthful
    <3>. QED
      BY <2>1, <3>2 DEF Remembered, Matched
  <2>3. ~(s.seq < Later(account.floor, Horizon(Read)))
    <3>1. s.seq >= account.floor
      BY <1>5 DEF LogInv, Owned
    <3>. QED
      BY <1>2, <1>5, <3>1 DEF Later
  <2>4. WasTrue(s) = s.matters
    BY <1>5 DEF WasTrue
  <2>5. Readable(Read, s) => chosen # Big
    <3>1. SUFFICES ASSUME Readable(Read, s), chosen = Big PROVE FALSE
      OBVIOUS
    <3>2. CASE PicksAfter(audit, s, m) = {}
      <4>1. chosen = sel[m]
        BY <2>1, <3>2 DEF WasPicked
      <4>2. m \in LogModes
        <5>1. CASE RowsAfter(audit, s, "mode") = {}
          BY <2>1, <5>1 DEF WasMode, LogInv, LogTypes, Typed, Accounts
        <5>2. CASE RowsAfter(audit, s, "mode") # {}
          <6>1. RowsAfter(audit, s, "mode") \in SUBSET audit
            BY DEF RowsAfter
          <6>2. Earliest(RowsAfter(audit, s, "mode")) \in audit
            BY <5>2, <6>1, PartNumbered, EarliestFacts DEF LogInv
          <6>. QED
            BY <2>1, <5>2, <6>2, RowFacts DEF WasMode, LogInv
        <5>. QED
          BY <5>1, <5>2
      <4>3. chosen \in SUBSET LogKeys
        BY <4>1, <4>2 DEF LogInv, LogTypes, Typed
      <4>. QED
        BY <3>1, <4>3, LogAssumption
    <3>3. CASE PicksAfter(audit, s, m) # {}
      <4>1. PicksAfter(audit, s, m) \in SUBSET audit
        BY DEF RowsAfter, PicksAfter
      <4>2. Earliest(PicksAfter(audit, s, m)) \in PicksAfter(audit, s, m)
        BY <3>3, <4>1, PartNumbered, EarliestFacts DEF LogInv
      <4>3. PICK r \in PicksAfter(audit, s, m) : chosen = r.before
        BY <2>1, <3>3, <4>2 DEF WasPicked
      <4>4. r \in Following(Read, s, "selection")
        BY <1>5, FollowingFacts DEF PicksAfter
      <4>. QED
        BY <3>1, <4>3, <4>4 DEF Readable
    <3>. QED
      BY <3>2, <3>3
  <2>6. chosen # Big /\ m \in s.modes /\ all # {} => Candidate(Read, s)
    BY <1>5, <2>1, NothingMissed
  <2> HIDE DEF m, chosen, all
  <2>. QED
    BY <1>1, <2>2, <2>3, <2>4, <2>5, <2>6
<1>. QED
    BY <1>3, <1>4, <1>5

\* The entries come in the order of the transactions that they are about.
LEMMA EntriesInOrder == LogInv => InOrder
<1> SUFFICES ASSUME LogInv PROVE InOrder
    OBVIOUS
<1> DEFINE Entry(e) ==
        \/ \E r \in audit : e = [at |-> r.at, order |-> 2 * r.id,
                                 commit |-> 0, n |-> r.n]
        \/ \E s \in syncs : e = [at |-> s.at, order |-> 2 * s.seq + 1,
                                 commit |-> s.id, n |-> s.id]
<1>1. \A e \in Entries : Entry(e)
    BY DEF Entries, OwnEntries, SyncEntries
<1>2. ASSUME NEW e, NEW f, Entry(e), Entry(f)
      PROVE  Above(e, f) <=> e.n > f.n \/ (e.n = f.n /\ e.order > f.order)
  <2> DEFINE Row(d, r) == /\ d.at = r.at /\ d.order = 2 * r.id
                          /\ d.commit = 0 /\ d.n = r.n
  <2> DEFINE Update(d, s) == /\ d.at = s.at /\ d.order = 2 * s.seq + 1
                             /\ d.commit = s.id /\ d.n = s.id
  <2>1. \A d : Entry(d) => (\E r \in audit : Row(d, r))
                           \/ (\E s \in syncs : Update(d, s))
    OBVIOUS
  <2> HIDE DEF Entry
  <2>2. CASE \E r, q \in audit : Row(e, r) /\ Row(f, q)
    <3>1. PICK r \in audit, q \in audit : Row(e, r) /\ Row(f, q)
      BY <2>2
    <3>2. /\ r.id \in Nat /\ r.at \in Nat /\ r.n \in Nat
          /\ q.id \in Nat /\ q.at \in Nat /\ q.n \in Nat
      BY RowFacts DEF LogInv
    <3>3. /\ r.id = q.id => r.at = q.at /\ r.n = q.n
          /\ r.id < q.id => r.at <= q.at /\ r.n <= q.n
          /\ q.id < r.id => q.at <= r.at /\ q.n <= r.n
      BY DEF LogInv, RowsInOrder
    <3>. QED
      BY <3>1, <3>2, <3>3 DEF Above
  <2>3. CASE \E r \in audit, s \in syncs : Row(e, r) /\ Update(f, s)
    <3>1. PICK r \in audit, s \in syncs : Row(e, r) /\ Update(f, s)
      BY <2>3
    <3>2. /\ r.id \in Nat /\ r.at \in Nat /\ r.n \in Nat
          /\ s.id \in Nat /\ s.at \in Nat /\ s.seq \in Nat
      BY RowFacts, SyncFacts DEF LogInv
    <3>3. /\ r.id > s.seq => r.at >= s.at /\ r.n >= s.id
          /\ r.id <= s.seq => r.at <= s.at /\ r.n <= s.id
      BY DEF LogInv, PlacesInOrder
    <3>. QED
      BY <3>1, <3>2, <3>3 DEF Above
  <2>4. CASE \E r \in audit, s \in syncs : Row(f, r) /\ Update(e, s)
    <3>1. PICK r \in audit, s \in syncs : Row(f, r) /\ Update(e, s)
      BY <2>4
    <3>2. /\ r.id \in Nat /\ r.at \in Nat /\ r.n \in Nat
          /\ s.id \in Nat /\ s.at \in Nat /\ s.seq \in Nat
      BY RowFacts, SyncFacts DEF LogInv
    <3>3. /\ r.id > s.seq => r.at >= s.at /\ r.n >= s.id
          /\ r.id <= s.seq => r.at <= s.at /\ r.n <= s.id
      BY DEF LogInv, PlacesInOrder
    <3>. QED
      BY <3>1, <3>2, <3>3 DEF Above
  <2>5. CASE \E s, t \in syncs : Update(e, s) /\ Update(f, t)
    <3>1. PICK s \in syncs, t \in syncs : Update(e, s) /\ Update(f, t)
      BY <2>5
    <3>2. /\ s.id \in Nat /\ s.at \in Nat /\ s.seq \in Nat
          /\ t.id \in Nat /\ t.at \in Nat /\ t.seq \in Nat
      BY SyncFacts DEF LogInv
    <3>3. /\ s.id = t.id => s.at = t.at /\ s.seq = t.seq
          /\ s.id < t.id => s.at <= t.at /\ s.seq <= t.seq
          /\ t.id < s.id => t.at <= s.at /\ t.seq <= s.seq
      BY DEF LogInv, SyncsInOrder
    <3>. QED
      BY <3>1, <3>2, <3>3 DEF Above
  <2> HIDE DEF Row, Update
  <2>. QED
    BY <1>2, <2>1, <2>2, <2>3, <2>4, <2>5
<1> HIDE DEF Entry
<1>. QED
    BY <1>1, <1>2 DEF InOrder

\* The invariant makes the log true.
LEMMA LogTells == LogInv => LogIsTrue
<1> SUFFICES ASSUME LogInv, account # NoAccount PROVE LogIsTrue
    BY DEF LogIsTrue
<1>1. \A s \in syncs : /\ Listed(Read, s) \subseteq WasTrue(s)
                       /\ Readable(Read, s) => Listed(Read, s) = WasTrue(s)
    BY OneUpdate
<1>2. \A e \in OwnEntries : e.n > account.since
    BY DEF LogInv, Owned, OwnEntries, MineOnly
<1>. QED
    BY <1>1, <1>2, EntriesInOrder DEF LogIsTrue

----------------------------------------------------------------------------
(* ChangeLog: one transaction on the tables *)

History(now, n, last, complete, acc, picks, rows, updates) ==
    /\ Typed(now, n, last, complete, acc, picks, rows, updates)
    /\ RowsInOrder(rows) /\ PlacesInOrder(rows, updates)
    /\ SyncsInOrder(updates)
    /\ acc # NoAccount => Owned(rows, updates, acc)
    /\ Truthful(complete, acc, picks, rows, updates)

LEMMA LogInvIsHistory ==
    LogInv <=> /\ FeedType
               /\ History(clock, commits, lastId, completeSince, account, sel,
                          audit, syncs)
    BY DEF LogInv, LogTypes, TruthInv, History

\* New rows do not hide the first of the older ones.
LEMMA EarliestOfBoth ==
    ASSUME NEW older, NEW newer, NEW n \in Nat,
           Numbered(older \cup newer, n), RowsInOrder(older \cup newer),
           \A r \in older, q \in newer : r.id < q.id
    PROVE  /\ older # {} => Earliest(older \cup newer) = Earliest(older)
           /\ older = {} /\ newer # {} => Earliest(older \cup newer) \in newer
<1> DEFINE both == older \cup newer
<1>1. ASSUME older # {}
      PROVE  Earliest(both) = Earliest(older)
  <2>1. Numbered(older, n)
    BY DEF Numbered
  <2>2. Earliest(older) \in older /\ \A q \in older : Earliest(older).id <= q.id
    BY <1>1, <2>1, EarliestFacts
  <2>3. \A q \in both : Earliest(older).id <= q.id
    BY <2>2 DEF Numbered
  <2>. QED
    BY <2>2, <2>3, EarliestIs
<1>2. ASSUME older = {}, newer # {}
      PROVE  Earliest(both) \in newer
    BY <1>2, EarliestFacts
<1>. QED
    BY <1>1, <1>2

\* A change of the mode or of a selection is told by a row, and every row
\* tells what was there before: that, or that it was too much.
Tells(rows, picks, picks2, mode, mode2) ==
    /\ \A r \in rows : r.kind = "mode" => r.mode = mode
    /\ mode2 # mode => \E r \in rows : r.kind = "mode"
    /\ \A m \in LogModes :
          /\ \A r \in rows : r.kind = "selection" /\ r.mode = m =>
                 r.before \in {picks[m], Big}
          /\ picks2[m] # picks[m] =>
                 \E r \in rows : r.kind = "selection" /\ r.mode = m

\* Then what the rows told of an update before, they tell after it.
LEMMA StillRemembered ==
    ASSUME NEW older, NEW newer, NEW last \in Nat, NEW n \in Nat,
           Numbered(older \cup newer, n), RowsInOrder(older \cup newer),
           \A r \in older : r.id <= last /\ r.mode \in LogModes,
           \A r \in newer : r.id > last,
           NEW s, s.seq \in Nat, s.seq <= last,
           NEW picks, NEW picks2, NEW acc, NEW acc2, acc.mode \in LogModes,
           Tells(newer, picks, picks2, acc.mode, acc2.mode),
           Remembered(older, picks, acc, s)
    PROVE  Remembered(older \cup newer, picks2, acc2, s)
<1> DEFINE both == older \cup newer
<1>1. /\ \A r \in older : r.id \in Nat
      /\ \A r \in newer : r.id \in Nat /\ r.id > s.seq
    BY DEF Numbered
<1>2. ASSUME NEW old \in SUBSET older, NEW new \in SUBSET newer
      PROVE  /\ old # {} => Earliest(old \cup new) = Earliest(old)
             /\ old = {} /\ new # {} => Earliest(old \cup new) \in new
             /\ old # {} => Earliest(old) \in old
  <2>1. /\ Numbered(old \cup new, n) /\ RowsInOrder(old \cup new)
        /\ Numbered(old, n)
    BY DEF Numbered, RowsInOrder
  <2>2. \A r \in old, q \in new : r.id < q.id
    BY <1>1
  <2>3. old # {} => Earliest(old) \in old
    BY <2>1, EarliestFacts
  <2>. QED
    BY <2>1, <2>2, <2>3, EarliestOfBoth
<1>3. WasMode(both, acc2, s) = WasMode(older, acc, s)
  <2> DEFINE old == RowsAfter(older, s, "mode")
  <2> DEFINE new == RowsAfter(newer, s, "mode")
  <2>1. RowsAfter(both, s, "mode") = old \cup new
    BY DEF RowsAfter
  <2>2. old \in SUBSET older /\ new \in SUBSET newer
    BY DEF RowsAfter
  <2>3. /\ new = {} => acc2.mode = acc.mode
        /\ \A r \in new : r.mode = acc.mode
    BY <1>1 DEF RowsAfter, Tells
  <2>4. WasMode(older, acc, s) =
            IF old = {} THEN acc.mode ELSE Earliest(old).mode
    BY DEF WasMode
  <2>5. WasMode(both, acc2, s) =
            IF old \cup new = {} THEN acc2.mode
            ELSE Earliest(old \cup new).mode
    BY <2>1 DEF WasMode
  <2> HIDE DEF old, new
  <2>. QED
    BY <1>2, <2>2, <2>3, <2>4, <2>5
<1>4. ASSUME NEW m \in LogModes
      PROVE  WasPicked(both, picks2, s, m) \in {WasPicked(older, picks, s, m), Big}
  <2> DEFINE old == PicksAfter(older, s, m)
  <2> DEFINE new == PicksAfter(newer, s, m)
  <2>1. PicksAfter(both, s, m) = old \cup new
    BY DEF PicksAfter, RowsAfter
  <2>2. old \in SUBSET older /\ new \in SUBSET newer
    BY DEF PicksAfter, RowsAfter
  <2>3. /\ new = {} => picks2[m] = picks[m]
        /\ \A r \in new : r.before \in {picks[m], Big}
    BY <1>1 DEF PicksAfter, RowsAfter, Tells
  <2>4. WasPicked(older, picks, s, m) =
            IF old = {} THEN picks[m] ELSE Earliest(old).before
    BY DEF WasPicked
  <2>5. WasPicked(both, picks2, s, m) =
            IF old \cup new = {} THEN picks2[m]
            ELSE Earliest(old \cup new).before
    BY <2>1 DEF WasPicked
  <2> HIDE DEF old, new
  <2>. QED
    BY <1>2, <2>2, <2>3, <2>4, <2>5
<1>5. WasMode(older, acc, s) \in LogModes
  <2>1. RowsAfter(older, s, "mode") \in SUBSET older /\ {} \in SUBSET newer
    BY DEF RowsAfter
  <2>. QED
    BY <1>2, <2>1 DEF WasMode
<1>. QED
    BY <1>3, <1>4, <1>5 DEF Remembered

RawRows == [kind : {"selection", "mode"}, mode : LogModes,
            before : {Big} \cup SUBSET LogKeys]
Stamped(rows, last, now, n) ==
    {[kind |-> rows[i].kind, mode |-> rows[i].mode, before |-> rows[i].before,
      id |-> last + i, at |-> now, n |-> n] : i \in DOMAIN rows}

LEMMA StampedFacts ==
    ASSUME NEW rows \in Seq(RawRows), NEW last \in Nat, NEW now \in Nat,
           NEW n \in Nat \ {0}, NEW r \in Stamped(rows, last, now, n)
    PROVE  /\ RowOk(r, now, n, last + Len(rows))
           /\ r.id > last /\ r.at = now /\ r.n = n
           /\ \A q \in Stamped(rows, last, now, n) : r.id = q.id => r = q
<1>0. Len(rows) \in Nat /\ DOMAIN rows = 1..Len(rows)
    OBVIOUS
<1>1. ASSUME NEW i \in DOMAIN rows
      PROVE  rows[i] \in RawRows
    BY <1>1
<1>2. PICK i \in DOMAIN rows :
        r = [kind |-> rows[i].kind, mode |-> rows[i].mode,
             before |-> rows[i].before, id |-> last + i, at |-> now, n |-> n]
    BY DEF Stamped
<1>3. /\ rows[i].kind \in {"selection", "mode"} /\ rows[i].mode \in LogModes
      /\ rows[i].before = Big \/ rows[i].before \in SUBSET LogKeys
    BY <1>1 DEF RawRows
<1>4. last + i \in 1..(last + Len(rows)) /\ last + i > last
    BY <1>0
<1>5. RowOk(r, now, n, last + Len(rows))
    BY <1>2, <1>3, <1>4 DEF RowOk
<1>6. ASSUME NEW q \in Stamped(rows, last, now, n), r.id = q.id
      PROVE  r = q
  <2>1. PICK j \in DOMAIN rows :
          q = [kind |-> rows[j].kind, mode |-> rows[j].mode,
               before |-> rows[j].before, id |-> last + j, at |-> now, n |-> n]
    BY DEF Stamped
  <2>2. i = j
    BY <1>0, <1>2, <1>6, <2>1
  <2>. QED
    BY <1>2, <2>1, <2>2
<1>. QED
    BY <1>2, <1>4, <1>5, <1>6

\* The rows of a transaction come after all that there are.
LEMMA RowsAreRecorded ==
    ASSUME NEW now, NEW n, NEW last, NEW complete, NEW acc, NEW picks,
           NEW older, NEW updates,
           History(now, n, last, complete, acc, picks, older, updates),
           NEW rows \in Seq(RawRows),
           NEW n2 \in Nat \ {0}, n <= n2, NEW acc2,
           NEW picks2 \in [LogModes -> SUBSET LogKeys],
           acc = NoAccount => acc2 = NoAccount,
           acc # NoAccount =>
               /\ acc2 \in Accounts /\ acc2.floor = acc.floor
               /\ acc2.since = acc.since /\ acc.since < n2
               /\ Tells(Stamped(rows, last, now, n2), picks, picks2,
                        acc.mode, acc2.mode)
    PROVE  History(now, n2, last + Len(rows), complete, acc2, picks2,
                   older \cup Stamped(rows, last, now, n2), updates)
<1> DEFINE newer == Stamped(rows, last, now, n2)
<1> DEFINE last2 == last + Len(rows)
<1> DEFINE both == older \cup newer
<1>0. /\ now \in Nat /\ n \in Nat /\ last \in Nat /\ complete \in Nat
      /\ Len(rows) \in Nat /\ last2 \in Nat /\ last <= last2
  <2>1. Len(rows) \in Nat
    OBVIOUS
  <2>2. now \in Nat /\ n \in Nat /\ last \in Nat /\ complete \in Nat
    BY DEF History, Typed
  <2>. QED
    BY <2>1, <2>2
<1>1. \A r \in older : /\ RowOk(r, now, n, last)
                       /\ r.id \in 1..last /\ r.at \in 0..now /\ r.n \in 1..n
                       /\ r.mode \in LogModes
    BY DEF History, Typed, RowOk
<1>2. \A r \in newer : /\ RowOk(r, now, n2, last2)
                       /\ r.id > last /\ r.at = now /\ r.n = n2
                       /\ \A q \in newer : r.id = q.id => r = q
    BY <1>0, StampedFacts
<1>3. \A s \in updates : /\ SyncOk(s, now, n, last) /\ s \in UpdateRows
                         /\ s.id \in 1..n /\ s.at \in 0..now
                         /\ s.seq \in 0..last /\ s.of \in 0..n
    BY DEF History, Typed, SyncOk
<1> HIDE DEF newer, last2
<1>4. \A r \in both : RowOk(r, now, n2, last2)
  <2>1. ASSUME NEW r \in older
        PROVE  RowOk(r, now, n2, last2)
    BY <1>0, <1>1 DEF RowOk
  <2>. QED
    BY <1>2, <2>1
<1>5. Typed(now, n2, last2, complete, acc2, picks2, both, updates)
  <2>1. \A s \in updates : SyncOk(s, now, n2, last2)
    BY <1>0, <1>3 DEF SyncOk
  <2>2. acc2 # NoAccount =>
            acc2 \in Accounts /\ acc2.floor <= last2 /\ acc2.since <= n2
    BY <1>0 DEF History, Typed, Accounts
  <2>. QED
    BY <1>0, <1>4, <2>1, <2>2 DEF Typed
<1>6. Numbered(both, last2) /\ RowsInOrder(both)
  <2>1. Numbered(both, last2)
    BY <1>0, <1>4 DEF RowOk, Numbered
  <2>2. RowsInOrder(both)
    <3>1. \A r, q \in older : /\ r.id = q.id => r = q
                              /\ r.id < q.id => r.at <= q.at /\ r.n <= q.n
      BY DEF History, RowsInOrder
    <3>2. \A r \in older, q \in newer :
            r.id < q.id /\ r.at <= q.at /\ r.n <= q.n
      <4>. SUFFICES ASSUME NEW r \in older, NEW q \in newer
                    PROVE  r.id < q.id /\ r.at <= q.at /\ r.n <= q.n
        OBVIOUS
      <4>1. q.id \in Nat /\ q.id > last /\ q.at = now /\ q.n = n2
        BY <1>0, <1>2 DEF RowOk
      <4>2. r.id \in 1..last /\ r.at \in 0..now /\ r.n \in 1..n
        BY <1>1
      <4>. QED
        BY <1>0, <4>1, <4>2
    <3>3. \A r \in newer, q \in older : ~(r.id = q.id) /\ ~(r.id < q.id)
      <4>. SUFFICES ASSUME NEW r \in newer, NEW q \in older
                    PROVE  ~(r.id = q.id) /\ ~(r.id < q.id)
        OBVIOUS
      <4>1. r.id \in Nat /\ q.id \in Nat /\ q.id < r.id
        BY <1>0, <1>1, <1>2, <3>2 DEF RowOk
      <4>. QED
        BY <4>1
    <3>4. \A r, q \in newer : /\ r.id = q.id => r = q
                              /\ r.at <= q.at /\ r.n <= q.n
      BY <1>0, <1>2
    <3>. QED
      BY <3>1, <3>2, <3>3, <3>4 DEF RowsInOrder
  <2>. QED
    BY <2>1, <2>2
<1>7. PlacesInOrder(both, updates)
  <2>1. \A r \in older, s \in updates :
            /\ r.id > s.seq => r.at >= s.at /\ r.n >= s.id
            /\ r.id <= s.seq => r.at <= s.at /\ r.n <= s.id
    BY DEF History, PlacesInOrder
  <2>2. \A r \in newer, s \in updates :
            /\ r.at >= s.at /\ r.n >= s.id
            /\ ~(r.id <= s.seq)
    <3>. SUFFICES ASSUME NEW r \in newer, NEW s \in updates
                  PROVE  r.at >= s.at /\ r.n >= s.id /\ ~(r.id <= s.seq)
      OBVIOUS
    <3>1. r.id \in Nat
      BY <1>0, <1>2 DEF RowOk
    <3>. QED
      BY <1>0, <1>2, <1>3, <3>1
  <2>. QED
    BY <2>1, <2>2 DEF PlacesInOrder
<1>8. acc2 # NoAccount => Owned(both, updates, acc2)
  <2>. SUFFICES ASSUME acc # NoAccount, acc2 # NoAccount
                PROVE  Owned(both, updates, acc2)
    OBVIOUS
  <2>1. Owned(older, updates, acc)
    BY DEF History
  <2>2. \A r \in newer : r.n > acc2.since
    <3>1. acc.since \in Nat /\ acc2.since = acc.since /\ acc.since < n2
      BY DEF History, Typed, Accounts
    <3>. QED
      BY <1>2, <3>1
  <2>. QED
    BY <2>1, <2>2 DEF Owned
<1>9. Truthful(complete, acc2, picks2, both, updates)
  <2>. SUFFICES ASSUME acc # NoAccount, acc2 # NoAccount, NEW s \in updates,
                       s.of = acc.since, s.at >= complete
                PROVE  Remembered(both, picks2, acc2, s)
    BY DEF Truthful
  <2>1. Remembered(older, picks, acc, s)
    BY DEF History, Truthful
  <2>2. /\ acc.mode \in LogModes
        /\ Tells(newer, picks, picks2, acc.mode, acc2.mode)
    BY DEF History, Typed, Accounts, newer
  <2>3. s.seq \in Nat /\ s.seq <= last
    BY <1>0, <1>3
  <2>4. /\ \A r \in older : r.id <= last /\ r.mode \in LogModes
        /\ \A r \in newer : r.id > last
    BY <1>0, <1>1, <1>2
  <2>. QED
    BY <1>0, <1>6, <2>1, <2>2, <2>3, <2>4, StillRemembered
<1>10. SyncsInOrder(updates)
    BY DEF History
<1>. QED
    BY <1>5, <1>6, <1>7, <1>8, <1>9, <1>10 DEF History, newer, last2

\* Time passes, and transactions that are about something else.
LEMMA OthersKeepHistory ==
    ASSUME NEW now, NEW n, NEW last, NEW complete, NEW acc, NEW picks,
           NEW rows, NEW updates,
           History(now, n, last, complete, acc, picks, rows, updates),
           NEW now2 \in Nat, NEW n2 \in Nat, now <= now2, n <= n2
    PROVE  History(now2, n2, last, complete, acc, picks, rows, updates)
<1>0. now \in Nat /\ n \in Nat
    BY DEF History, Typed
<1>1. \A r \in rows : RowOk(r, now2, n2, last)
  <2>1. ASSUME NEW r \in rows
        PROVE  RowOk(r, now2, n2, last)
    <3>1. RowOk(r, now, n, last)
      BY DEF History, Typed
    <3>. QED
      BY <1>0, <3>1 DEF RowOk
  <2>. QED
    BY <2>1
<1>2. \A s \in updates : SyncOk(s, now2, n2, last)
  <2>1. ASSUME NEW s \in updates
        PROVE  SyncOk(s, now2, n2, last)
    <3>1. SyncOk(s, now, n, last)
      BY DEF History, Typed
    <3>. QED
      BY <1>0, <3>1 DEF SyncOk
  <2>. QED
    BY <2>1
<1>3. acc # NoAccount =>
          acc \in Accounts /\ acc.floor <= last /\ acc.since <= n2
    BY <1>0 DEF History, Typed, Accounts
<1>. QED
    BY <1>0, <1>1, <1>2, <1>3 DEF History, Typed

\* RecordFeedSyncChangeTx: an update comes after all that there is, and is
\* what it is at this moment.
LEMMA UpdateIsRecorded ==
    ASSUME NEW now, NEW n, NEW last, NEW complete, NEW acc, NEW picks,
           NEW rows, NEW updates,
           History(now, n, last, complete, acc, picks, rows, updates),
           NEW s \in UpdateRows,
           s.id = n + 1, s.at = now, s.seq = last,
           s.of = IF acc = NoAccount THEN 0 ELSE acc.since,
           acc # NoAccount => Matched(s, acc.mode, picks[acc.mode])
    PROVE  History(now, n + 1, last, complete, acc, picks, rows,
                   updates \cup {s})
<1> DEFINE all == updates \cup {s}
<1> DEFINE n2 == n + 1
<1>0. /\ now \in Nat /\ n \in Nat /\ last \in Nat /\ complete \in Nat
      /\ n2 \in Nat /\ n <= n2
    BY DEF History, Typed
<1>1. History(now, n2, last, complete, acc, picks, rows, updates)
    BY <1>0, OthersKeepHistory
<1>2. acc # NoAccount => /\ acc.since \in Nat /\ acc.floor \in Nat
                         /\ acc.since <= n /\ acc.floor <= last
    BY DEF History, Typed, Accounts
<1>3. SyncOk(s, now, n2, last)
    BY <1>0, <1>2 DEF SyncOk
<1>4. \A r \in rows : /\ r.id \in 1..last /\ r.at \in 0..now /\ r.n \in 1..n
    BY DEF History, Typed, RowOk
<1>5. \A t \in updates : t.id \in 1..n /\ t.at \in 0..now /\ t.seq \in 0..last
    BY DEF History, Typed, SyncOk
<1>6. Typed(now, n2, last, complete, acc, picks, rows, all)
    BY <1>1, <1>3 DEF History, Typed
<1>7. PlacesInOrder(rows, all)
  <2>1. \A r \in rows : /\ ~(r.id > last)
                        /\ r.at <= now /\ r.n <= n2
    BY <1>0, <1>4
  <2>. QED
    BY <1>1, <2>1 DEF History, PlacesInOrder
<1>8. SyncsInOrder(all)
  <2>1. \A t, u \in updates : /\ t.id = u.id => t = u
                              /\ t.id < u.id => t.at <= u.at /\ t.seq <= u.seq
    BY <1>1 DEF History, SyncsInOrder
  <2>2. \A t \in updates : /\ t.id # s.id /\ ~(s.id < t.id)
                           /\ t.at <= s.at /\ t.seq <= s.seq
    BY <1>0, <1>5
  <2>3. ~(s.id < s.id)
    BY <1>0
  <2>. QED
    BY <2>1, <2>2, <2>3 DEF SyncsInOrder
<1>9. acc # NoAccount => Owned(rows, all, acc)
    BY <1>1, <1>2 DEF History, Owned
<1>10. Truthful(complete, acc, picks, rows, all)
  <2>1. acc # NoAccount => Remembered(rows, picks, acc, s)
    <3>1. \A kind : RowsAfter(rows, s, kind) = {}
      BY <1>0, <1>4 DEF RowsAfter
    <3>2. \A m : PicksAfter(rows, s, m) = {}
      BY <3>1 DEF PicksAfter
    <3>. QED
      BY <3>1, <3>2 DEF Remembered, WasMode, WasPicked
  <2>. QED
    BY <1>1, <2>1 DEF History, Truthful
<1>. QED
    BY <1>1, <1>6, <1>7, <1>8, <1>9, <1>10 DEF History

\* The updates of a feed outlive it, no longer of a feed that there is.
Outlived(updates) == {[s EXCEPT !.live = FALSE] : s \in updates}
LEMMA UpdatesOutliveTheFeed ==
    ASSUME NEW now, NEW n, NEW last, NEW complete, NEW acc, NEW picks,
           NEW rows, NEW updates,
           History(now, n, last, complete, acc, picks, rows, updates)
    PROVE  History(now, n, last, complete, acc, picks, rows, Outlived(updates))
<1> DEFINE KeptRows(t, s) ==
        /\ t = [s EXCEPT !.live = FALSE] /\ t \in UpdateRows
        /\ t.id = s.id /\ t.at = s.at /\ t.seq = s.seq /\ t.of = s.of
        /\ t.modes = s.modes /\ t.added = s.added /\ t.removed = s.removed
        /\ t.matters = s.matters
<1>1. ASSUME NEW t \in Outlived(updates)
      PROVE  \E s \in updates : KeptRows(t, s) /\ SyncOk(s, now, n, last)
  <2>1. PICK s \in updates : t = [s EXCEPT !.live = FALSE]
    BY DEF Outlived
  <2>2. SyncOk(s, now, n, last)
    BY DEF History, Typed
  <2>3. KeptRows(t, s)
    BY <2>1, <2>2 DEF SyncOk, UpdateRows
  <2>. QED
    BY <2>2, <2>3
<1>2. ASSUME NEW t \in Outlived(updates)
      PROVE  SyncOk(t, now, n, last)
    BY <1>1 DEF SyncOk
<1>3. Typed(now, n, last, complete, acc, picks, rows, Outlived(updates))
    BY <1>2 DEF History, Typed
<1>4. PlacesInOrder(rows, Outlived(updates))
    BY <1>1 DEF History, PlacesInOrder
<1>5. SyncsInOrder(Outlived(updates))
  <2>. SUFFICES ASSUME NEW t \in Outlived(updates), NEW u \in Outlived(updates)
                PROVE  /\ t.id = u.id => t = u
                       /\ t.id < u.id => t.at <= u.at /\ t.seq <= u.seq
    BY DEF SyncsInOrder
  <2>1. PICK s \in updates : KeptRows(t, s)
    BY <1>1
  <2>2. PICK r \in updates : KeptRows(u, r)
    BY <1>1
  <2>. QED
    BY <2>1, <2>2 DEF History, SyncsInOrder
<1>6. acc # NoAccount => Owned(rows, Outlived(updates), acc)
    BY <1>1 DEF History, Owned
<1>7. Truthful(complete, acc, picks, rows, Outlived(updates))
  <2>. SUFFICES ASSUME acc # NoAccount, NEW t \in Outlived(updates),
                       t.of = acc.since, t.at >= complete
                PROVE  Remembered(rows, picks, acc, t)
    BY DEF Truthful
  <2>1. PICK s \in updates : KeptRows(t, s)
    BY <1>1
  <2>2. Remembered(rows, picks, acc, s)
    BY <2>1 DEF History, Truthful
  <2>3. \A kind : RowsAfter(rows, t, kind) = RowsAfter(rows, s, kind)
    BY <2>1 DEF RowsAfter
  <2>4. \A m : PicksAfter(rows, t, m) = PicksAfter(rows, s, m)
    BY <2>3 DEF PicksAfter
  <2>5. /\ WasMode(rows, acc, t) = WasMode(rows, acc, s)
        /\ \A m : WasPicked(rows, picks, t, m) = WasPicked(rows, picks, s, m)
    BY <2>3, <2>4 DEF WasMode, WasPicked
  <2>. QED
    BY <2>1, <2>2, <2>5 DEF Remembered, Matched
<1>. QED
    BY <1>3, <1>4, <1>5, <1>6, <1>7 DEF History

\* CreateUser, DeleteUser: of whoever had the id before, the new user is told
\* nothing.
LEMMA UsersStartAnew ==
    ASSUME NEW now, NEW n, NEW last, NEW complete, NEW picks,
           NEW rows, NEW updates, NEW acc,
           History(now, n, last, complete, NoAccount, picks, rows, updates),
           acc \in Accounts, acc.floor = last + 1, acc.since = n + 1
    PROVE  History(now, n + 1, last + 1, complete, acc, picks, rows, updates)
<1>0. now \in Nat /\ n \in Nat /\ last \in Nat
    BY DEF History, Typed
<1>1. \A r \in rows : RowOk(r, now, n + 1, last + 1) /\ r.id \in 1..last
  <2>1. ASSUME NEW r \in rows
        PROVE  RowOk(r, now, n + 1, last + 1) /\ r.id \in 1..last
    <3>1. RowOk(r, now, n, last)
      BY DEF History, Typed
    <3>. QED
      BY <1>0, <3>1 DEF RowOk
  <2>. QED
    BY <2>1
<1>2. \A s \in updates : /\ SyncOk(s, now, n + 1, last + 1)
                         /\ s.seq \in 0..last /\ s.of \in 0..n
  <2>1. ASSUME NEW s \in updates
        PROVE  /\ SyncOk(s, now, n + 1, last + 1)
               /\ s.seq \in 0..last /\ s.of \in 0..n
    <3>1. SyncOk(s, now, n, last)
      BY DEF History, Typed
    <3>. QED
      BY <1>0, <3>1 DEF SyncOk
  <2>. QED
    BY <2>1
<1>3. Typed(now, n + 1, last + 1, complete, acc, picks, rows, updates)
    BY <1>0, <1>1, <1>2 DEF History, Typed
<1>4. \A r \in rows : ~(r.id > acc.floor)
    BY <1>0, <1>1
<1>5. \A s \in updates : s.of # acc.since /\ ~(s.seq >= acc.floor)
    BY <1>0, <1>2
<1>6. Owned(rows, updates, acc)
    BY <1>4, <1>5 DEF Owned
<1>7. Truthful(complete, acc, picks, rows, updates)
    BY <1>5 DEF Truthful
<1>. QED
    BY <1>3, <1>6, <1>7 DEF History

LEMMA NoUserNoTale ==
    ASSUME NEW now, NEW n, NEW last, NEW complete, NEW acc, NEW picks,
           NEW rows, NEW updates,
           History(now, n, last, complete, acc, picks, rows, updates),
           NEW picks2 \in [LogModes -> SUBSET LogKeys]
    PROVE  History(now, n, last, complete, NoAccount, picks2, rows, updates)
    BY DEF History, Typed, Truthful

\* PurgeAuditLog: what is gone is before the boundary.
LEMMA PurgesKeepHistory ==
    ASSUME NEW now, NEW n, NEW last, NEW complete, NEW acc, NEW picks,
           NEW rows, NEW updates,
           History(now, n, last, complete, acc, picks, rows, updates),
           NEW cutoff \in Nat, NEW kept \in SUBSET updates
    PROVE  History(now, n, last, Later(complete, cutoff), acc, picks,
                   {r \in rows : r.at >= cutoff}, kept)
<1> DEFINE remains == {r \in rows : r.at >= cutoff}
<1> DEFINE complete2 == Later(complete, cutoff)
<1>0. complete \in Nat
    BY DEF History, Typed
<1>1. complete2 \in Nat /\ complete <= complete2 /\ cutoff <= complete2
    BY <1>0 DEF Later
<1> HIDE DEF complete2
<1>2. \A r \in remains : r \in rows
    OBVIOUS
<1>3. Typed(now, n, last, complete2, acc, picks, remains, kept)
    BY <1>1 DEF History, Typed
<1>4. RowsInOrder(remains) /\ PlacesInOrder(remains, kept) /\ SyncsInOrder(kept)
    BY DEF History, RowsInOrder, PlacesInOrder, SyncsInOrder
<1>5. acc # NoAccount => Owned(remains, kept, acc)
    BY DEF History, Owned
<1>6. Truthful(complete2, acc, picks, remains, kept)
  <2>. SUFFICES ASSUME acc # NoAccount, NEW s \in kept, s.of = acc.since,
                       s.at >= complete2
                PROVE  Remembered(remains, picks, acc, s)
    BY DEF Truthful
  <2>1. s \in updates /\ s.at \in Nat
    BY DEF History, Typed, SyncOk
  <2>2. s.at >= complete /\ s.at >= cutoff
    BY <1>0, <1>1, <2>1
  <2>3. Remembered(rows, picks, acc, s)
    BY <2>1, <2>2 DEF History, Truthful
  <2>4. ASSUME NEW r \in rows, r.id > s.seq
        PROVE  r \in remains
    <3>1. r.at >= s.at /\ r.at \in Nat
      BY <2>1, <2>4 DEF History, PlacesInOrder, Typed, RowOk
    <3>. QED
      BY <2>1, <2>2, <3>1
  <2>5. \A kind : RowsAfter(remains, s, kind) = RowsAfter(rows, s, kind)
    BY <2>4 DEF RowsAfter
  <2>6. \A m : PicksAfter(remains, s, m) = PicksAfter(rows, s, m)
    BY <2>5 DEF PicksAfter
  <2> HIDE DEF remains
  <2>7. /\ WasMode(remains, acc, s) = WasMode(rows, acc, s)
        /\ \A m : WasPicked(remains, picks, s, m) = WasPicked(rows, picks, s, m)
    BY <2>5, <2>6 DEF WasMode, WasPicked
  <2>. QED
    BY <2>3, <2>7 DEF Remembered
<1>. QED
    BY <1>3, <1>4, <1>5, <1>6 DEF History, complete2

----------------------------------------------------------------------------
(* ChangeLog: what the actions write *)

LEMMA ModeRowFacts ==
    ASSUME NEW from \in LogModes, NEW to
    PROVE  /\ ModeRow(from, to) \in Seq(RawRows)
           /\ Range(ModeRow(from, to)) =
                IF from = to THEN {}
                ELSE {[kind |-> "mode", mode |-> from, before |-> {}]}
<1> DEFINE newRow == [kind |-> "mode", mode |-> from, before |-> {}]
<1>1. newRow \in RawRows
    BY DEF RawRows
<1> HIDE DEF newRow
<1>2. /\ << >> \in Seq(RawRows) /\ Range(<< >>) = {}
      /\ <<newRow>> \in Seq(RawRows) /\ Range(<<newRow>>) = {newRow}
    BY <1>1 DEF Range
<1>3. ModeRow(from, to) = IF from = to THEN << >> ELSE <<newRow>>
    BY DEF ModeRow, newRow
<1>. QED
    BY <1>2, <1>3 DEF newRow

LEMMA SelectionRowFacts ==
    ASSUME NEW m \in LogModes, NEW listed \in SUBSET LogKeys, NEW after
    PROVE  /\ SelectionRow(m, listed, after) \in Seq(RawRows)
           /\ Range(SelectionRow(m, listed, after)) =
                IF listed = after THEN {}
                ELSE {[kind |-> "selection", mode |-> m,
                       before |-> Recorded(listed)]}
<1> DEFINE newRow == [kind |-> "selection", mode |-> m,
                      before |-> Recorded(listed)]
<1>1. newRow \in RawRows
    BY DEF RawRows, Recorded
<1> HIDE DEF newRow
<1>2. /\ << >> \in Seq(RawRows) /\ Range(<< >>) = {}
      /\ <<newRow>> \in Seq(RawRows) /\ Range(<<newRow>>) = {newRow}
    BY <1>1 DEF Range
<1>3. SelectionRow(m, listed, after) =
        IF listed = after THEN << >> ELSE <<newRow>>
    BY DEF SelectionRow, newRow
<1>. QED
    BY <1>2, <1>3 DEF newRow

\* Rows tell what they told before they had their ids.
LEMMA StampedTells ==
    ASSUME NEW rows, NEW last, NEW now, NEW n, NEW picks, NEW picks2,
           NEW mode, NEW mode2,
           Tells(Range(rows), picks, picks2, mode, mode2)
    PROVE  Tells(Stamped(rows, last, now, n), picks, picks2, mode, mode2)
<1> DEFINE Told(r, raw) ==
        r.kind = raw.kind /\ r.mode = raw.mode /\ r.before = raw.before
<1>1. \A r \in Stamped(rows, last, now, n) : \E raw \in Range(rows) :
        Told(r, raw)
    BY DEF Stamped, Range
<1>2. \A raw \in Range(rows) : \E r \in Stamped(rows, last, now, n) :
        Told(r, raw)
  <2>. SUFFICES ASSUME NEW i \in DOMAIN rows
                PROVE  \E r \in Stamped(rows, last, now, n) : Told(r, rows[i])
    BY DEF Range
  <2> DEFINE r == [kind |-> rows[i].kind, mode |-> rows[i].mode,
                   before |-> rows[i].before, id |-> last + i, at |-> now,
                   n |-> n]
  <2>1. r \in Stamped(rows, last, now, n)
    BY DEF Stamped
  <2>2. Told(r, rows[i])
    OBVIOUS
  <2>. QED
    BY <2>1, <2>2
<1>3. \A r \in Stamped(rows, last, now, n) : r.kind = "mode" => r.mode = mode
    BY <1>1 DEF Tells
<1>4. mode2 # mode =>
        \E r \in Stamped(rows, last, now, n) : r.kind = "mode"
    BY <1>2 DEF Tells
<1>5. ASSUME NEW m \in LogModes
      PROVE  /\ \A r \in Stamped(rows, last, now, n) :
                    r.kind = "selection" /\ r.mode = m =>
                        r.before \in {picks[m], Big}
             /\ picks2[m] # picks[m] =>
                    \E r \in Stamped(rows, last, now, n) :
                        r.kind = "selection" /\ r.mode = m
  <2>1. \A r \in Stamped(rows, last, now, n) :
            r.kind = "selection" /\ r.mode = m => r.before \in {picks[m], Big}
    BY <1>1 DEF Tells
  <2>2. picks2[m] # picks[m] =>
            \E r \in Stamped(rows, last, now, n) :
                r.kind = "selection" /\ r.mode = m
    <3>1. picks2[m] # picks[m] =>
            \E raw \in Range(rows) : raw.kind = "selection" /\ raw.mode = m
      BY DEF Tells
    <3>. QED
      BY <1>2, <3>1
  <2>. QED
    BY <2>1, <2>2
<1>. QED
    BY <1>3, <1>4, <1>5 DEF Tells

\* A recorded selection is what it was, or too much.
LEMMA RecordedIs ==
    ASSUME NEW chosen
    PROVE  Recorded(chosen) \in {chosen, Big}
    BY DEF Recorded

----------------------------------------------------------------------------
(* ChangeLog: every step keeps the invariant *)

LEMMA HistoryIsLogInv ==
    ASSUME FeedType',
           History(clock, commits, lastId, completeSince, account, sel, audit,
                   syncs)'
    PROVE  LogInv'
    BY DEF LogInv, LogTypes, TruthInv, History

\* Steps that write nothing the log is made of.
LEMMA QuietSteps ==
    ASSUME LogInv, FeedType',
           UNCHANGED <<lastId, completeSince, account, sel, audit, syncs>>,
           clock' \in Nat, clock <= clock', commits' \in Nat,
           commits <= commits'
    PROVE  LogInv'
<1>1. History(clock, commits, lastId, completeSince, account, sel, audit,
              syncs)
    BY LogInvIsHistory
<1>2. History(clock', commits', lastId, completeSince, account, sel, audit,
              syncs)
    BY <1>1, OthersKeepHistory
<1>3. History(clock, commits, lastId, completeSince, account, sel, audit,
              syncs)'
    BY <1>2
<1>. QED
    BY <1>3, HistoryIsLogInv

\* A transaction that writes rows and no update.
LEMMA RecordingSteps ==
    ASSUME LogInv, FeedType', NEW rows \in Seq(RawRows),
           Commit, Record(rows), UNCHANGED <<clock, completeSince, syncs>>,
           sel' \in [LogModes -> SUBSET LogKeys],
           account = NoAccount => account' = NoAccount,
           account # NoAccount =>
               /\ account' \in Accounts /\ account'.floor = account.floor
               /\ account'.since = account.since
               /\ Tells(Range(rows), sel, sel', account.mode, account'.mode)
    PROVE  LogInv'
<1>0. commits \in Nat /\ commits' = commits + 1
    BY DEF LogInv, LogTypes, Typed, Commit
<1> DEFINE newer == Stamped(rows, lastId, clock, commits')
<1>1. audit' = audit \cup newer /\ lastId' = lastId + Len(rows)
    BY DEF Record, Stamped
<1>2. History(clock, commits, lastId, completeSince, account, sel, audit,
              syncs)
    BY LogInvIsHistory
<1>3. commits' \in Nat \ {0} /\ commits <= commits'
    BY <1>0
<1>4. account # NoAccount =>
        /\ account.since < commits'
        /\ Tells(newer, sel, sel', account.mode, account'.mode)
  <2>1. account # NoAccount => account.since < commits'
    BY <1>0 DEF LogInv, LogTypes, Typed, Accounts
  <2>. QED
    BY <2>1, StampedTells
<1>5. History(clock, commits', lastId + Len(rows), completeSince, account',
              sel', audit \cup newer, syncs)
  <2> HIDE DEF newer
  <2> DEFINE n2 == commits'
  <2> DEFINE acc2 == account'
  <2> DEFINE picks2 == sel'
  <2>1. /\ n2 \in Nat \ {0} /\ commits <= n2
        /\ picks2 \in [LogModes -> SUBSET LogKeys]
        /\ account = NoAccount => acc2 = NoAccount
        /\ newer = Stamped(rows, lastId, clock, n2)
    BY <1>3 DEF newer
  <2>2. account # NoAccount =>
            /\ acc2 \in Accounts /\ acc2.floor = account.floor
            /\ acc2.since = account.since /\ account.since < n2
            /\ Tells(Stamped(rows, lastId, clock, n2), sel, picks2,
                     account.mode, acc2.mode)
    BY <1>4, <2>1
  <2>3. History(clock, n2, lastId + Len(rows), completeSince, acc2, picks2,
                audit \cup Stamped(rows, lastId, clock, n2), syncs)
    <3> HIDE DEF n2, acc2, picks2
    <3>. QED
      BY <1>2, <2>1, <2>2, RowsAreRecorded
  <2>. QED
    BY <2>1, <2>3
<1>6. History(clock, commits, lastId, completeSince, account, sel, audit,
              syncs)'
  <2> HIDE DEF newer
  <2>. QED
    BY <1>1, <1>5
<1>. QED
    BY <1>6, HistoryIsLogInv

LEMMA SavesKeepLogInv ==
    ASSUME LogInv, NEW m \in LogModes, NEW k \in Pickable,
           NEW switch \in BOOLEAN, SaveSelection(m, {k}, switch)
    PROVE  LogInv'
<1> DEFINE after == (sel[m] \ {k}) \cup ({k} \ sel[m])
<1> DEFINE moved == IF switch THEN ModeRow(account.mode, m) ELSE << >>
<1> DEFINE chosen == SelectionRow(m, sel[m], after)
<1> DEFINE modeRow == [kind |-> "mode", mode |-> account.mode, before |-> {}]
<1> DEFINE pickRow == [kind |-> "selection", mode |-> m,
                       before |-> Recorded(sel[m])]
<1>1. /\ account # NoAccount /\ account \in Accounts
      /\ account.mode \in LogModes
      /\ sel \in [LogModes -> SUBSET LogKeys]
    BY DEF LogInv, LogTypes, Typed, Accounts, SaveSelection
<1>2. after \in SUBSET LogKeys
    BY <1>1, LogAssumption
<1>3. sel' = [sel EXCEPT ![m] = after] /\ Record(moved \o chosen)
    BY DEF SaveSelection
<1>4. account' = IF switch THEN [account EXCEPT !.mode = m] ELSE account
    BY DEF SaveSelection
<1>5. /\ account' \in Accounts /\ account'.floor = account.floor
      /\ account'.since = account.since
      /\ account'.mode = IF switch THEN m ELSE account.mode
    BY <1>1, <1>4 DEF Accounts
<1>6. /\ moved \in Seq(RawRows)
      /\ Range(moved) = IF switch /\ account.mode # m THEN {modeRow} ELSE {}
  <2>1. << >> \in Seq(RawRows) /\ Range(<< >>) = {}
    BY DEF Range
  <2>2. /\ ModeRow(account.mode, m) \in Seq(RawRows)
        /\ Range(ModeRow(account.mode, m)) =
                IF account.mode = m THEN {} ELSE {modeRow}
    BY <1>1, ModeRowFacts
  <2>. QED
    BY <2>1, <2>2
<1>7. /\ chosen \in Seq(RawRows)
      /\ Range(chosen) = IF sel[m] = after THEN {} ELSE {pickRow}
  <2> HIDE DEF after
  <2>1. sel[m] \in SUBSET LogKeys
    BY <1>1
  <2>. QED
    BY <2>1, SelectionRowFacts
<1>8. /\ sel' \in [LogModes -> SUBSET LogKeys]
      /\ sel'[m] = after
      /\ \A o \in LogModes : o # m => sel'[o] = sel[o]
  <2> HIDE DEF after
  <2>. QED
    BY <1>1, <1>2, <1>3
<1>9. Recorded(sel[m]) \in {sel[m], Big}
    BY RecordedIs
<1>10. /\ moved \o chosen \in Seq(RawRows)
       /\ Range(moved \o chosen) = Range(moved) \cup Range(chosen)
  <2> HIDE DEF moved, chosen
  <2>. QED
    BY <1>6, <1>7, RangeConcatenation
<1>11. Tells(Range(moved \o chosen), sel, sel', account.mode, account'.mode)
  <2> HIDE DEF after, moved, chosen
  <2>1. \A r \in Range(moved) : r = modeRow /\ switch /\ account.mode # m
    BY <1>6
  <2>2. \A r \in Range(chosen) : r = pickRow /\ sel[m] # after
    BY <1>7
  <2>3. switch /\ account.mode # m => modeRow \in Range(moved)
    BY <1>6
  <2>4. sel[m] # after => pickRow \in Range(chosen)
    BY <1>7
  <2>5. \A r \in Range(moved \o chosen) : r \in Range(moved) \/ r \in Range(chosen)
    BY <1>10
  <2>6. /\ modeRow.kind = "mode" /\ modeRow.mode = account.mode
        /\ pickRow.kind = "selection" /\ pickRow.mode = m
        /\ pickRow.before \in {sel[m], Big}
    BY <1>9
  <2> HIDE DEF modeRow, pickRow
  <2>7. \A r \in Range(moved \o chosen) : r.kind = "mode" => r.mode = account.mode
    BY <2>1, <2>2, <2>5, <2>6
  <2>8. account'.mode # account.mode =>
            \E r \in Range(moved \o chosen) : r.kind = "mode"
    BY <1>5, <1>10, <2>3, <2>6
  <2>9. ASSUME NEW o \in LogModes
        PROVE  /\ \A r \in Range(moved \o chosen) :
                      r.kind = "selection" /\ r.mode = o =>
                          r.before \in {sel[o], Big}
               /\ sel'[o] # sel[o] =>
                      \E r \in Range(moved \o chosen) :
                          r.kind = "selection" /\ r.mode = o
    BY <1>8, <1>10, <2>1, <2>2, <2>4, <2>5, <2>6
  <2>. QED
    BY <2>7, <2>8, <2>9 DEF Tells
<1>12. FeedType' /\ Commit /\ UNCHANGED <<clock, completeSince, syncs>>
    BY DEF SaveSelection, LogInv, FeedType
<1> HIDE DEF after, moved, chosen
<1>. QED
    BY <1>1, <1>3, <1>5, <1>8, <1>10, <1>11, <1>12, RecordingSteps

\* The user row as it is after a move.
LEMMA AccountMoves ==
    ASSUME account \in Accounts, NEW m \in LogModes
    PROVE  /\ [account EXCEPT !.mode = m] \in Accounts
           /\ [account EXCEPT !.mode = m].floor = account.floor
           /\ [account EXCEPT !.mode = m].since = account.since
           /\ [account EXCEPT !.mode = m].mode = m
    BY DEF Accounts

LEMMA SetModeKeepsLogInv ==
    ASSUME LogInv, NEW m \in LogModes, SetMode(m)
    PROVE  LogInv'
<1> DEFINE rows == ModeRow(account.mode, m)
<1>1. /\ account # NoAccount /\ account \in Accounts
      /\ account.mode \in LogModes
      /\ sel \in [LogModes -> SUBSET LogKeys]
    BY DEF LogInv, LogTypes, Typed, Accounts, SetMode
<1>2. /\ account' \in Accounts /\ account'.floor = account.floor
      /\ account'.since = account.since /\ account'.mode = m
    BY <1>1, AccountMoves DEF SetMode
<1>3. /\ rows \in Seq(RawRows)
      /\ Range(rows) = {[kind |-> "mode", mode |-> account.mode, before |-> {}]}
    BY <1>1, ModeRowFacts DEF SetMode
<1>4. sel' = sel
    BY DEF SetMode
<1>5. Tells(Range(rows), sel, sel', account.mode, account'.mode)
  <2> HIDE DEF rows
  <2>. QED
    BY <1>3, <1>4 DEF Tells
<1>6. /\ FeedType' /\ Commit /\ Record(rows)
      /\ UNCHANGED <<clock, completeSince, syncs>>
    BY DEF SetMode, LogInv, FeedType
<1> HIDE DEF rows
<1>. QED
    BY <1>1, <1>2, <1>3, <1>4, <1>5, <1>6, RecordingSteps

LEMMA DeleteModeKeepsLogInv ==
    ASSUME LogInv, NEW m \in LogModes, DeleteMode(m)
    PROVE  LogInv'
<1> DEFINE moves == account # NoAccount /\ account.mode = m
<1> DEFINE chosen == SelectionRow(m, sel[m], {})
<1> DEFINE moved == IF moves THEN ModeRow(m, LogFallback) ELSE << >>
<1> DEFINE modeRow == [kind |-> "mode", mode |-> m, before |-> {}]
<1> DEFINE pickRow == [kind |-> "selection", mode |-> m,
                       before |-> Recorded(sel[m])]
<1>1. /\ account # NoAccount => account \in Accounts
      /\ sel \in [LogModes -> SUBSET LogKeys]
    BY DEF LogInv, LogTypes, Typed
<1>2. LogFallback \in LogModes /\ LogFallback # m
    BY LogAssumption DEF DeleteMode
<1>3. /\ sel' = [sel EXCEPT ![m] = {}] /\ Record(chosen \o moved)
      /\ account' = IF moves THEN [account EXCEPT !.mode = LogFallback]
                    ELSE account
    BY DEF DeleteMode, DeletedModeRows
<1>4. account # NoAccount =>
        /\ account' \in Accounts /\ account'.floor = account.floor
        /\ account'.since = account.since
        /\ account'.mode = IF moves THEN LogFallback ELSE account.mode
    BY <1>1, <1>2, <1>3, AccountMoves
<1>5. account = NoAccount => account' = NoAccount
    BY <1>3
<1>6. /\ moved \in Seq(RawRows)
      /\ Range(moved) = IF moves THEN {modeRow} ELSE {}
  <2>1. << >> \in Seq(RawRows) /\ Range(<< >>) = {}
    BY DEF Range
  <2>2. /\ ModeRow(m, LogFallback) \in Seq(RawRows)
        /\ Range(ModeRow(m, LogFallback)) = {modeRow}
    BY <1>2, ModeRowFacts
  <2>. QED
    BY <2>1, <2>2
<1>7. /\ chosen \in Seq(RawRows)
      /\ Range(chosen) = IF sel[m] = {} THEN {} ELSE {pickRow}
    BY <1>1, SelectionRowFacts
<1>8. /\ sel' \in [LogModes -> SUBSET LogKeys]
      /\ sel'[m] = {}
      /\ \A o \in LogModes : o # m => sel'[o] = sel[o]
    BY <1>1, <1>3
<1>9. Recorded(sel[m]) \in {sel[m], Big}
    BY RecordedIs
<1>10. /\ chosen \o moved \in Seq(RawRows)
       /\ Range(chosen \o moved) = Range(chosen) \cup Range(moved)
  <2> HIDE DEF moved, chosen
  <2>. QED
    BY <1>6, <1>7, RangeConcatenation
<1>11. account # NoAccount =>
         Tells(Range(chosen \o moved), sel, sel', account.mode, account'.mode)
  <2> HIDE DEF moved, chosen
  <2>. SUFFICES ASSUME account # NoAccount
                PROVE  Tells(Range(chosen \o moved), sel, sel', account.mode,
                             account'.mode)
    OBVIOUS
  <2>1. \A r \in Range(moved) : r = modeRow /\ moves
    BY <1>6
  <2>2. \A r \in Range(chosen) : r = pickRow /\ sel[m] # {}
    BY <1>7
  <2>3. moves => modeRow \in Range(moved)
    BY <1>6
  <2>4. sel[m] # {} => pickRow \in Range(chosen)
    BY <1>7
  <2>5. \A r \in Range(chosen \o moved) : r \in Range(moved) \/ r \in Range(chosen)
    BY <1>10
  <2>6. /\ modeRow.kind = "mode" /\ modeRow.mode = m
        /\ pickRow.kind = "selection" /\ pickRow.mode = m
        /\ pickRow.before \in {sel[m], Big}
    BY <1>9
  <2> HIDE DEF modeRow, pickRow
  <2>7. \A r \in Range(chosen \o moved) : r.kind = "mode" => r.mode = account.mode
    BY <2>1, <2>2, <2>5, <2>6
  <2>8. account'.mode # account.mode =>
            \E r \in Range(chosen \o moved) : r.kind = "mode"
    BY <1>4, <1>10, <2>3, <2>6
  <2>9. ASSUME NEW o \in LogModes
        PROVE  /\ \A r \in Range(chosen \o moved) :
                      r.kind = "selection" /\ r.mode = o =>
                          r.before \in {sel[o], Big}
               /\ sel'[o] # sel[o] =>
                      \E r \in Range(chosen \o moved) :
                          r.kind = "selection" /\ r.mode = o
    BY <1>8, <1>10, <2>1, <2>2, <2>4, <2>5, <2>6
  <2>. QED
    BY <2>7, <2>8, <2>9 DEF Tells
<1>12. FeedType'
  <2>1. feed' = IF feed = NoFeed THEN feed ELSE [feed EXCEPT !.in = @ \ {m}]
    BY DEF DeleteMode
  <2>2. feed # NoFeed => feed \in FeedRows
    BY DEF LogInv, FeedType
  <2>3. feed # NoFeed => [feed EXCEPT !.in = @ \ {m}] \in FeedRows
    BY <2>2 DEF FeedRows
  <2>. QED
    BY <2>1, <2>3 DEF FeedType
<1>13. Commit /\ UNCHANGED <<clock, completeSince, syncs>>
    BY DEF DeleteMode
<1> HIDE DEF moved, chosen, moves
<1>. QED
    BY <1>3, <1>4, <1>5, <1>8, <1>10, <1>11, <1>12, <1>13, RecordingSteps

LEMMA UsersKeepLogInv ==
    ASSUME LogInv, (\E m \in LogModes : CreateUser(m)) \/ DeleteUser
    PROVE  LogInv'
<1>0. /\ commits \in Nat /\ lastId \in Nat /\ FeedType
      /\ History(clock, commits, lastId, completeSince, account, sel, audit,
                 syncs)
    BY LogInvIsHistory DEF LogInv, LogTypes, Typed
<1>1. ASSUME NEW m \in LogModes, CreateUser(m)
      PROVE  LogInv'
  <2> DEFINE acc == [mode |-> m, floor |-> lastId + 1, since |-> commits + 1]
  <2>1. /\ account = NoAccount /\ commits' = commits + 1
        /\ lastId' = lastId + 1 /\ account' = acc
        /\ UNCHANGED <<clock, completeSince, sel, audit, syncs, feed>>
    BY <1>1 DEF CreateUser, Commit, FloorOf
  <2>2. acc \in Accounts /\ acc.floor = lastId + 1 /\ acc.since = commits + 1
    BY <1>0 DEF Accounts
  <2>3. History(clock, commits + 1, lastId + 1, completeSince, acc, sel,
                audit, syncs)
    <3> HIDE DEF acc
    <3>1. History(clock, commits, lastId, completeSince, NoAccount, sel,
                  audit, syncs)
      BY <1>0, <2>1
    <3>. QED
      BY <2>2, <3>1, UsersStartAnew
  <2>4. FeedType'
    BY <1>0, <2>1 DEF FeedType
  <2>5. History(clock, commits, lastId, completeSince, account, sel, audit,
                syncs)'
    <3> HIDE DEF acc
    <3>. QED
      BY <2>1, <2>3
  <2>. QED
    BY <2>4, <2>5, HistoryIsLogInv
<1>2. ASSUME DeleteUser
      PROVE  LogInv'
  <2>1. /\ account' = NoAccount /\ commits' = commits + 1 /\ sel' = Nothing
        /\ UNCHANGED <<clock, lastId, completeSince, audit, syncs, feed>>
    BY <1>2 DEF DeleteUser, Commit
  <2>2. Nothing \in [LogModes -> SUBSET LogKeys]
    BY DEF Nothing
  <2>3. History(clock, commits + 1, lastId, completeSince, account, sel,
                audit, syncs)
    <3>1. clock \in Nat /\ clock <= clock
      BY DEF LogInv, LogTypes, Typed
    <3>. QED
      BY <1>0, <3>1, OthersKeepHistory
  <2>4. History(clock, commits + 1, lastId, completeSince, NoAccount, Nothing,
                audit, syncs)
    BY <2>2, <2>3, NoUserNoTale
  <2>5. FeedType'
    BY <1>0, <2>1 DEF FeedType
  <2>6. History(clock, commits, lastId, completeSince, account, sel, audit,
                syncs)'
    BY <2>1, <2>4
  <2>. QED
    BY <2>5, <2>6, HistoryIsLogInv
<1>. QED
    BY <1>1, <1>2

LEMMA PurgeKeepsLogInv ==
    ASSUME LogInv, NEW cutoff \in 1..MaxTime, Purge(cutoff)
    PROVE  LogInv'
<1>0. /\ commits \in Nat /\ clock \in Nat /\ FeedType /\ cutoff \in Nat
      /\ History(clock, commits, lastId, completeSince, account, sel, audit,
                 syncs)
    BY LogInvIsHistory, LogAssumption DEF LogInv, LogTypes, Typed
<1>1. /\ commits' = commits + 1 /\ audit' = {r \in audit : r.at >= cutoff}
      /\ syncs' \in SUBSET syncs
      /\ completeSince' = Later(completeSince, cutoff)
      /\ UNCHANGED <<clock, lastId, account, sel, feed>>
    BY DEF Purge, Commit, BoundaryAt, tables
<1>2. History(clock, commits + 1, lastId, completeSince, account, sel, audit,
              syncs)
    BY <1>0, OthersKeepHistory
<1>3. History(clock, commits + 1, lastId, Later(completeSince, cutoff),
              account, sel, {r \in audit : r.at >= cutoff}, syncs')
  <2> DEFINE kept == syncs'
  <2>1. kept \in SUBSET syncs
    BY <1>1
  <2> HIDE DEF kept
  <2>2. History(clock, commits + 1, lastId, Later(completeSince, cutoff),
                account, sel, {r \in audit : r.at >= cutoff}, kept)
    BY <1>0, <1>2, <2>1, PurgesKeepHistory
  <2>. QED
    BY <2>2 DEF kept
<1>4. FeedType'
    BY <1>0, <1>1 DEF FeedType
<1>5. History(clock, commits, lastId, completeSince, account, sel, audit,
              syncs)'
    BY <1>1, <1>3
<1>. QED
    BY <1>4, <1>5, HistoryIsLogInv

\* What is recorded of an update is what it is at this moment.
LEMMA SyncRowFacts ==
    ASSUME LogInv, commits' = commits + 1, NEW modes \in SUBSET LogModes,
           NEW added \in SUBSET LogServices, NEW removed \in SUBSET LogServices
    PROVE  LET s == SyncRow(modes, added, removed)
           IN  /\ s \in UpdateRows
               /\ s.id = commits + 1 /\ s.at = clock /\ s.seq = lastId
               /\ s.of = IF account = NoAccount THEN 0 ELSE account.since
               /\ account # NoAccount =>
                      Matched(s, account.mode, sel[account.mode])
<1> DEFINE s == SyncRow(modes, added, removed)
<1>1. /\ clock \in Nat /\ commits \in Nat /\ lastId \in Nat
      /\ account # NoAccount => account.since \in Nat
    BY DEF LogInv, LogTypes, Typed, Accounts
<1>2. s = [id |-> commits + 1, at |-> clock,
           seq |-> lastId, modes |-> modes, added |-> added,
           removed |-> removed, live |-> TRUE,
           of |-> IF account = NoAccount THEN 0 ELSE account.since,
           matters |-> Matters(modes, added \cup removed)]
    BY DEF SyncRow
<1>3. Matters(modes, added \cup removed) \in SUBSET LogServices
    BY DEF Matters, Covered
<1> DEFINE owner == IF account = NoAccount THEN 0 ELSE account.since
<1> DEFINE matters == Matters(modes, added \cup removed)
<1>4. s \in UpdateRows
  <2>1. owner \in Nat /\ commits + 1 \in Nat
    BY <1>1
  <2>2. s = [id |-> commits + 1, at |-> clock, seq |-> lastId,
             modes |-> modes, added |-> added, removed |-> removed,
             live |-> TRUE, of |-> owner, matters |-> matters]
    BY <1>2
  <2>3. matters \in SUBSET LogServices
    BY <1>3
  <2> HIDE DEF s, owner, matters
  <2>. QED
    BY <1>1, <2>1, <2>2, <2>3 DEF UpdateRows
<1>5. account # NoAccount => Matched(s, account.mode, sel[account.mode])
    BY <1>2 DEF Matched, Matters
<1>. QED
    BY <1>2, <1>4, <1>5

LEMMA SyncKeepsLogInv ==
    ASSUME LogInv, NEW offers \in SUBSET LogServices, Sync(offers)
    PROVE  LogInv'
<1>1. /\ commits \in Nat /\ clock \in Nat /\ commits' = commits + 1
      /\ feed # NoFeed /\ feed \in FeedRows
      /\ feed' = [feed EXCEPT !.offers = offers, !.synced = TRUE]
      /\ UNCHANGED <<clock, lastId, completeSince, account, sel, audit>>
    BY DEF Sync, Commit, LogInv, LogTypes, Typed, FeedType
<1>2. FeedType'
    BY <1>1 DEF FeedType, FeedRows
<1>3. CASE syncs' = syncs
    BY <1>1, <1>2, <1>3, QuietSteps
<1>4. CASE syncs' # syncs
  <2> DEFINE s == SyncRow(Reaches, offers \ feed.offers, feed.offers \ offers)
  <2>1. syncs' = syncs \cup {s}
    BY <1>4 DEF Sync, RecordSync
  <2>2. /\ Reaches \in SUBSET LogModes
        /\ offers \ feed.offers \in SUBSET LogServices
        /\ feed.offers \ offers \in SUBSET LogServices
    BY <1>1 DEF Reaches, FeedRows
  <2>3. /\ s \in UpdateRows
        /\ s.id = commits + 1 /\ s.at = clock /\ s.seq = lastId
        /\ s.of = IF account = NoAccount THEN 0 ELSE account.since
        /\ account # NoAccount => Matched(s, account.mode, sel[account.mode])
    BY <1>1, <2>2, SyncRowFacts
  <2>4. History(clock, commits, lastId, completeSince, account, sel, audit,
                syncs)
    BY LogInvIsHistory
  <2> HIDE DEF s
  <2>5. History(clock, commits + 1, lastId, completeSince, account, sel,
                audit, syncs \cup {s})
    BY <2>3, <2>4, UpdateIsRecorded
  <2>6. History(clock, commits, lastId, completeSince, account, sel, audit,
                syncs)'
    BY <1>1, <2>1, <2>5
  <2>. QED
    BY <1>2, <2>6, HistoryIsLogInv
<1>. QED
    BY <1>3, <1>4

\* The pruned modes in order: each has its row.
LEMMA AllPrunedInOrder ==
    ASSUME NEW S, IsFiniteSet(S), S \subseteq Nat, NEW ms \in Ascending(S)
    PROVE  /\ DOMAIN ms = 1..Cardinality(S) /\ Cardinality(S) \in Nat
           /\ \A i \in DOMAIN ms : ms[i] \in S
           /\ \A m \in S : \E i \in DOMAIN ms : ms[i] = m
<1>1. Cardinality(S) \in Nat
    BY FS_CardinalityType
<1>2. /\ ms \in [1..Cardinality(S) -> S]
      /\ \A i, j \in DOMAIN ms : i < j => ms[i] < ms[j]
    BY DEF Ascending
<1>3. ms \in Injection(1..Cardinality(S), S)
  <2>. SUFFICES ASSUME NEW i \in 1..Cardinality(S), NEW j \in 1..Cardinality(S),
                       ms[i] = ms[j]
                PROVE  i = j
    BY <1>2 DEF Injection, IsInjective
  <2>1. ms[i] \in Nat /\ ms[j] \in Nat
    BY <1>2
  <2>2. ~(i < j) /\ ~(j < i)
    BY <1>2, <2>1
  <2>. QED
    BY <1>1, <2>2
<1>4. Cardinality(1..Cardinality(S)) = Cardinality(S)
    BY <1>1, FS_Interval
<1>5. ms \in Surjection(1..Cardinality(S), S)
    BY <1>3, <1>4, FS_Injection
<1>. QED
    BY <1>1, <1>2, <1>5 DEF Surjection

LEMMA DropKeepsLogInv ==
    ASSUME LogInv, DropFeed
    PROVE  LogInv'
<1>1. /\ commits \in Nat /\ clock \in Nat /\ lastId \in Nat
      /\ commits' = commits + 1 /\ feed # NoFeed /\ feed \in FeedRows
      /\ sel' = Nothing /\ feed' = NoFeed
      /\ sel \in [LogModes -> SUBSET LogKeys]
      /\ UNCHANGED <<clock, completeSince, account>>
    BY DEF DropFeed, Commit, LogInv, LogTypes, Typed, FeedType
<1>2. PICK ms \in Ascending(PrunedModes) :
        RecordDrop(PrunedRows(ms)) /\ Record(PrunedRows(ms))
    BY DEF DropFeed
<1> DEFINE rows == PrunedRows(ms)
<1>3. FeedType'
    BY <1>1 DEF FeedType
<1>4. History(clock, commits, lastId, completeSince, account, sel, audit,
              syncs)
    BY LogInvIsHistory
<1>5. History(clock, commits + 1, lastId, completeSince, account, sel, audit,
              syncs')
  <2> DEFINE new == SyncRow(Reaches, {}, feed.offers)
  <2> DEFINE newRow == [new EXCEPT !.seq = lastId]
  <2> DEFINE kept == IF feed.on /\ feed.offers # {} THEN syncs \cup {newRow}
                     ELSE syncs
  <2>1. syncs' = Outlived(kept)
    BY <1>2 DEF RecordDrop, RecordDropAt, Outlived
  <2>2. /\ Reaches \in SUBSET LogModes /\ {} \in SUBSET LogServices
        /\ feed.offers \in SUBSET LogServices
    BY <1>1 DEF Reaches, FeedRows
  <2>3. /\ new \in UpdateRows
        /\ new.id = commits + 1 /\ new.at = clock /\ new.seq = lastId
        /\ new.of = IF account = NoAccount THEN 0 ELSE account.since
        /\ account # NoAccount => Matched(new, account.mode, sel[account.mode])
    BY <1>1, <2>2, SyncRowFacts
  <2> HIDE DEF new
  <2>4. newRow = new
    BY <2>3 DEF UpdateRows
  <2>5. History(clock, commits + 1, lastId, completeSince, account, sel,
                audit, syncs \cup {new})
    BY <1>4, <2>3, UpdateIsRecorded
  <2>6. History(clock, commits + 1, lastId, completeSince, account, sel,
                audit, syncs)
    BY <1>1, <1>4, OthersKeepHistory
  <2>7. History(clock, commits + 1, lastId, completeSince, account, sel,
                audit, kept)
    <3>1. kept = IF feed.on /\ feed.offers # {} THEN syncs \cup {new}
                 ELSE syncs
      BY <2>4
    <3> HIDE DEF newRow, kept
    <3>. QED
      BY <2>5, <2>6, <3>1
  <2> HIDE DEF newRow, kept
  <2>8. History(clock, commits + 1, lastId, completeSince, account, sel,
                audit, Outlived(kept))
    BY <2>7, UpdatesOutliveTheFeed
  <2>. QED
    BY <2>1, <2>8
<1>6. /\ rows \in Seq(RawRows)
      /\ \A r \in Range(rows) :
            /\ r.kind = "selection" /\ r.mode \in LogModes
            /\ r.before \in {sel[r.mode], Big}
      /\ \A m \in LogModes : sel[m] # {} =>
            \E r \in Range(rows) : r.kind = "selection" /\ r.mode = m
  <2>1. IsFiniteSet(PrunedModes) /\ PrunedModes \subseteq Nat
    BY LogAssumption, FS_Subset DEF PrunedModes
  <2>2. /\ DOMAIN ms = 1..Cardinality(PrunedModes)
        /\ Cardinality(PrunedModes) \in Nat
        /\ \A i \in DOMAIN ms : ms[i] \in PrunedModes
        /\ \A m \in PrunedModes : \E i \in DOMAIN ms : ms[i] = m
    BY <2>1, AllPrunedInOrder
  <2>3. rows = [i \in DOMAIN ms |->
                    [kind |-> "selection", mode |-> ms[i],
                     before |-> Recorded(sel[ms[i]])]]
    BY DEF PrunedRows
  <2> HIDE DEF rows
  <2>4. ASSUME NEW i \in DOMAIN ms
        PROVE  /\ rows[i] \in RawRows
               /\ rows[i].kind = "selection" /\ rows[i].mode = ms[i]
               /\ rows[i].before \in {sel[ms[i]], Big}
               /\ ms[i] \in LogModes
    <3>1. ms[i] \in LogModes /\ sel[ms[i]] \in SUBSET LogKeys
      BY <1>1, <2>2 DEF PrunedModes
    <3>2. rows[i] = [kind |-> "selection", mode |-> ms[i],
                     before |-> Recorded(sel[ms[i]])]
      BY <2>3
    <3>. QED
      BY <3>1, <3>2, RecordedIs DEF RawRows
  <2>5. rows \in Seq(RawRows)
    <3>1. rows \in [1..Cardinality(PrunedModes) -> RawRows]
      BY <2>2, <2>3, <2>4
    <3>. QED
      BY <2>2, <3>1
  <2>6. ASSUME NEW r \in Range(rows)
        PROVE  /\ r.kind = "selection" /\ r.mode \in LogModes
               /\ r.before \in {sel[r.mode], Big}
    <3>1. PICK i \in DOMAIN ms : r = rows[i]
      BY <2>3 DEF Range
    <3>. QED
      BY <2>4, <3>1
  <2>7. ASSUME NEW m \in LogModes, sel[m] # {}
        PROVE  \E r \in Range(rows) : r.kind = "selection" /\ r.mode = m
    <3>1. PICK i \in DOMAIN ms : ms[i] = m
      BY <2>2, <2>7 DEF PrunedModes
    <3>2. rows[i] \in Range(rows)
      BY <2>3 DEF Range
    <3>. QED
      BY <2>4, <3>1, <3>2
  <2>. QED
    BY <2>5, <2>6, <2>7
<1>7. Nothing \in [LogModes -> SUBSET LogKeys] /\ \A m \in LogModes : Nothing[m] = {}
    BY DEF Nothing
<1>8. Tells(Range(rows), sel, Nothing, account.mode, account.mode)
  <2> HIDE DEF rows
  <2>. QED
    BY <1>6, <1>7 DEF Tells
<1> DEFINE n2 == commits + 1
<1> DEFINE newer == Stamped(rows, lastId, clock, n2)
<1>9. audit' = audit \cup newer /\ lastId' = lastId + Len(rows)
    BY <1>1, <1>2 DEF Record, Stamped
<1>10. account # NoAccount => /\ account \in Accounts /\ account.since < n2
                              /\ Tells(newer, sel, Nothing, account.mode,
                                       account.mode)
  <2>1. account # NoAccount => account \in Accounts /\ account.since < n2
    BY <1>1 DEF LogInv, LogTypes, Typed, Accounts
  <2>2. Tells(newer, sel, Nothing, account.mode, account.mode)
    <3> HIDE DEF rows, n2
    <3>. QED
      BY <1>8, StampedTells
  <2>. QED
    BY <2>1, <2>2
<1>11. History(clock, n2, lastId + Len(rows), completeSince, account, Nothing,
               audit \cup newer, syncs')
  <2> DEFINE updates == syncs'
  <2>1. n2 \in Nat \ {0} /\ n2 <= n2
    BY <1>1
  <2>2. History(clock, n2, lastId, completeSince, account, sel, audit, updates)
    BY <1>5
  <2> HIDE DEF rows, n2, updates
  <2>3. History(clock, n2, lastId + Len(rows), completeSince, account, Nothing,
                audit \cup newer, updates)
    BY <1>6, <1>7, <1>10, <2>1, <2>2, RowsAreRecorded
  <2>. QED
    BY <2>3 DEF updates
<1>12. History(clock, commits, lastId, completeSince, account, sel, audit,
               syncs)'
  <2> HIDE DEF rows, newer
  <2>. QED
    BY <1>1, <1>9, <1>11
<1>. QED
    BY <1>3, <1>12, HistoryIsLogInv

LEMMA InitIsLogInv == LogInit => LogInv
<1> SUFFICES ASSUME LogInit PROVE LogInv
    OBVIOUS
<1> DEFINE newRow == [kind |-> "selection", mode |-> LogFallback, before |-> {},
                   id |-> 2, at |-> 0, n |-> 1]
<1>1. /\ clock = 0 /\ commits = 1 /\ lastId = 2 /\ completeSince = 0
      /\ audit = {newRow} /\ syncs = {} /\ LogFallback \in LogModes
      /\ account = [mode |-> LogFallback, floor |-> 1, since |-> 0]
    BY LogAssumption DEF LogInit
<1>2. RowOk(newRow, 0, 1, 2)
    BY <1>1 DEF RowOk
<1>3. account \in Accounts /\ account.floor = 1 /\ account.since = 0
    BY <1>1 DEF Accounts
<1>4. sel \in [LogModes -> SUBSET LogKeys]
    BY DEF LogInit, Nothing, LogKeys
<1>5. FeedType
    BY DEF LogInit, FeedType, FeedRows
<1>6. LogTypes
    BY <1>1, <1>2, <1>3, <1>4 DEF LogTypes, Typed
<1>7. /\ RowsInOrder(audit) /\ PlacesInOrder(audit, syncs)
      /\ SyncsInOrder(syncs)
    BY <1>1 DEF RowsInOrder, PlacesInOrder, SyncsInOrder
<1>8. Owned(audit, syncs, account) /\ TruthInv
    BY <1>1, <1>3 DEF Owned, TruthInv, Truthful
<1>. QED
    BY <1>5, <1>6, <1>7, <1>8 DEF LogInv

LEMMA NextKeepsLogInv == LogInv /\ [LogNext]_logVars => LogInv'
<1> SUFFICES ASSUME LogInv, [LogNext]_logVars PROVE LogInv'
    OBVIOUS
<1> DEFINE aside == <<lastId, completeSince, account, sel, audit, syncs>>
<1>0. /\ clock \in Nat /\ commits \in Nat
      /\ feed # NoFeed => feed \in FeedRows
    BY DEF LogInv, LogTypes, Typed, FeedType
<1>1. CASE Tick
  <2>1. /\ UNCHANGED aside /\ clock' = clock + 1 /\ commits' = commits
        /\ FeedType'
    BY <1>1, <1>0 DEF Tick, tables, FeedType
  <2>. QED
    BY <1>0, <2>1, QuietSteps
<1>2. ASSUME NEW m \in LogModes, NEW k \in Pickable, NEW switch \in BOOLEAN,
             SaveSelection(m, {k}, switch)
      PROVE  LogInv'
    BY <1>2, SavesKeepLogInv
<1>3. ASSUME NEW m \in LogModes, SetMode(m)
      PROVE  LogInv'
    BY <1>3, SetModeKeepsLogInv
<1>4. ASSUME NEW m \in LogModes, CreateMode(m) \/ EnableMode(m)
      PROVE  LogInv'
  <2>1. /\ UNCHANGED aside /\ clock' = clock /\ commits' = commits + 1
        /\ FeedType'
    BY <1>4, <1>0 DEF CreateMode, EnableMode, Commit, FeedType
  <2>. QED
    BY <1>0, <2>1, QuietSteps
<1>5. ASSUME NEW m \in LogModes, DeleteMode(m)
      PROVE  LogInv'
    BY <1>5, DeleteModeKeepsLogInv
<1>6. ASSUME NEW m \in LogModes, CreateUser(m)
      PROVE  LogInv'
    BY <1>6, UsersKeepLogInv
<1>7. ASSUME NEW m \in LogModes, LinkMode(m)
      PROVE  LogInv'
  <2>1. /\ UNCHANGED aside /\ clock' = clock /\ commits' = commits + 1
        /\ feed # NoFeed
        /\ feed' = [feed EXCEPT !.in = IF m \in @ THEN @ \ {m} ELSE @ \cup {m}]
    BY <1>7 DEF LinkMode, Commit
  <2>2. FeedType'
    BY <1>0, <2>1 DEF FeedType, FeedRows
  <2>. QED
    BY <1>0, <2>1, <2>2, QuietSteps
<1>8. ASSUME NEW offers \in SUBSET LogServices, Sync(offers)
      PROVE  LogInv'
    BY <1>8, SyncKeepsLogInv
<1>9. CASE CreateFeed({m \in LogModes : logMode[m] # "none"})
  <2>1. /\ UNCHANGED aside /\ clock' = clock /\ commits' = commits + 1
        /\ FeedType'
    BY <1>9 DEF CreateFeed, Commit, FeedType, FeedRows
  <2>. QED
    BY <1>0, <2>1, QuietSteps
<1>10. CASE DropFeed
    BY <1>10, DropKeepsLogInv
<1>11. CASE EnableFeed
  <2>1. /\ UNCHANGED aside /\ clock' = clock /\ commits' = commits + 1
        /\ feed # NoFeed /\ feed' = [feed EXCEPT !.on = ~@]
    BY <1>11 DEF EnableFeed, Commit
  <2>2. FeedType'
    BY <1>0, <2>1 DEF FeedType, FeedRows
  <2>. QED
    BY <1>0, <2>1, <2>2, QuietSteps
<1>12. CASE DeleteUser
    BY <1>12, UsersKeepLogInv
<1>13. ASSUME NEW cutoff \in 1..MaxTime, Purge(cutoff)
       PROVE  LogInv'
    BY <1>13, PurgeKeepsLogInv
<1>14. CASE ReadLog \/ ReadNote \/ UNCHANGED logVars
  <2>1. /\ UNCHANGED aside /\ clock' = clock /\ commits' = commits
        /\ UNCHANGED feed
    BY <1>14 DEF ReadLog, ReadNote, logVars, tables
  <2>2. FeedType'
    BY <1>0, <2>1 DEF FeedType
  <2>. QED
    BY <1>0, <2>1, <2>2, QuietSteps
<1>15. CASE Ack
  <2>1. /\ UNCHANGED aside /\ clock' = clock /\ commits' = commits + 1
        /\ FeedType'
    BY <1>15, <1>0 DEF Ack, Commit, FeedType
  <2>. QED
    BY <1>0, <2>1, QuietSteps
<1>. QED
    BY <1>1, <1>2, <1>3, <1>4, <1>5, <1>6, <1>7, <1>8, <1>9, <1>10, <1>11,
       <1>12, <1>13, <1>14, <1>15 DEF LogNext

\* Whatever users, administrators, feeds and purges have done, the change log
\* says of every update exactly what it was to the user when it happened, or,
\* where its rows do not reach, nothing; in the order of the commits; and
\* nothing of whoever had the id before (user_change_log.go, UserChangeLog).
THEOREM LogStaysTrue == LogSpec => []LogIsTrue
<1>1. LogSpec => []LogInv
    BY InitIsLogInv, NextKeepsLogInv, PTL DEF LogSpec
<1>. QED
    BY <1>1, LogTells, PTL

----------------------------------------------------------------------------
(* ChangeLog: the note about new services *)

\* What has been acknowledged, and what the user is looking at, was shown.
SeenInv ==
    /\ seen \in [LogModes -> Nat] /\ noted \in [LogModes -> Nat]
    /\ AckedWasShown
    /\ note # NoNote => /\ note.mode \in LogModes /\ note.through \in Nat
                        /\ note.through <= noted[note.mode]

\* FeedNewServices: the newest of the news is a number of a transaction.
LEMMA NewsAreNumbered ==
    ASSUME LogInv, account # NoAccount, News(account.mode) # {}
    PROVE  account.mode \in LogModes /\ Max(News(account.mode)) \in Nat
<1> DEFINE T == News(account.mode)
<1>1. T \in SUBSET (1..commits) /\ T # {} /\ commits \in Nat
    BY DEF News, LogInv, LogTypes, Typed, SyncOk
<1>2. \E m \in T : \A t \in T : t <= m
  <2> HIDE DEF T
  <2>. QED
    BY <1>1, LargestOf
<1>3. Max(T) \in T
  <2>1. \E m \in T : \A t \in T : m >= t
    <3> HIDE DEF T
    <3>1. \A t \in T : t \in Int
      BY <1>1
    <3>. QED
      BY <1>2, <3>1
  <2> HIDE DEF T
  <2>. QED
    BY <2>1 DEF Max
<1>. QED
    BY <1>1, <1>3 DEF LogInv, LogTypes, Typed, Accounts

LEMMA NextKeepsSeenInv ==
    LogInv /\ SeenInv /\ [LogNext]_logVars => SeenInv'
<1> SUFFICES ASSUME LogInv, SeenInv, [LogNext]_logVars PROVE SeenInv'
    OBVIOUS
<1>0. /\ seen \in [LogModes -> Nat] /\ noted \in [LogModes -> Nat]
      /\ \A m \in LogModes : seen[m] <= noted[m]
      /\ note # NoNote => /\ note.mode \in LogModes /\ note.through \in Nat
                          /\ note.through <= noted[note.mode]
    BY DEF SeenInv, AckedWasShown
<1>1. CASE UNCHANGED <<seen, note, noted>>
    BY <1>0, <1>1 DEF SeenInv, AckedWasShown
<1>2. ASSUME NEW m \in LogModes, DeleteMode(m)
      PROVE  SeenInv'
  <2>1. /\ seen' = [seen EXCEPT ![m] = 0] /\ noted' = [noted EXCEPT ![m] = 0]
        /\ note' = IF note # NoNote /\ note.mode = m THEN NoNote ELSE note
    BY <1>2 DEF DeleteMode
  <2>2. /\ seen' \in [LogModes -> Nat] /\ noted' \in [LogModes -> Nat]
        /\ \A o \in LogModes : seen'[o] <= noted'[o]
    BY <1>0, <2>1
  <2>3. note' # NoNote => /\ note'.mode \in LogModes /\ note'.through \in Nat
                          /\ note'.through <= noted'[note'.mode]
    BY <1>0, <2>1
  <2>. QED
    BY <2>2, <2>3 DEF SeenInv, AckedWasShown
<1>3. CASE DeleteUser
  <2>1. note' = NoNote /\ seen' = Zero /\ noted' = Zero
    BY <1>3 DEF DeleteUser
  <2>. QED
    BY <2>1 DEF SeenInv, AckedWasShown, Zero
<1>4. CASE ReadNote
  <2> DEFINE m == account.mode
  <2> DEFINE newest == Max(News(m))
  <2>1. /\ note' = [mode |-> m, through |-> newest] /\ seen' = seen
        /\ noted' = [noted EXCEPT ![m] = Later(@, note'.through)]
    BY <1>4 DEF ReadNote, tables
  <2>2. m \in LogModes /\ newest \in Nat
    BY <1>4, NewsAreNumbered DEF ReadNote
  <2> HIDE DEF m, newest
  <2>3. /\ noted' \in [LogModes -> Nat] /\ newest <= noted'[m]
        /\ \A o \in LogModes : noted[o] <= noted'[o]
    <3>1. noted' = [noted EXCEPT ![m] = Later(noted[m], newest)]
      BY <2>1
    <3>2. /\ noted[m] \in Nat /\ Later(noted[m], newest) \in Nat
          /\ newest <= Later(noted[m], newest)
          /\ noted[m] <= Later(noted[m], newest)
      BY <1>0, <2>2 DEF Later
    <3>. QED
      BY <1>0, <2>2, <3>1, <3>2
  <2>4. \A o \in LogModes : seen'[o] <= noted'[o]
    <3>. SUFFICES ASSUME NEW o \in LogModes PROVE seen'[o] <= noted'[o]
      OBVIOUS
    <3>1. /\ seen[o] \in Nat /\ noted[o] \in Nat /\ noted'[o] \in Nat
          /\ seen[o] <= noted[o] /\ noted[o] <= noted'[o]
      BY <1>0, <2>3
    <3>. QED
      BY <2>1, <3>1
  <2>. QED
    BY <1>0, <2>1, <2>2, <2>3, <2>4 DEF SeenInv, AckedWasShown
<1>5. CASE Ack
  <2>1. /\ note # NoNote /\ note' = NoNote /\ noted' = noted
        /\ seen' = [seen EXCEPT ![note.mode] =
                        Later(seen[note.mode], note.through)]
    BY <1>5 DEF Ack, AckedMode
  <2>2. /\ Later(seen[note.mode], note.through) \in Nat
        /\ Later(seen[note.mode], note.through) <= noted[note.mode]
    BY <1>0, <2>1 DEF Later
  <2>. QED
    BY <1>0, <2>1, <2>2 DEF SeenInv, AckedWasShown
<1>. QED
    BY <1>1, <1>2, <1>3, <1>4, <1>5
       DEF LogNext, logVars, tables, Tick, SaveSelection, SetMode, CreateMode,
           EnableMode, CreateUser, LinkMode, Sync, CreateFeed, DropFeed,
           EnableFeed, Purge, ReadLog

\* No note hides an update in a mode in which it was not shown, whatever notes
\* were read and acknowledged, in whatever order, and whoever had the ids
\* before (feed_sync_changes.go, AckUserFeedChanges).
THEOREM AcksAreOfShown == LogSpec => []AckedWasShown
<1>1. LogInit => SeenInv
    BY DEF LogInit, SeenInv, AckedWasShown, Zero
<1>2. LogSpec => []LogInv
    BY InitIsLogInv, NextKeepsLogInv, PTL DEF LogSpec
<1>3. SeenInv => AckedWasShown
    BY DEF SeenInv
<1>. QED
    BY <1>1, <1>2, <1>3, NextKeepsSeenInv, PTL DEF LogSpec

=============================================================================
