-------------------------- MODULE BgpManager_proofs --------------------------
(***************************************************************************)
(* Proofs about BgpManager, for every set of addresses, passwords, routes, *)
(* rows, settings and requests, and every bound.                           *)
(***************************************************************************)
EXTENDS BgpManager, FiniteSetTheorems, SequenceTheorems, TLAPS

----------------------------------------------------------------------------
(* Sequences of configurations *)

\* A nonempty set of positions of a sequence has a last one.
LEMMA LastPosition ==
    ASSUME NEW n \in Nat, NEW T \in SUBSET (1..n), T # {}
    PROVE  \E m \in T : \A t \in T : t <= m
<1> DEFINE Above(t) == {u \in T : t < u}
<1> DEFINE Fam == {Above(t) : t \in T}
<1>1. IsFiniteSet(T)
  <2>1. IsFiniteSet(1..n)
    BY FS_Interval
  <2>. QED
    BY <2>1, FS_Subset
<1>2. Fam \subseteq FiniteSubsetsOf(T) /\ Fam # {}
  <2>1. \A t \in T : IsFiniteSet(Above(t)) /\ Above(t) \subseteq T
    BY <1>1, FS_Subset
  <2>. QED
    BY <2>1 DEF FiniteSubsetsOf
<1>3. PICK X \in Fam : \A Y \in Fam : ~(<<Y, X>> \in StrictSubsetOrdering(T))
  <2> HIDE DEF Fam
  <2>. QED
    BY <1>2, FS_StrictSubsetOrderingWellFounded, WFMin
<1>4. PICK m \in T : X = Above(m)
    OBVIOUS
<1>5. SUFFICES ASSUME NEW u \in T, m < u PROVE FALSE
    BY <1>4
<1>6. Above(u) \subseteq X /\ u \in X /\ u \notin Above(u)
  <2>1. T \subseteq Int
    OBVIOUS
  <2>2. \A v \in T : u < v => m < v
    BY <1>5, <2>1
  <2>3. ~(u < u)
    BY <2>1
  <2>4. Above(u) \subseteq Above(m) /\ u \in Above(m) /\ u \notin Above(u)
    BY <1>5, <2>2, <2>3
  <2>. QED
    BY <1>4, <2>4
<1>7. <<Above(u), X>> \in StrictSubsetOrdering(T)
    BY <1>6, <1>4 DEF StrictSubsetOrdering
<1>. QED
    BY <1>3, <1>7

\* A function on 1..n is a sequence of length n.
LEMMA FunctionIsSeq ==
    ASSUME NEW S, NEW n \in Nat, NEW f \in [1..n -> S]
    PROVE  f \in Seq(S) /\ Len(f) = n /\ DOMAIN f = 1..n
<1>1. f \in Seq(S)
    BY SeqDef
<1>. QED
    BY <1>1, LenProperties

\* Appending, replacing and removing a configuration.
LEMMA AppendConfig ==
    ASSUME NEW S, NEW s \in Seq(S), NEW c \in S
    PROVE  /\ Append(s, c) \in Seq(S)
           /\ DOMAIN Append(s, c) = DOMAIN s \cup {Len(s) + 1}
           /\ Len(s) + 1 \notin DOMAIN s
           /\ \A i \in DOMAIN s : Append(s, c)[i] = s[i]
           /\ Append(s, c)[Len(s) + 1] = c
    BY AppendProperties, LenProperties

LEMMA ReplaceConfig ==
    ASSUME NEW S, NEW s \in Seq(S), NEW i \in DOMAIN s, NEW c \in S
    PROVE  /\ [s EXCEPT ![i] = c] \in Seq(S)
           /\ DOMAIN [s EXCEPT ![i] = c] = DOMAIN s
           /\ [s EXCEPT ![i] = c][i] = c
           /\ \A j \in DOMAIN s : j # i => [s EXCEPT ![i] = c][j] = s[j]
    BY ExceptSeq, LenProperties

LEMMA RemoveConfig ==
    ASSUME configs \in Seq(Config), NEW i \in DOMAIN configs
    PROVE  /\ RemovedAt(i) \in Seq(Config)
           /\ \A j \in DOMAIN RemovedAt(i) :
                 \E m \in DOMAIN configs : m # i /\ RemovedAt(i)[j] = configs[m]
           /\ \A m \in DOMAIN configs : m # i =>
                 \E j \in DOMAIN RemovedAt(i) : RemovedAt(i)[j] = configs[m]
           /\ \A j, l \in DOMAIN RemovedAt(i) : j # l =>
                 \E m, o \in DOMAIN configs :
                    /\ m # o
                    /\ RemovedAt(i)[j] = configs[m]
                    /\ RemovedAt(i)[l] = configs[o]
<1> DEFINE n == Len(configs)
<1> DEFINE at(j) == IF j < i THEN j ELSE j + 1
<1>1. n \in Nat /\ DOMAIN configs = 1..n /\ i \in 1..n
    BY LenProperties
<1>2. n - 1 \in Nat /\ \A j \in 1..(n - 1) : at(j) \in 1..n /\ at(j) # i
    BY <1>1
<1>3. RemovedAt(i) = [j \in 1..(n - 1) |-> configs[at(j)]]
    BY DEF RemovedAt
<1>4. RemovedAt(i) \in [1..(n - 1) -> Config]
    BY <1>1, <1>2, <1>3, ElementOfSeq
<1>5. RemovedAt(i) \in Seq(Config) /\ DOMAIN RemovedAt(i) = 1..(n - 1)
    BY <1>2, <1>4, FunctionIsSeq
<1>6. \A m \in 1..n : m # i => \E j \in 1..(n - 1) : at(j) = m
  <2> SUFFICES ASSUME NEW m \in 1..n, m # i
               PROVE  \E j \in 1..(n - 1) : at(j) = m
    OBVIOUS
  <2>1. CASE m < i
    BY <1>1, <2>1
  <2>2. CASE i < m
    <3>1. m - 1 \in 1..(n - 1) /\ at(m - 1) = m
      BY <1>1, <2>2
    <3>. QED
      BY <3>1
  <2>. QED
    BY <1>1, <2>1, <2>2
<1>7. \A j, l \in 1..(n - 1) : j # l => at(j) # at(l)
    BY <1>1
<1> HIDE DEF n, at
<1>8. \A j \in 1..(n - 1) : RemovedAt(i)[j] = configs[at(j)]
    BY <1>3
<1>9. \A m \in DOMAIN configs : m # i =>
          \E j \in DOMAIN RemovedAt(i) : RemovedAt(i)[j] = configs[m]
    BY <1>1, <1>5, <1>6, <1>8
<1>10. \A j, l \in DOMAIN RemovedAt(i) : j # l =>
          \E m, o \in DOMAIN configs :
              /\ m # o
              /\ RemovedAt(i)[j] = configs[m]
              /\ RemovedAt(i)[l] = configs[o]
    BY <1>1, <1>2, <1>5, <1>7, <1>8
<1>. QED
    BY <1>1, <1>2, <1>5, <1>8, <1>9, <1>10

----------------------------------------------------------------------------
(* Speaker.SetPeers *)

LEMMA BuildPeerConfigsFacts ==
    ASSUME NEW cfgs \in Seq(Config), NEW s \in Settings
    PROVE  /\ BuildPeerConfigs(cfgs, s) \in Seq(PeerConfigs)
           /\ DOMAIN BuildPeerConfigs(cfgs, s) = DOMAIN cfgs
           /\ \A i \in DOMAIN cfgs :
                 /\ BuildPeerConfigs(cfgs, s)[i] = PeerConfig(cfgs[i], s)
                 /\ BuildPeerConfigs(cfgs, s)[i].key = Key(cfgs[i].row)
                 /\ BuildPeerConfigs(cfgs, s)[i].pw = cfgs[i].row.pw
<1>1. DOMAIN cfgs = 1..Len(cfgs) /\ Len(cfgs) \in Nat
    BY LenProperties
<1>2. \A i \in DOMAIN cfgs : PeerConfig(cfgs[i], s) \in PeerConfigs
  <2> SUFFICES ASSUME NEW i \in DOMAIN cfgs
               PROVE  PeerConfig(cfgs[i], s) \in PeerConfigs
    OBVIOUS
  <2>1. cfgs[i] \in Config
    BY <1>1, ElementOfSeq
  <2>2. s \in [dial : BOOLEAN, v6 : BOOLEAN]
    BY ManagerAssumption
  <2>. QED
    BY <2>1, <2>2 DEF PeerConfig, PeerConfigs, Config, Row, Key, Keys
<1>3. BuildPeerConfigs(cfgs, s) \in [1..Len(cfgs) -> PeerConfigs]
    BY <1>1, <1>2 DEF BuildPeerConfigs
<1>4. BuildPeerConfigs(cfgs, s) \in Seq(PeerConfigs)
    BY <1>1, <1>3, FunctionIsSeq
<1>. QED
    BY <1>1, <1>4 DEF BuildPeerConfigs, PeerConfig

\* One of the configurations with a key is the last one ...
LEMMA LastWithFacts ==
    ASSUME NEW new \in Seq(PeerConfigs), NEW i \in DOMAIN new
    PROVE  \E j \in DOMAIN new :
              new[j].key = new[i].key /\ LastWith(new, new[i].key) = new[j]
<1> DEFINE T == {j \in DOMAIN new : new[j].key = new[i].key}
<1>1. Len(new) \in Nat /\ DOMAIN new = 1..Len(new)
    BY LenProperties
<1>2. \E m \in T : \A t \in T : t <= m
  <2>1. T \subseteq 1..Len(new) /\ T # {}
    BY <1>1
  <2> HIDE DEF T
  <2>. QED
    BY <1>1, <2>1, LastPosition
<1>. QED
    BY <1>2 DEF LastWith

\* ... and the only one if there is only one.
LEMMA LastWithUnique ==
    ASSUME NEW new \in Seq(PeerConfigs), NEW i \in DOMAIN new,
           \A j \in DOMAIN new : new[j].key = new[i].key => j = i
    PROVE  LastWith(new, new[i].key) = new[i]
    BY LastWithFacts

LEMMA PeersSetType ==
    ASSUME NEW old, IsPartial(old, Keys, Peers), NEW new \in Seq(PeerConfigs)
    PROVE  IsPartial(PeersSet(old, new), Keys, Peers)
<1>1. \A i \in DOMAIN new : new[i] \in PeerConfigs
    BY LenProperties, ElementOfSeq
<1>2. \A k \in {new[i].key : i \in DOMAIN new} :
          k \in Keys /\ LastWith(new, k) \in PeerConfigs
  <2> SUFFICES ASSUME NEW i \in DOMAIN new
               PROVE  new[i].key \in Keys /\ LastWith(new, new[i].key) \in PeerConfigs
    OBVIOUS
  <2>1. new[i].key \in Keys
    BY <1>1 DEF PeerConfigs
  <2>2. PICK j \in DOMAIN new : LastWith(new, new[i].key) = new[j]
    BY LastWithFacts
  <2>. QED
    BY <1>1, <2>1, <2>2
<1>3. \A k \in {new[i].key : i \in DOMAIN new} : PeersSet(old, new)[k] \in Peers
    BY <1>2 DEF PeersSet, IsPartial, Peers, PeerConfigs
<1>. QED
    BY <1>2, <1>3 DEF PeersSet, IsPartial

\* A peer with one configuration gets what that one says ...
LEMMA PeersSetMakes ==
    ASSUME NEW old, NEW new \in Seq(PeerConfigs), NEW i \in DOMAIN new,
           \A j \in DOMAIN new : new[j].key = new[i].key => j = i
    PROVE  /\ new[i].key \in DOMAIN PeersSet(old, new)
           /\ PeersSet(old, new)[new[i].key].pw = new[i].pw
           /\ PeersSet(old, new)[new[i].key].dials = new[i].dials
    BY LastWithUnique DEF PeersSet, Unchanged

\* ... and goes on as before if it had that already.
LEMMA PeersSetKeeps ==
    ASSUME NEW old, NEW new \in Seq(PeerConfigs), NEW i \in DOMAIN new,
           \A j \in DOMAIN new : new[j].key = new[i].key => j = i,
           new[i].key \in DOMAIN old,
           old[new[i].key].pw = new[i].pw,
           old[new[i].key].dials = new[i].dials
    PROVE  /\ new[i].key \in DOMAIN PeersSet(old, new)
           /\ PeersSet(old, new)[new[i].key] = old[new[i].key]
    BY LastWithUnique DEF PeersSet, Unchanged

Secrets == Passwords \cup {NoPw}

\* Applying keys never opens an address, and closes those that take a key.
LEMMA KeysAppliedFacts ==
    ASSUME NEW old \in [Addrs -> Secrets], NEW new \in Seq(PeerConfigs),
           NEW n \in 0..Len(new)
    PROVE  /\ KeysApplied(old, new, n) \in [Addrs -> Secrets]
           /\ \A a \in Addrs : old[a] # NoPw => KeysApplied(old, new, n)[a] # NoPw
           /\ \A i \in 1..n : Keyed(new[i]) =>
                 KeysApplied(old, new, n)[new[i].key[1]] # NoPw
<1> DEFINE givers(a) == {i \in 1..n : Keyed(new[i]) /\ new[i].key[1] = a}
<1>1. \A i \in 1..n : new[i] \in PeerConfigs
  <2>1. Len(new) \in Nat
    BY LenProperties
  <2>. QED
    BY <2>1, ElementOfSeq
<1>2. \A i \in 1..n : new[i].key[1] \in Addrs /\ new[i].pw \in Secrets
    BY <1>1 DEF PeerConfigs, Keys, Secrets
<1>3. \A a : givers(a) # {} =>
          (CHOOSE i \in givers(a) : TRUE) \in givers(a)
    OBVIOUS
<1>4. \A a \in Addrs : KeysApplied(old, new, n)[a] =
          IF givers(a) = {} THEN old[a]
          ELSE new[CHOOSE i \in givers(a) : TRUE].pw
    BY DEF KeysApplied
<1>5. KeysApplied(old, new, n) = [a \in Addrs |-> KeysApplied(old, new, n)[a]]
    BY DEF KeysApplied
<1>6. \A a \in Addrs : givers(a) # {} =>
          /\ KeysApplied(old, new, n)[a] \in Secrets
          /\ KeysApplied(old, new, n)[a] # NoPw
    BY <1>2, <1>3, <1>4 DEF Keyed
<1>7. \A i \in 1..n : Keyed(new[i]) => givers(new[i].key[1]) # {}
    OBVIOUS
<1> HIDE DEF givers
<1>. QED
    BY <1>2, <1>4, <1>5, <1>6, <1>7

\* Clearing keys leaves the addresses of the new configurations alone.
LEMMA KeysClearedFacts ==
    ASSUME NEW given \in [Addrs -> Secrets], NEW old, NEW new
    PROVE  /\ KeysCleared(given, old, new) \in [Addrs -> Secrets]
           /\ \A a \in Addrs \cap Survivors(new) :
                 KeysCleared(given, old, new)[a] = given[a]
    BY DEF KeysCleared, Secrets

SpeakerTypes ==
    /\ IsPartial(peers, Keys, Peers)
    /\ applied \in Seq(PeerConfigs)
    /\ md5 \in [Addrs -> Secrets]

\* A peer with a password has its address closed by the keys just applied.
LEMMA PeersAreKeyed ==
    ASSUME NEW old, IsPartial(old, Keys, Peers), NEW new \in Seq(PeerConfigs),
           NEW keys \in [Addrs -> Secrets],
           NEW k \in DOMAIN PeersSet(old, new),
           PeersSet(old, new)[k].pw # NoPw, k[1] \notin Dynamic
    PROVE  /\ k[1] \in Addrs \cap Survivors(new)
           /\ KeysApplied(keys, new, Len(new))[k[1]] # NoPw
<1>1. PICK i \in DOMAIN new : new[i].key = k /\ LastWith(new, k) = new[i]
  <2>1. PICK i \in DOMAIN new : new[i].key = k
    BY DEF PeersSet
  <2>. QED
    BY <2>1, LastWithFacts
<1>2. PeersSet(old, new)[k].pw = new[i].pw
    BY <1>1 DEF PeersSet, Unchanged
<1>3. Len(new) \in 0..Len(new) /\ i \in 1..Len(new) /\ new[i] \in PeerConfigs
    BY LenProperties, ElementOfSeq
<1>4. k[1] \in Addrs
    BY <1>1, <1>3 DEF PeerConfigs, Keys
<1>5. Keyed(new[i])
    BY <1>1, <1>2 DEF Keyed
<1>. QED
    BY <1>1, <1>3, <1>4, <1>5, KeysAppliedFacts DEF Survivors

LEMMA SetPeersSpeaker ==
    ASSUME SpeakerTypes, snap \in Settings, NEW cfgs \in Seq(Config),
           SetPeers(cfgs)
    PROVE  SpeakerTypes' /\ PasswordEnforced'
<1> DEFINE new == BuildPeerConfigs(cfgs, snap)
<1> DEFINE given == KeysApplied(md5, new, Len(new))
<1>1. new \in Seq(PeerConfigs) /\ Len(new) \in 0..Len(new)
    BY BuildPeerConfigsFacts, LenProperties
<1>2. /\ peers' = PeersSet(peers, new)
      /\ applied' = new
      /\ md5' = KeysCleared(given, applied, new)
    BY DEF SetPeers
<1> HIDE DEF new
<1>3. given \in [Addrs -> Secrets]
    BY <1>1, KeysAppliedFacts DEF SpeakerTypes
<1>4. SpeakerTypes'
    BY <1>1, <1>2, <1>3, PeersSetType, KeysClearedFacts DEF SpeakerTypes
<1>5. PasswordEnforced'
  <2> SUFFICES ASSUME NEW k \in DOMAIN peers', peers'[k].pw # NoPw,
                      k[1] \notin Dynamic
               PROVE  md5'[k[1]] # NoPw
    BY DEF PasswordEnforced
  <2>. QED
    BY <1>1, <1>2, <1>3, PeersAreKeyed, KeysClearedFacts DEF SpeakerTypes
<1>. QED
    BY <1>4, <1>5

LEMMA SetPeersFailsSpeaker ==
    ASSUME SpeakerTypes, snap \in Settings, NEW cfgs \in Seq(Config),
           SetPeersFails(cfgs)
    PROVE  SpeakerTypes' /\ (PasswordEnforced => PasswordEnforced')
<1> DEFINE new == BuildPeerConfigs(cfgs, snap)
<1>1. new \in Seq(PeerConfigs) /\ Len(new) \in Nat
    BY BuildPeerConfigsFacts, LenProperties
<1>2. UNCHANGED <<peers, applied>>
    BY DEF SetPeersFails
<1>3. UNCHANGED md5 \/ \E n \in 0..(Len(new) - 1) : md5' = KeysApplied(md5, new, n)
    BY DEF SetPeersFails
<1> HIDE DEF new
<1>4. /\ md5' \in [Addrs -> Secrets]
      /\ \A a \in Addrs : md5[a] # NoPw => md5'[a] # NoPw
  <2>1. CASE UNCHANGED md5
    BY <2>1 DEF SpeakerTypes
  <2>2. CASE \E n \in 0..(Len(new) - 1) : md5' = KeysApplied(md5, new, n)
    <3>1. PICK n \in 0..(Len(new) - 1) : md5' = KeysApplied(md5, new, n)
      BY <2>2
    <3>2. n \in 0..Len(new)
      BY <1>1
    <3>. QED
      BY <1>1, <3>1, <3>2, KeysAppliedFacts DEF SpeakerTypes
  <2>. QED
    BY <1>3, <2>1, <2>2
<1>5. \A k \in DOMAIN peers : k[1] \in Addrs
    BY DEF SpeakerTypes, IsPartial, Keys
<1>. QED
    BY <1>2, <1>4, <1>5 DEF SpeakerTypes, PasswordEnforced

----------------------------------------------------------------------------
(* Types *)

LEMMA PartialFacts ==
    ASSUME NEW f, NEW D, NEW R, IsPartial(f, D, R), NEW k
    PROVE  /\ IsPartial(Without(f, k), D, R)
           /\ \A v \in R : k \in D => IsPartial(With(f, k, v), D, R)
           /\ IsPartial(Empty, D, R)
    BY DEF IsPartial, Without, With, Empty

LEMMA TypeInit == Init => TypeOK
<1> SUFFICES ASSUME Init PROVE TypeOK
    OBVIOUS
<1> USE ManagerAssumption
<1>1. IsPartial(Empty, Keys, SUBSET Routes) /\ IsPartial(Empty, Keys, Peers)
    BY DEF IsPartial, Empty
<1>2. <<>> \in Seq(Config) /\ <<>> \in Seq(PeerConfigs)
    OBVIOUS
<1>3. NoKeys \in [Addrs -> Passwords \cup {NoPw}]
    BY DEF NoKeys
<1>4. NoLoop \in Loops
    BY DEF NoLoop, Loops
<1>5. /\ pc \in [Procs -> Stages]
      /\ \A h \in Procs : pc[h] \in {"loop", "loaded", "startloop"} <=> holder = h
    BY DEF Init, Stages, Idle, Procs
<1>6. /\ store \in [Ids -> Row \cup {NoRow}]
      /\ want \in [Ids -> SUBSET Routes]
      /\ req \in [Procs -> Reqs \cup {NoRow}]
    BY DEF Init
<1>7. faults \in 0..MaxFaults /\ served \in 0..MaxRequests
    BY DEF Init
<1>8. /\ setting \in Settings /\ snap \in Settings
      /\ pending \in BOOLEAN /\ running \in BOOLEAN
      /\ holder \in Procs \cup {Nobody} /\ shared \subseteq Keys
    BY DEF Init
<1>9. /\ configs = <<>> /\ applied = <<>> /\ cache = Empty /\ peers = Empty
      /\ md5 = NoKeys /\ loop = NoLoop
    BY DEF Init
<1>. QED
    BY <1>1, <1>2, <1>3, <1>4, <1>5, <1>6, <1>7, <1>8, <1>9 DEF TypeOK

\* What a step of a request does to the goroutines.
Mutex(h) == pc[h] \in {"loop", "loaded", "startloop"}
CallTypes ==
    /\ holder \in Procs \cup {Nobody}
    /\ pc \in [Procs -> Stages]
    /\ \A h \in Procs : Mutex(h) <=> holder = h
LEMMA GotoTypes ==
    ASSUME CallTypes, NEW h \in Procs, NEW stage \in Stages, Goto(h, stage)
    PROVE  /\ ~Mutex(h) /\ UNCHANGED holder
              /\ stage \notin {"loop", "loaded", "startloop"} => CallTypes'
           /\ holder = Nobody /\ holder' = h
              /\ stage \in {"loop", "loaded", "startloop"} => CallTypes'
           /\ Mutex(h) /\ holder' = Nobody
              /\ stage \notin {"loop", "loaded", "startloop"} => CallTypes'
           /\ Mutex(h) /\ UNCHANGED holder
              /\ stage \in {"loop", "loaded", "startloop"} => CallTypes'
<1>1. pc' \in [Procs -> Stages] /\ pc'[h] = stage /\ \A g \in Procs \ {h} : pc'[g] = pc[g]
    BY DEF Goto, CallTypes
<1>2. Nobody \notin Procs
    BY ManagerAssumption
<1>. QED
    BY <1>1, <1>2 DEF CallTypes, Mutex

OutsideTypes ==
    /\ store \in [Ids -> Row \cup {NoRow}]
    /\ want \in [Ids -> SUBSET Routes]
    /\ setting \in Settings
    /\ pending \in BOOLEAN
ManagerTypes ==
    /\ running \in BOOLEAN
    /\ snap \in Settings
    /\ configs \in Seq(Config)
    /\ IsPartial(cache, Keys, SUBSET Routes)
    /\ shared \subseteq Keys
CountTypes == faults \in 0..MaxFaults /\ served \in 0..MaxRequests
WorkTypes == loop \in Loops /\ req \in [Procs -> Reqs \cup {NoRow}]

LEMMA TypeParts ==
    TypeOK <=> /\ OutsideTypes /\ ManagerTypes /\ SpeakerTypes
               /\ CallTypes /\ CountTypes /\ WorkTypes
    BY DEF TypeOK, OutsideTypes, ManagerTypes, SpeakerTypes, CallTypes,
           CountTypes, WorkTypes, Mutex, Secrets

LEMMA TypePartsNext ==
    TypeOK' <=> /\ OutsideTypes' /\ ManagerTypes' /\ SpeakerTypes'
                /\ CallTypes' /\ CountTypes' /\ WorkTypes'
    BY DEF TypeOK, OutsideTypes, ManagerTypes, SpeakerTypes, CallTypes,
           CountTypes, WorkTypes, Mutex, Secrets

LEMMA FaultTypes == CountTypes /\ (Fault \/ NoFault) /\ UNCHANGED served => CountTypes'
    BY ManagerAssumption DEF CountTypes, Fault, NoFault

\* What a request is about is known while it is under way, and the row is
\* one when it is needed.
NeedsRow(h) ==
    \/ pc[h] \in {"add", "read", "update"}
    \/ pc[h] = "commit" /\ req[h].op \in {"create", "update"}
ReqOk(h) ==
    pc[h] # Idle => req[h] \in Reqs /\ (NeedsRow(h) => req[h].row \in Row)
ReqInv == \A h \in Requests : ReqOk(h)
TypeInv == TypeOK /\ ReqInv

\* A goroutine that goes from one stage to another, outside Manager.mu.
LEMMA StageTypes ==
    ASSUME CallTypes, ReqInv, NEW h \in Procs, NEW stage \in Stages,
           Goto(h, stage), UNCHANGED <<holder, req>>, ~Mutex(h), pc[h] # Idle,
           stage \notin {"loop", "loaded", "startloop", "commit"},
           h \in Requests /\ stage \in {"add", "read", "update"} =>
               req[h].row \in Row
    PROVE  CallTypes' /\ ReqInv'
<1>1. CallTypes'
    BY GotoTypes
<1>2. pc'[h] = stage /\ \A g \in Procs \ {h} : pc'[g] = pc[g]
    BY DEF Goto, CallTypes
<1>3. ReqInv'
  <2> SUFFICES ASSUME NEW g \in Requests PROVE ReqOk(g)'
    BY DEF ReqInv
  <2>1. CASE g = h
    BY <1>2, <2>1 DEF ReqInv, ReqOk, NeedsRow
  <2>2. CASE g # h
    BY <1>2, <2>2 DEF ReqInv, ReqOk, NeedsRow, Procs
  <2>. QED
    BY <2>1, <2>2
<1>. QED
    BY <1>1, <1>3

\* The same, for one that takes, keeps or gives back Manager.mu.
LEMMA MutexTypes ==
    ASSUME CallTypes, ReqInv, NEW h \in Procs, NEW stage \in Stages,
           Goto(h, stage), UNCHANGED req, pc[h] # Idle,
           stage \notin {"add", "read", "update", "commit"},
           \/ /\ holder = Nobody /\ holder' = h
              /\ stage \in {"loop", "loaded", "startloop"}
           \/ /\ Mutex(h) /\ holder' = Nobody
              /\ stage \notin {"loop", "loaded", "startloop"}
           \/ /\ Mutex(h) /\ UNCHANGED holder
              /\ stage \in {"loop", "loaded", "startloop"}
    PROVE  CallTypes' /\ ReqInv'
<1>1. CallTypes'
    BY GotoTypes
<1>2. pc'[h] = stage /\ \A g \in Procs \ {h} : pc'[g] = pc[g]
    BY DEF Goto, CallTypes
<1>3. ReqInv'
  <2> SUFFICES ASSUME NEW g \in Requests PROVE ReqOk(g)'
    BY DEF ReqInv
  <2>1. CASE g = h
    BY <1>2, <2>1 DEF ReqInv, ReqOk, NeedsRow
  <2>2. CASE g # h
    BY <1>2, <2>2 DEF ReqInv, ReqOk, NeedsRow, Procs
  <2>. QED
    BY <2>1, <2>2
<1>. QED
    BY <1>1, <1>3

\* A request begins with a record of what it is about.
LEMMA BeginTypes ==
    ASSUME TypeInv, NEW h \in Requests, NEW r \in Reqs,
           NEW stage \in {"commit", "reconcile", "load"}, Begin(h, r, stage),
           r.op \in {"create", "update"} => r.row \in Row
    PROVE  TypeInv'
<1>1. h \in Procs /\ stage \in Stages /\ TypeOK /\ ReqInv
    BY DEF Procs, Stages, TypeInv
<1>2. CallTypes'
  <2>1. /\ ~Mutex(h) /\ UNCHANGED holder /\ Goto(h, stage)
        /\ stage \notin {"loop", "loaded", "startloop"}
    BY DEF Begin, Mutex, Idle
  <2>. QED
    BY <1>1, <2>1, TypeParts, GotoTypes
<1>3. CountTypes' /\ WorkTypes'
    BY <1>1, TypeParts, ManagerAssumption DEF Begin, CountTypes, WorkTypes
<1>4. OutsideTypes' /\ ManagerTypes' /\ SpeakerTypes'
    BY <1>1, TypeParts DEF Begin, outside, managerVars, speakerVars,
                           OutsideTypes, ManagerTypes, SpeakerTypes
<1>5. ReqInv'
  <2>1. /\ req' = [req EXCEPT ![h] = r] /\ pc' = [pc EXCEPT ![h] = stage]
        /\ req \in [Procs -> Reqs \cup {NoRow}] /\ pc \in [Procs -> Stages]
    BY <1>1, TypeParts DEF Begin, Goto, WorkTypes, CallTypes
  <2> SUFFICES ASSUME NEW g \in Requests PROVE ReqOk(g)'
    BY DEF ReqInv
  <2>2. CASE g = h
    BY <1>1, <2>1, <2>2 DEF ReqOk, NeedsRow
  <2>3. CASE g # h
    BY <1>1, <2>1, <2>3 DEF ReqInv, ReqOk, NeedsRow, Procs
  <2>. QED
    BY <2>2, <2>3
<1>. QED
    BY <1>2, <1>3, <1>4, <1>5, TypePartsNext DEF TypeInv

LEMMA StartingTypes ==
    ASSUME TypeInv, NEW h \in Requests, Starting(h)
    PROVE  TypeInv'
<1>1. /\ Blank.op = "sync" /\ Blank.id \in Ids /\ Blank.row = NoRow
      /\ Blank.routes \in SUBSET Routes /\ Blank.setting \in Settings
      /\ Blank.found \in BOOLEAN
      /\ Blank = [op |-> Blank.op, id |-> Blank.id, row |-> Blank.row,
                  routes |-> Blank.routes, setting |-> Blank.setting,
                  found |-> Blank.found]
    BY ManagerAssumption DEF Blank, Ids, TypeOK, TypeInv
<1>2. Rows \subseteq Row
    BY ManagerAssumption
<1>3. ASSUME NEW r, NEW stage, Begin(h, r, stage)
      PROVE  r.op \in Ops
    BY <1>3 DEF Begin
<1>4. CASE BeginCreate(h)
    BY <1>1, <1>2, <1>3, <1>4, BeginTypes DEF BeginCreate, Reqs
<1>5. CASE BeginUpdate(h)
    BY <1>1, <1>2, <1>3, <1>5, BeginTypes DEF BeginUpdate, Reqs
<1>6. CASE BeginDelete(h)
    BY <1>1, <1>3, <1>6, BeginTypes DEF BeginDelete, Reqs
<1>7. CASE BeginRoutes(h)
    BY <1>1, <1>3, <1>7, BeginTypes DEF BeginRoutes, Reqs
<1>8. CASE BeginSetting(h)
    BY <1>1, <1>3, <1>8, BeginTypes DEF BeginSetting, Reqs
<1>9. CASE BeginSync(h)
    BY <1>1, <1>3, <1>9, BeginTypes DEF BeginSync, Reqs
<1>10. CASE BeginReload(h)
    BY <1>1, <1>3, <1>10, BeginTypes DEF BeginReload, Reqs
<1>. QED
    BY <1>4, <1>5, <1>6, <1>7, <1>8, <1>9, <1>10 DEF Starting

\* A request outside the manager.
LEMMA StoreTypes ==
    ASSUME TypeInv, NEW h \in Requests,
           \/ CommitCreate(h) \/ CommitUpdate(h) \/ CommitDelete(h)
           \/ CommitRoutes(h) \/ CommitSetting(h) \/ NotifySetting(h)
           \/ FiltersNotSaved(h) \/ ReadUser(h) \/ NotRunning(h)
           \/ ClearPending(h)
    PROVE  TypeInv' /\ UNCHANGED managerVars
<1> USE DEF TypeInv
<1>1. /\ OutsideTypes /\ ManagerTypes /\ SpeakerTypes /\ CallTypes
      /\ CountTypes /\ WorkTypes /\ ReqInv /\ ReqOk(h) /\ h \in Procs
    BY TypeParts DEF ReqInv, Procs
<1>2. ASSUME pc[h] \in {"commit", "notify", "add", "read", "update", "delete",
                        "reconcile", "clear"}
      PROVE  ~Mutex(h) /\ pc[h] # Idle
    BY <1>2 DEF Mutex, Idle
<1>3. ASSUME pc[h] # Idle
      PROVE  /\ req[h] \in Reqs /\ req[h].id \in Ids
             /\ req[h].routes \in SUBSET Routes /\ req[h].setting \in Settings
             /\ req[h].row \in Row \cup {NoRow}
    BY <1>1, <1>3 DEF ReqOk, Reqs
<1>4. ASSUME UNCHANGED <<managerVars, loop>>, CountTypes', OutsideTypes',
             CallTypes', ReqInv', req' \in [Procs -> Reqs \cup {NoRow}]
      PROVE  TypeInv' /\ UNCHANGED managerVars
  <2>1. ManagerTypes' /\ SpeakerTypes' /\ WorkTypes'
    BY <1>1, <1>4 DEF managerVars, speakerVars, ManagerTypes, SpeakerTypes,
                      WorkTypes
  <2>. QED
    BY <1>4, <2>1, TypePartsNext
<1>5. ASSUME UNCHANGED <<faults, served>> PROVE CountTypes'
    BY <1>1, <1>5 DEF CountTypes
<1>6. ASSUME UNCHANGED req PROVE req' \in [Procs -> Reqs \cup {NoRow}]
    BY <1>1, <1>6 DEF WorkTypes
<1>7. ASSUME UNCHANGED outside PROVE OutsideTypes'
    BY <1>1, <1>7 DEF outside, OutsideTypes
<1> DEFINE Plain == {Idle, "add", "read", "delete", "update", "reconcile", "notify"}
<1>8. Plain \subseteq Stages /\ Idle \notin {"add", "read", "update"}
      /\ \A stage \in Plain : stage \notin {"loop", "loaded", "startloop", "commit"}
    BY DEF Stages, Idle
<1>9. ASSUME NEW stage \in Plain, Goto(h, stage), UNCHANGED <<holder, req>>,
             pc[h] \in {"commit", "notify", "add", "read", "update", "delete",
                        "reconcile", "clear"},
             stage \in {"add", "read", "update"} => req[h].row \in Row
      PROVE  CallTypes' /\ ReqInv'
    BY <1>1, <1>2, <1>8, <1>9, StageTypes
<1>10. CASE CommitUpdate(h)
  <2>1. /\ pc[h] = "commit" /\ req[h].op = "update"
        /\ UNCHANGED <<managerVars, loop, holder, faults, served, req>>
        /\ UNCHANGED <<want, setting, pending>>
    BY <1>10 DEF CommitUpdate, Commits
  <2>2. req[h].row \in Row
    BY <1>1, <2>1 DEF ReqOk, NeedsRow, Idle
  <2>3. OutsideTypes'
    BY <1>1, <1>10, <2>1, <2>2 DEF CommitUpdate, OutsideTypes
  <2>4. \E stage \in {"read", "delete", Idle} : Goto(h, stage)
    BY <1>10 DEF CommitUpdate
  <2>5. CallTypes' /\ ReqInv'
    BY <1>9, <2>1, <2>2, <2>4
  <2>. QED
    BY <1>4, <1>5, <1>6, <2>1, <2>3, <2>5
<1>11. CASE CommitDelete(h)
  <2>1. /\ pc[h] = "commit"
        /\ UNCHANGED <<managerVars, loop, holder, faults, served, req>>
        /\ UNCHANGED <<want, setting, pending>>
        /\ store' = [store EXCEPT ![req[h].id] = NoRow]
        /\ \E stage \in {"delete", Idle} : Goto(h, stage)
    BY <1>11 DEF CommitDelete, Commits
  <2>2. OutsideTypes'
    BY <1>1, <2>1 DEF OutsideTypes
  <2>3. CallTypes' /\ ReqInv'
    BY <1>9, <1>8, <2>1
  <2>. QED
    BY <1>4, <1>5, <1>6, <2>1, <2>2, <2>3
<1>12. CASE CommitRoutes(h)
  <2>1. /\ pc[h] = "commit"
        /\ UNCHANGED <<managerVars, loop, holder, faults, served, req>>
        /\ UNCHANGED <<store, setting, pending>>
        /\ want' = [want EXCEPT ![req[h].id] = req[h].routes]
        /\ Goto(h, "reconcile")
    BY <1>12 DEF CommitRoutes, Commits
  <2>2. OutsideTypes'
    BY <1>1, <1>3, <2>1 DEF OutsideTypes, Idle
  <2>3. CallTypes' /\ ReqInv'
    BY <1>9, <2>1
  <2>. QED
    BY <1>4, <1>5, <1>6, <2>1, <2>2, <2>3
<1>13. CASE CommitSetting(h)
  <2>1. /\ pc[h] = "commit"
        /\ UNCHANGED <<managerVars, loop, holder, faults, served, req>>
        /\ UNCHANGED <<store, want, pending>>
        /\ setting' = req[h].setting
        /\ Goto(h, "notify")
    BY <1>13 DEF CommitSetting, Commits
  <2>2. OutsideTypes'
    BY <1>1, <1>3, <2>1 DEF OutsideTypes, Idle
  <2>3. CallTypes' /\ ReqInv'
    BY <1>9, <2>1
  <2>. QED
    BY <1>4, <1>5, <1>6, <2>1, <2>2, <2>3
<1>14. CASE NotifySetting(h) \/ ClearPending(h)
  <2>1. /\ pc[h] \in {"notify", "clear"}
        /\ UNCHANGED <<managerVars, loop, holder, faults, served, req>>
        /\ UNCHANGED <<store, want, setting>>
        /\ pending' \in BOOLEAN
        /\ Goto(h, Idle)
    BY <1>14 DEF NotifySetting, ClearPending, MarkPending
  <2>2. OutsideTypes'
    BY <1>1, <2>1 DEF OutsideTypes
  <2>3. CallTypes' /\ ReqInv'
    BY <1>9, <1>8, <2>1
  <2>. QED
    BY <1>4, <1>5, <1>6, <2>1, <2>2, <2>3
<1>15. CASE FiltersNotSaved(h)
  <2>1. /\ pc[h] = "add" /\ Fault /\ Goto(h, Idle)
        /\ UNCHANGED <<managerVars, loop, holder, served, req, outside>>
    BY <1>15 DEF FiltersNotSaved
  <2>2. CallTypes' /\ ReqInv'
    BY <1>9, <1>8, <2>1
  <2>3. CountTypes'
    BY <1>1, <2>1, FaultTypes
  <2>. QED
    BY <1>4, <1>6, <1>7, <2>1, <2>2, <2>3
<1>16. CASE NotRunning(h)
  <2>1. /\ pc[h] \in {"add", "update", "reconcile", "delete"}
        /\ \E stage \in {Idle, "reconcile"} : Goto(h, stage)
        /\ UNCHANGED <<managerVars, loop, holder, faults, served, req, outside>>
    BY <1>16 DEF NotRunning
  <2>2. CallTypes' /\ ReqInv'
    BY <1>9, <1>8, <2>1
  <2>. QED
    BY <1>4, <1>5, <1>6, <1>7, <2>1, <2>2
<1>17. CASE CommitCreate(h)
  <2>1. /\ pc[h] = "commit" /\ req[h].op = "create"
        /\ UNCHANGED <<managerVars, loop, holder, faults, served>>
        /\ UNCHANGED <<want, setting, pending>>
    BY <1>17 DEF CommitCreate, Commits
  <2>2. req[h].row \in Row /\ req[h] \in Reqs
    BY <1>1, <2>1 DEF ReqOk, NeedsRow, Idle
  <2>3. CASE Goto(h, Idle) /\ UNCHANGED <<store, req>>
    <3>1. OutsideTypes'
      BY <1>7, <2>1, <2>3 DEF outside
    <3>2. CallTypes' /\ ReqInv'
      BY <1>9, <1>8, <2>1, <2>3
    <3>. QED
      BY <1>4, <1>5, <1>6, <2>1, <2>3, <3>1, <3>2
  <2>4. CASE \E id \in Ids : /\ store' = [store EXCEPT ![id] = req[h].row]
                             /\ req' = [req EXCEPT ![h].id = id]
                             /\ Goto(h, IF req[h].row.enabled THEN "add" ELSE Idle)
    <3>1. PICK id \in Ids : /\ store' = [store EXCEPT ![id] = req[h].row]
                            /\ req' = [req EXCEPT ![h].id = id]
                            /\ Goto(h, IF req[h].row.enabled THEN "add" ELSE Idle)
      BY <2>4
    <3>2. OutsideTypes'
      BY <1>1, <2>1, <2>2, <3>1 DEF OutsideTypes
    <3>3. [req[h] EXCEPT !.id = id] \in Reqs
          /\ [req[h] EXCEPT !.id = id].row = req[h].row
      BY <2>2 DEF Reqs
    <3>4. /\ req' \in [Procs -> Reqs \cup {NoRow}]
          /\ req'[h] \in Reqs /\ req'[h].row \in Row
          /\ \A g \in Procs \ {h} : req'[g] = req[g]
      BY <1>1, <2>2, <3>1, <3>3 DEF WorkTypes
    <3>5. PICK stage \in {"add", Idle} : Goto(h, stage)
      BY <3>1
    <3>6. CallTypes'
      BY <1>1, <1>2, <1>8, <2>1, <3>5, GotoTypes
    <3>7. ReqInv'
      <4>1. pc'[h] = stage /\ \A g \in Procs \ {h} : pc'[g] = pc[g]
        BY <1>1, <3>5 DEF Goto, CallTypes
      <4>. QED
        BY <1>1, <3>4, <4>1 DEF ReqInv, ReqOk, NeedsRow, Procs
    <3>. QED
      BY <1>4, <1>5, <2>1, <3>2, <3>4, <3>6, <3>7
  <2>. QED
    BY <1>17, <2>3, <2>4 DEF CommitCreate
<1>18. CASE ReadUser(h)
  <2>1. /\ pc[h] = "read"
        /\ UNCHANGED <<managerVars, loop, holder, served, outside>>
        /\ Fault \/ NoFault
    BY <1>18 DEF ReadUser
  <2>2. CountTypes' /\ OutsideTypes'
    BY <1>1, <1>7, <2>1, FaultTypes
  <2>3. CASE Goto(h, Idle) /\ UNCHANGED req
    <3>1. CallTypes' /\ ReqInv'
      BY <1>9, <1>8, <2>1, <2>3
    <3>. QED
      BY <1>4, <1>6, <2>1, <2>2, <2>3, <3>1
  <2>4. CASE /\ store[req[h].id] # NoRow
             /\ req' = [req EXCEPT ![h].row = store[req[h].id]]
             /\ Goto(h, "update")
    <3>1. req[h] \in Reqs /\ store[req[h].id] \in Row
      BY <1>1, <1>2, <1>3, <2>1, <2>4 DEF OutsideTypes
    <3>2. [req[h] EXCEPT !.row = store[req[h].id]] \in Reqs
          /\ [req[h] EXCEPT !.row = store[req[h].id]].row \in Row
      BY <3>1 DEF Reqs
    <3>3. /\ req' \in [Procs -> Reqs \cup {NoRow}]
          /\ req'[h] \in Reqs /\ req'[h].row \in Row
          /\ \A g \in Procs \ {h} : req'[g] = req[g]
      BY <1>1, <2>4, <3>2 DEF WorkTypes
    <3>4. CallTypes'
      BY <1>1, <1>2, <1>8, <2>1, <2>4, GotoTypes
    <3>5. ReqInv'
      <4>1. pc'[h] = "update" /\ \A g \in Procs \ {h} : pc'[g] = pc[g]
        BY <1>1, <2>4 DEF Goto, CallTypes
      <4>. QED
        BY <1>1, <3>3, <4>1 DEF ReqInv, ReqOk, NeedsRow, Procs
    <3>. QED
      BY <1>4, <2>1, <2>2, <3>3, <3>4, <3>5
  <2>. QED
    BY <1>18, <2>3, <2>4 DEF ReadUser
<1>. QED
    BY <1>10, <1>11, <1>12, <1>13, <1>14, <1>15, <1>16, <1>17, <1>18

\* What SetPeers and its failure leave of the speaker.
LEMMA SetPeersTypes ==
    ASSUME TypeOK, NEW cfgs \in Seq(Config), SetPeers(cfgs) \/ SetPeersFails(cfgs)
    PROVE  /\ SpeakerTypes' /\ (PasswordEnforced => PasswordEnforced')
           /\ Fault \/ NoFault
<1>1. SpeakerTypes /\ snap \in Settings
    BY TypeParts DEF ManagerTypes
<1>2. CASE SetPeers(cfgs)
    BY <1>1, <1>2, SetPeersSpeaker DEF SetPeers
<1>3. CASE SetPeersFails(cfgs)
    BY <1>1, <1>3, SetPeersFailsSpeaker DEF SetPeersFails
<1>. QED
    BY <1>2, <1>3

\* What a request asks to track is a configuration.
LEMMA RequestedType ==
    ASSUME TypeInv, NEW h \in Requests, pc[h] \in {"add", "update"}
    PROVE  Requested(h) \in Config
<1>1. ReqOk(h)
    BY DEF TypeInv, ReqInv
<1>2. req[h] \in Reqs /\ req[h].row \in Row
    BY <1>1 DEF ReqOk, NeedsRow, Idle
<1>. QED
    BY <1>2 DEF Requested, Reqs, Config

\* The calls that change the tracked users.
LEMMA CallsTypes ==
    ASSUME TypeInv, NEW h \in Requests,
           AddPeer(h) \/ UpdateUntracked(h) \/ UpdateTracked(h) \/ DeletePeer(h)
    PROVE  TypeInv' /\ (PasswordEnforced => PasswordEnforced')
<1> USE DEF TypeInv
<1>1. /\ OutsideTypes /\ ManagerTypes /\ SpeakerTypes /\ CallTypes
      /\ CountTypes /\ WorkTypes /\ ReqInv /\ h \in Procs
    BY TypeParts DEF Procs
<1>2. /\ pc[h] \in {"add", "update", "delete"} /\ holder = Nobody
      /\ UNCHANGED <<outside, running, snap, holder, loop, req, served>>
    BY DEF AddPeer, UpdateUntracked, UpdateTracked, DeletePeer, Calls
<1>3. \E stage \in {Idle, "reconcile"} : Goto(h, stage)
    BY DEF AddPeer, UpdateUntracked, UpdateTracked, DeletePeer, Track
<1>4. CallTypes' /\ ReqInv'
    BY <1>1, <1>2, <1>3, StageTypes DEF Mutex, Idle, Stages
<1>5. OutsideTypes' /\ WorkTypes'
    BY <1>1, <1>2 DEF outside, OutsideTypes, WorkTypes
<1>6. ASSUME SpeakerTypes', PasswordEnforced => PasswordEnforced',
             Fault \/ NoFault, configs' \in Seq(Config),
             IsPartial(cache', Keys, SUBSET Routes), shared' \subseteq Keys
      PROVE  TypeInv' /\ (PasswordEnforced => PasswordEnforced')
  <2>1. CountTypes'
    BY <1>1, <1>2, <1>6, FaultTypes
  <2>2. ManagerTypes'
    BY <1>1, <1>2, <1>6 DEF ManagerTypes
  <2>. QED
    BY <1>4, <1>5, <1>6, <2>1, <2>2, TypePartsNext
<1>7. ASSUME UNCHANGED <<speakerVars, faults>>
      PROVE  /\ SpeakerTypes' /\ (PasswordEnforced => PasswordEnforced')
             /\ Fault \/ NoFault
    BY <1>1, <1>7 DEF speakerVars, SpeakerTypes, PasswordEnforced, NoFault
<1>8. ASSUME Track(h, Requested(h)), Requested(h) \in Config
      PROVE  TypeInv' /\ (PasswordEnforced => PasswordEnforced')
  <2> DEFINE more == Append(configs, Requested(h))
  <2>1. more \in Seq(Config) /\ configs \in Seq(Config)
    BY <1>1, <1>8, AppendConfig DEF ManagerTypes
  <2>2. configs' \in {configs, more} /\ UNCHANGED <<cache, shared>>
    BY <1>8 DEF Track
  <2>3. \/ SetPeers(more) \/ SetPeersFails(more)
        \/ UNCHANGED <<speakerVars, faults>>
    BY <1>8 DEF Track
  <2> HIDE DEF more
  <2>4. /\ SpeakerTypes' /\ (PasswordEnforced => PasswordEnforced')
        /\ Fault \/ NoFault
    BY <1>7, <2>1, <2>3, SetPeersTypes
  <2>5. IsPartial(cache', Keys, SUBSET Routes) /\ shared' \subseteq Keys
    BY <1>1, <2>2 DEF ManagerTypes
  <2>. QED
    BY <1>6, <2>1, <2>2, <2>4, <2>5
<1>9. CASE AddPeer(h) \/ UpdateUntracked(h)
  <2>1. Requested(h) \in Config
    BY <1>9, RequestedType DEF AddPeer, UpdateUntracked, Calls
  <2>. QED
    BY <1>8, <1>9, <2>1 DEF AddPeer, UpdateUntracked
<1>10. CASE UpdateTracked(h)
  <2> DEFINE c == Requested(h)
  <2>1. c \in Config
    BY <1>10, RequestedType DEF UpdateTracked, Calls
  <2>2. PICK i \in IndexOf(c.id) :
          LET next == [configs EXCEPT ![i] = c]
          IN  \/ /\ SetPeers(next)
                 /\ configs' = next
                 /\ shared' = shared \cup Duplicates(next)
                 /\ cache' = CacheForUpdate(configs[i], c)
              \/ /\ SetPeersFails(next)
                 /\ ConfigsRolledBack(i, c)
                 /\ UNCHANGED shared
                 /\ cache' = CacheRolledBack(configs[i], c)
    BY <1>10 DEF UpdateTracked
  <2> DEFINE next == [configs EXCEPT ![i] = c]
  <2>3. i \in DOMAIN configs /\ configs \in Seq(Config)
    BY <1>1 DEF IndexOf, ManagerTypes
  <2>4. next \in Seq(Config) /\ configs[i] \in Config
    BY <2>1, <2>3, ReplaceConfig, LenProperties, ElementOfSeq
  <2>5. /\ SetPeers(next) \/ SetPeersFails(next)
        /\ configs' \in {configs, next}
        /\ shared' \subseteq shared \cup Duplicates(next)
        /\ cache' \in {CacheForUpdate(configs[i], c), CacheRolledBack(configs[i], c)}
    BY <2>2 DEF ConfigsRolledBack
  <2> HIDE DEF next, c
  <2>6. shared' \subseteq Keys
    BY <1>1, <2>5 DEF ManagerTypes, Duplicates
  <2>7. Key(configs[i].row) \in Keys
    BY <2>4 DEF Config, Row, Key, Keys
  <2>8. IsPartial(CacheForUpdate(configs[i], c), Keys, SUBSET Routes)
    BY <1>1, PartialFacts DEF CacheForUpdate, ManagerTypes
  <2>9. IsPartial(With(CacheForUpdate(configs[i], c), Key(configs[i].row), {}),
                  Keys, SUBSET Routes)
    BY <2>7, <2>8, PartialFacts
  <2>10. IsPartial(CacheRolledBack(configs[i], c), Keys, SUBSET Routes)
    BY <2>9, PartialFacts DEF CacheRolledBack
  <2>. QED
    BY <1>6, <2>3, <2>4, <2>5, <2>6, <2>8, <2>10, SetPeersTypes
<1>11. CASE DeletePeer(h)
  <2>1. UNCHANGED shared
    BY <1>11 DEF DeletePeer
  <2>2. CASE \E i \in IndexOf(req[h].id) :
              /\ SetPeers(RemovedAt(i)) \/ SetPeersFails(RemovedAt(i))
              /\ configs' = RemovedAt(i)
              /\ cache' = Without(cache, Key(configs[i].row))
    <3>1. PICK i \in DOMAIN configs :
              /\ SetPeers(RemovedAt(i)) \/ SetPeersFails(RemovedAt(i))
              /\ configs' = RemovedAt(i)
              /\ cache' = Without(cache, Key(configs[i].row))
      BY <2>2 DEF IndexOf
    <3>2. RemovedAt(i) \in Seq(Config)
      BY <1>1, RemoveConfig DEF ManagerTypes
    <3>3. IsPartial(cache', Keys, SUBSET Routes) /\ shared' \subseteq Keys
      BY <1>1, <2>1, <3>1, PartialFacts DEF ManagerTypes
    <3>. QED
      BY <1>6, <3>1, <3>2, <3>3, SetPeersTypes
  <2>3. CASE UNCHANGED <<configs, cache, speakerVars, faults>>
    BY <1>1, <1>6, <1>7, <2>1, <2>3 DEF ManagerTypes
  <2>. QED
    BY <1>11, <2>2, <2>3 DEF DeletePeer
<1>. QED
    BY <1>9, <1>10, <1>11

\* What is desired has its shape.
LEMMA DesiredTypes ==
    ASSUME TypeOK
    PROVE  DesiredPrefixes \in [Ids -> SUBSET Routes]
    BY TypeParts DEF OutsideTypes, DesiredPrefixes

\* Without a speaker there is no peer to protect.
LEMMA SpeakerGoneFacts ==
    ASSUME SpeakerGone
    PROVE  SpeakerTypes' /\ PasswordEnforced' /\ running' = FALSE
<1>1. <<>> \in Seq(PeerConfigs) /\ NoKeys \in [Addrs -> Secrets]
      /\ IsPartial(Empty, Keys, Peers) /\ DOMAIN Empty = {}
    BY DEF NoKeys, Secrets, IsPartial, Empty
<1>2. peers' = Empty /\ applied' = <<>> /\ md5' = NoKeys /\ running' = FALSE
    BY DEF SpeakerGone
<1>3. SpeakerTypes'
    BY <1>1, <1>2 DEF SpeakerTypes
<1>4. PasswordEnforced'
    BY <1>1, <1>2 DEF PasswordEnforced
<1>. QED
    BY <1>2, <1>3, <1>4

LEMMA RestTypes ==
    ASSUME WorkTypes, loop.todo # <<>>
    PROVE  /\ [loop EXCEPT !.todo = Tail(@)] \in Loops
           /\ [loop EXCEPT !.todo = Tail(@), !.failed = TRUE] \in Loops
           /\ Head(loop.todo) \in Config
<1>1. loop.todo \in Seq(Config)
    BY DEF WorkTypes, Loops
<1>2. Tail(loop.todo) \in Seq(Config) /\ Head(loop.todo) \in Config
    BY <1>1, HeadTailProperties
<1>. QED
    BY <1>2 DEF WorkTypes, Loops

\* A reconciliation, and Stop.
LEMMA ReconcileTypes ==
    ASSUME TypeInv,
           \/ \E h \in Requests : Reconcile(h) \/ EndReconcile(h)
           \/ \E h \in Procs : SkipPeer(h) \/ AnnouncePeer(h)
           \/ Stop
    PROVE  TypeInv' /\ (PasswordEnforced => PasswordEnforced')
<1> USE DEF TypeInv
<1>1. /\ OutsideTypes /\ ManagerTypes /\ SpeakerTypes /\ CallTypes
      /\ CountTypes /\ WorkTypes /\ ReqInv /\ Requests \subseteq Procs
    BY TypeParts DEF Procs
<1>2. ASSUME UNCHANGED outside PROVE OutsideTypes'
    BY <1>1, <1>2 DEF outside, OutsideTypes
<1>3. ASSUME UNCHANGED managerVars
      PROVE  /\ ManagerTypes' /\ SpeakerTypes'
             /\ PasswordEnforced => PasswordEnforced'
    BY <1>1, <1>3 DEF managerVars, speakerVars, ManagerTypes, SpeakerTypes,
                      PasswordEnforced
<1>4. ASSUME UNCHANGED <<faults, served>> PROVE CountTypes'
    BY <1>1, <1>4 DEF CountTypes
<1>5. CASE \E h \in Requests : Reconcile(h)
  <2>1. PICK h \in Requests : Reconcile(h)
    BY <1>5
  <2>2. /\ pc[h] = "reconcile" /\ holder = Nobody
        /\ UNCHANGED <<outside, managerVars, req, served>>
        /\ Fault \/ NoFault
    BY <2>1 DEF Reconcile
  <2>3. CASE StartLoop(h, "loop")
    <3>1. loop' \in Loops
      BY <1>1, <2>3, DesiredTypes DEF StartLoop, Loops, ManagerTypes
    <3>2. CallTypes' /\ ReqInv'
      BY <1>1, <2>2, <2>3, MutexTypes DEF StartLoop, Stages, Idle
    <3>. QED
      BY <1>1, <1>2, <1>3, <2>2, <3>1, <3>2, FaultTypes, TypePartsNext DEF WorkTypes
  <2>4. CASE Goto(h, Idle) /\ UNCHANGED <<holder, loop>>
    <3>1. CallTypes' /\ ReqInv'
      BY <1>1, <2>2, <2>4, StageTypes DEF Mutex, Stages, Idle
    <3>. QED
      BY <1>1, <1>2, <1>3, <2>2, <2>4, <3>1, FaultTypes, TypePartsNext DEF WorkTypes
  <2>. QED
    BY <2>1, <2>3, <2>4 DEF Reconcile
<1>6. CASE \E h \in Requests : EndReconcile(h)
  <2>1. PICK h \in Requests : EndReconcile(h)
    BY <1>6
  <2>2. /\ pc[h] = "loop" /\ loop' = NoLoop /\ holder' = Nobody /\ Goto(h, Idle)
        /\ UNCHANGED <<outside, managerVars, req, faults, served>>
    BY <2>1 DEF EndReconcile, MutexReleased
  <2>3. CallTypes' /\ ReqInv'
    BY <1>1, <2>2, MutexTypes DEF Mutex, Stages, Idle
  <2>4. NoLoop \in Loops
    BY DEF NoLoop, Loops
  <2>. QED
    BY <1>1, <1>2, <1>3, <1>4, <2>2, <2>3, <2>4, TypePartsNext DEF WorkTypes
<1>7. CASE \E h \in Procs : SkipPeer(h)
  <2>1. PICK h \in Procs : SkipPeer(h)
    BY <1>7
  <2>2. /\ loop.todo # <<>> /\ loop' = [loop EXCEPT !.todo = Tail(@)]
        /\ UNCHANGED <<outside, managerVars, holder, pc, req, faults, served>>
    BY <2>1 DEF SkipPeer, Looping
  <2>3. loop' \in Loops
    BY <1>1, <2>2, RestTypes
  <2>4. CallTypes' /\ ReqInv'
    BY <1>1, <2>2 DEF CallTypes, Mutex, ReqInv, ReqOk, NeedsRow
  <2>. QED
    BY <1>1, <1>2, <1>3, <1>4, <2>2, <2>3, <2>4, TypePartsNext DEF WorkTypes
<1>8. CASE \E h \in Procs : AnnouncePeer(h)
  <2>1. PICK h \in Procs : AnnouncePeer(h)
    BY <1>8
  <2> DEFINE c == Head(loop.todo)
  <2> DEFINE k == Key(c.row)
  <2> DEFINE rs == Desired(c)
  <2>2. /\ loop.todo # <<>>
        /\ peers' = Announced(k, rs)
        /\ cache' \in {With(cache, k, rs), CacheDropped(k)}
        /\ loop' \in {[loop EXCEPT !.todo = Tail(@)],
                      [loop EXCEPT !.todo = Tail(@), !.failed = TRUE]}
        /\ Fault \/ NoFault
        /\ UNCHANGED <<outside, running, snap, configs, applied, md5, shared,
                       holder, pc, req, served>>
    BY <2>1 DEF AnnouncePeer, Looping
  <2>3. c \in Config
    BY <1>1, <2>2, RestTypes
  <2>4. k \in Keys /\ rs \in SUBSET Routes
    BY <1>1, <2>3 DEF WorkTypes, Loops, Config, Row, Key, Keys, Desired
  <2>5. loop' \in Loops
    BY <1>1, <2>2, RestTypes
  <2>6. CallTypes' /\ ReqInv'
    BY <1>1, <2>2 DEF CallTypes, Mutex, ReqInv, ReqOk, NeedsRow
  <2> HIDE DEF c, k, rs
  <2>7. /\ DOMAIN peers' = DOMAIN peers
        /\ \A x \in DOMAIN peers : peers'[x] \in Peers /\ peers'[x].pw = peers[x].pw
        /\ peers' = [x \in DOMAIN peers |-> peers'[x]]
    BY <1>1, <2>2, <2>4 DEF Announced, SpeakerTypes, IsPartial, Peers
  <2>8. SpeakerTypes'
    BY <1>1, <2>2, <2>7 DEF SpeakerTypes, IsPartial
  <2>9. PasswordEnforced => PasswordEnforced'
    BY <2>2, <2>7 DEF PasswordEnforced
  <2>10. IsPartial(cache', Keys, SUBSET Routes)
    BY <1>1, <2>2, <2>4, PartialFacts DEF ManagerTypes, CacheDropped
  <2>11. ManagerTypes'
    BY <1>1, <2>2, <2>10 DEF ManagerTypes
  <2>. QED
    BY <1>1, <1>2, <2>2, <2>5, <2>6, <2>8, <2>9, <2>11, FaultTypes,
       TypePartsNext DEF WorkTypes
<1>9. CASE Stop
  <2>1. /\ pc[Main] = "serve" /\ holder = Nobody /\ SpeakerGone /\ configs' = <<>>
        /\ cache' = Empty /\ Goto(Main, "stopped")
        /\ UNCHANGED <<outside, snap, shared, holder, loop, req, faults, served>>
    BY <1>9 DEF Stop, Serving
  <2>2. Main \in Procs /\ Main \notin Requests
    BY ManagerAssumption DEF Procs
  <2>3. CallTypes' /\ ReqInv'
    BY <1>1, <2>1, <2>2, StageTypes DEF Mutex, Stages, Idle
  <2>4. SpeakerTypes' /\ PasswordEnforced' /\ running' = FALSE
    BY <2>1, SpeakerGoneFacts
  <2>5. <<>> \in Seq(Config) /\ IsPartial(Empty, Keys, SUBSET Routes)
    BY DEF Empty, IsPartial
  <2>6. ManagerTypes'
    BY <1>1, <2>1, <2>4, <2>5 DEF ManagerTypes
  <2>. QED
    BY <1>1, <1>2, <1>4, <2>1, <2>3, <2>4, <2>6, TypePartsNext DEF WorkTypes
<1>. QED
    BY <1>5, <1>6, <1>7, <1>8, <1>9

\* The users that startLocked loads make a sequence of configurations.
LoadedConfigs(ids) ==
    [n \in DOMAIN ids |-> [id |-> ids[n], row |-> store[ids[n]]]]
LEMMA LoadedTypes ==
    ASSUME TypeOK, NEW ids \in [1..Cardinality(Loadable) -> Loadable]
    PROVE  LoadedConfigs(ids) \in Seq(Config)
<1>1. Loadable \subseteq Ids /\ \A i \in Loadable : store[i] \in Row
    BY TypeParts DEF Loadable, Enabled, OutsideTypes
<1>2. Cardinality(Loadable) \in Nat
  <2>1. IsFiniteSet(Ids)
    BY ManagerAssumption, FS_Interval DEF Ids
  <2>. QED
    BY <1>1, <2>1, FS_Subset, FS_CardinalityType
<1>3. LoadedConfigs(ids) \in [1..Cardinality(Loadable) -> Config]
    BY <1>1 DEF LoadedConfigs, Config
<1>. QED
    BY <1>2, <1>3, FunctionIsSeq

\* A start.
LEMMA LoadTypes ==
    ASSUME TypeInv, NEW h \in Procs, LoadPeers(h) \/ LoadRoutes(h) \/ EndStart(h)
    PROVE  TypeInv' /\ (PasswordEnforced => PasswordEnforced')
<1> USE DEF TypeInv
<1>1. /\ OutsideTypes /\ ManagerTypes /\ SpeakerTypes /\ CallTypes
      /\ CountTypes /\ WorkTypes /\ ReqInv
    BY TypeParts
<1>2. UNCHANGED outside => OutsideTypes'
    BY <1>1 DEF outside, OutsideTypes
<1>3. ASSUME StartFailed(h)
      PROVE  /\ SpeakerTypes' /\ PasswordEnforced' /\ running' = FALSE
             /\ \E stage \in {"serve", Idle} : Goto(h, stage)
    BY <1>3, SpeakerGoneFacts DEF StartFailed
<1>4. {"serve", Idle, "clear", "loaded", "startloop"} \subseteq Stages
    BY DEF Stages
<1>5. ASSUME UNCHANGED <<running, speakerVars>>
      PROVE  /\ running' \in BOOLEAN /\ SpeakerTypes'
             /\ PasswordEnforced => PasswordEnforced'
    BY <1>1, <1>5 DEF speakerVars, ManagerTypes, SpeakerTypes, PasswordEnforced
<1>6. CASE LoadRoutes(h)
  <2>1. /\ pc[h] = "loaded"
        /\ Fault \/ NoFault
        /\ UNCHANGED <<outside, snap, configs, cache, shared, req, served>>
        /\ Mutex(h) /\ holder = h
    BY <1>1, <1>6 DEF LoadRoutes, Mutex, CallTypes
  <2>2. /\ running' \in BOOLEAN /\ SpeakerTypes'
        /\ PasswordEnforced => PasswordEnforced'
    BY <1>3, <1>5, <1>6 DEF LoadRoutes
  <2>3. ManagerTypes'
    BY <1>1, <2>1, <2>2 DEF ManagerTypes
  <2>4. loop' \in Loops
    <3>1. CASE StartLoop(h, "startloop")
      BY <1>1, <3>1, DesiredTypes DEF StartLoop, Loops, ManagerTypes
    <3>2. CASE UNCHANGED loop
      BY <1>1, <3>2 DEF WorkTypes
    <3>. QED
      BY <1>6, <3>1, <3>2 DEF LoadRoutes
  <2>5. CallTypes' /\ ReqInv'
    <3>1. CASE StartLoop(h, "startloop")
      BY <1>1, <1>4, <2>1, <3>1, MutexTypes DEF StartLoop, Idle
    <3>2. CASE StartFailed(h) /\ MutexReleased(h)
      <4>1. PICK stage \in {"serve", Idle} : Goto(h, stage)
        BY <1>3, <3>2
      <4>. QED
        BY <1>1, <1>4, <2>1, <3>2, <4>1, MutexTypes DEF MutexReleased, Idle
    <3>. QED
      BY <1>6, <3>1, <3>2 DEF LoadRoutes
  <2>. QED
    BY <1>1, <1>2, <2>1, <2>2, <2>3, <2>4, <2>5, FaultTypes, TypePartsNext
       DEF WorkTypes
<1>7. CASE EndStart(h)
  <2>1. /\ pc[h] = "startloop" /\ loop' = NoLoop /\ holder' = Nobody
        /\ UNCHANGED <<outside, snap, configs, cache, shared, req, faults, served>>
        /\ Mutex(h)
    BY <1>7 DEF EndStart, MutexReleased, Mutex
  <2>2. /\ running' \in BOOLEAN /\ SpeakerTypes'
        /\ PasswordEnforced => PasswordEnforced'
    BY <1>3, <1>5, <1>7 DEF EndStart
  <2>3. ManagerTypes'
    BY <1>1, <2>1, <2>2 DEF ManagerTypes
  <2>4. NoLoop \in Loops
    BY DEF NoLoop, Loops
  <2>5. \E stage \in {"serve", Idle, "clear"} : Goto(h, stage)
    BY <1>3, <1>7 DEF EndStart
  <2>6. CallTypes' /\ ReqInv'
    BY <1>1, <1>4, <2>1, <2>5, MutexTypes DEF Idle
  <2>7. CountTypes'
    BY <1>1, <2>1 DEF CountTypes
  <2>. QED
    BY <1>1, <1>2, <2>1, <2>2, <2>3, <2>4, <2>6, <2>7, TypePartsNext
       DEF WorkTypes
<1>8. CASE LoadPeers(h)
  <2>1. /\ pc[h] = "load" /\ holder = Nobody /\ snap' = setting /\ cache' = Empty
        /\ UNCHANGED <<outside, loop, req, served>>
    BY <1>8 DEF LoadPeers
  <2>2. PICK ids \in [1..Cardinality(Loadable) -> Loadable] :
          LET cfgs == LoadedConfigs(ids)
              new == BuildPeerConfigs(cfgs, setting)
          IN  /\ shared' = Duplicates(cfgs)
              /\ \/ /\ running' = TRUE
                    /\ configs' = cfgs
                    /\ peers' = PeersSet(Empty, new)
                    /\ applied' = new
                    /\ md5' = KeysApplied(NoKeys, new, Len(new))
                    /\ holder' = h
                    /\ Goto(h, "loaded")
                    /\ NoFault
                 \/ /\ configs' \in {configs, cfgs}
                    /\ StartFailed(h)
                    /\ Fault \/ NoFault
                    /\ UNCHANGED holder
    BY <1>8 DEF LoadPeers, LoadedConfigs
  <2> DEFINE cfgs == LoadedConfigs(ids)
  <2> DEFINE new == BuildPeerConfigs(cfgs, setting)
  <2>3. cfgs \in Seq(Config) /\ configs \in Seq(Config) /\ setting \in Settings
    BY <1>1, LoadedTypes DEF ManagerTypes, OutsideTypes
  <2>4. /\ IsPartial(Empty, Keys, SUBSET Routes) /\ IsPartial(Empty, Keys, Peers)
        /\ NoKeys \in [Addrs -> Secrets]
    BY DEF IsPartial, Empty, NoKeys, Secrets
  <2>5. /\ shared' \subseteq Keys /\ configs' \in {configs, cfgs}
        /\ Fault \/ NoFault
    BY <2>2 DEF Duplicates
  <2>6. CASE /\ running' = TRUE /\ peers' = PeersSet(Empty, new)
             /\ applied' = new /\ md5' = KeysApplied(NoKeys, new, Len(new))
             /\ holder' = h /\ Goto(h, "loaded")
    <3> HIDE DEF cfgs
    <3>1. new \in Seq(PeerConfigs) /\ Len(new) \in 0..Len(new)
      BY <2>3, BuildPeerConfigsFacts, LenProperties
    <3> HIDE DEF new
    <3>2. SpeakerTypes'
      BY <2>4, <2>6, <3>1, PeersSetType, KeysAppliedFacts DEF SpeakerTypes
    <3>3. PasswordEnforced'
      <4> SUFFICES ASSUME NEW k \in DOMAIN peers', peers'[k].pw # NoPw,
                          k[1] \notin Dynamic
                   PROVE  md5'[k[1]] # NoPw
        BY DEF PasswordEnforced
      <4>. QED
        BY <2>4, <2>6, <3>1, PeersAreKeyed
    <3>4. CallTypes' /\ ReqInv'
      BY <1>1, <1>4, <2>1, <2>6, MutexTypes DEF Idle
    <3>5. ManagerTypes'
      BY <1>1, <2>1, <2>3, <2>4, <2>5, <2>6 DEF ManagerTypes
    <3>. QED
      BY <1>1, <1>2, <2>1, <2>5, <3>2, <3>3, <3>4, <3>5, FaultTypes,
         TypePartsNext DEF WorkTypes
  <2>7. CASE StartFailed(h) /\ UNCHANGED holder
    <3>1. CallTypes' /\ ReqInv'
      BY <1>1, <1>3, <1>4, <2>1, <2>7, StageTypes DEF Mutex, Idle
    <3>2. ManagerTypes'
      BY <1>1, <1>3, <2>1, <2>3, <2>4, <2>5, <2>7 DEF ManagerTypes
    <3>. QED
      BY <1>1, <1>2, <1>3, <2>1, <2>5, <2>7, <3>1, <3>2, FaultTypes,
         TypePartsNext DEF WorkTypes
  <2>. QED
    BY <2>2, <2>6, <2>7
<1>. QED
    BY <1>6, <1>7, <1>8

----------------------------------------------------------------------------
(* Type correctness and passwords *)

LEMMA TypeStep ==
    ASSUME TypeInv, [Next]_vars
    PROVE  TypeInv' /\ (PasswordEnforced => PasswordEnforced')
<1>1. ASSUME UNCHANGED managerVars PROVE PasswordEnforced => PasswordEnforced'
    BY <1>1 DEF managerVars, speakerVars, PasswordEnforced
<1>2. ASSUME NEW h \in Requests, Starting(h)
      PROVE  TypeInv' /\ UNCHANGED managerVars
  <2>1. UNCHANGED managerVars
    BY <1>2 DEF Starting, BeginCreate, BeginUpdate, BeginDelete, BeginRoutes,
                BeginSetting, BeginSync, BeginReload, Begin
  <2>. QED
    BY <1>2, <2>1, StartingTypes
<1>3. ASSUME NEW h \in Requests, Request(h)
      PROVE  TypeInv' /\ (PasswordEnforced => PasswordEnforced')
    BY <1>1, <1>3, StoreTypes, CallsTypes, ReconcileTypes DEF Request
<1>4. ASSUME NEW h \in Procs, Loading(h)
      PROVE  TypeInv' /\ (PasswordEnforced => PasswordEnforced')
    BY <1>4, LoadTypes, ReconcileTypes DEF Loading
<1>5. CASE UNCHANGED vars
    BY <1>5 DEF vars, outside, managerVars, speakerVars, TypeInv, TypeOK, ReqInv,
                ReqOk, NeedsRow, PasswordEnforced
<1>. QED
    BY <1>1, <1>2, <1>3, <1>4, <1>5, ReconcileTypes DEF Next

LEMMA TypeInvInit == Init => TypeInv
<1>1. Init => ReqInv
    BY ManagerAssumption DEF Init, ReqInv, ReqOk, Procs
<1>. QED
    BY <1>1, TypeInit DEF TypeInv

\* Every variable keeps its shape and Manager.mu has one holder, who is where
\* it says: no interleaving of requests gets two of them into the manager.
THEOREM TypeCorrect == Spec => []TypeOK
<1>1. TypeInv /\ [Next]_vars => TypeInv'
    BY TypeStep
<1>2. TypeInv => TypeOK
    BY DEF TypeInv
<1>. QED
    BY <1>1, <1>2, TypeInvInit, PTL DEF Spec

\* Speaker.SetPeers, called for any users, after any other calls and however
\* it fails, leaves no address of a peer with a password open.
THEOREM PasswordsEnforced == Spec => []PasswordEnforced
<1>1. Init => PasswordEnforced
    BY DEF Init, PasswordEnforced, Empty
<1>2. TypeInv /\ PasswordEnforced /\ [Next]_vars => (TypeInv /\ PasswordEnforced)'
    BY TypeStep
<1>. QED
    BY <1>1, <1>2, TypeInvInit, PTL DEF Spec

----------------------------------------------------------------------------
(* What the sessions of a running speaker have to do with the tracked users *)

\* Users that share a session are known to.
DupInv == running => Duplicates(configs) \subseteq shared

\* Every tracked user who shares no session has one with the user's password.
PeersInv ==
    running => \A i \in DOMAIN configs :
        LET k == Key(configs[i].row)
        IN  k \notin shared =>
                /\ k \in DOMAIN peers
                /\ peers[k].pw = configs[i].row.pw
                /\ peers[k].dials = PeerConfig(configs[i], snap).dials

\* peerRoutes holds routes only of tracked users, and their sessions have them.
HeldInv ==
    running => \A k \in DOMAIN cache \ shared :
        cache[k] # {} =>
            /\ \E i \in DOMAIN configs : Key(configs[i].row) = k
            /\ k \in DOMAIN peers
            /\ peers[k].routes = cache[k]

\* Whoever is in the manager across steps has the speaker running.
BusyInv == \A h \in Procs : Mutex(h) => running

Delivered(c) ==
    /\ c.row.enabled
    /\ Key(c.row) \notin shared
    /\ Desired(c) # {}
    => Key(c.row) \in DOMAIN peers /\ peers[Key(c.row)].routes = Desired(c)

\* A reconciliation has the last tracked users to do, and did the first ones.
LoopInv ==
    \A h \in Procs : pc[h] \in {"loop", "startloop"} =>
        \E n \in 0..Len(configs) :
            /\ Len(loop.todo) = Len(configs) - n
            /\ \A j \in 1..Len(loop.todo) : loop.todo[j] = configs[n + j]
            /\ loop.failed \/ \A m \in 1..n : Delivered(configs[m])

IInv == TypeInv /\ DupInv /\ PeersInv /\ HeldInv /\ BusyInv /\ LoopInv

SessInv == DupInv /\ PeersInv /\ HeldInv

LEMMA SameManager ==
    ASSUME SessInv, UNCHANGED managerVars
    PROVE  SessInv'
    BY DEF SessInv, DupInv, PeersInv, HeldInv, managerVars, speakerVars,
           Duplicates, PeerConfig

LEMMA NotRunningSessions == running' = FALSE => SessInv'
    BY DEF SessInv, DupInv, PeersInv, HeldInv

\* SetPeers gives a user who shares no session the one asked for, and leaves
\* it alone if it is there already.
LEMMA SetKeeps ==
    ASSUME snap \in Settings, NEW cfgs \in Seq(Config), SetPeers(cfgs),
           NEW j \in DOMAIN cfgs, Key(cfgs[j].row) \notin Duplicates(cfgs)
    PROVE  LET k == Key(cfgs[j].row)
               c == PeerConfig(cfgs[j], snap)
           IN  /\ k \in DOMAIN peers'
               /\ peers'[k].pw = cfgs[j].row.pw
               /\ peers'[k].dials = c.dials
               /\ /\ k \in DOMAIN peers
                  /\ peers[k].pw = cfgs[j].row.pw
                  /\ peers[k].dials = c.dials
                  => peers'[k] = peers[k]
<1> DEFINE new == BuildPeerConfigs(cfgs, snap)
<1>1. /\ new \in Seq(PeerConfigs) /\ DOMAIN new = DOMAIN cfgs
      /\ \A i \in DOMAIN cfgs : /\ new[i] = PeerConfig(cfgs[i], snap)
                                /\ new[i].key = Key(cfgs[i].row)
                                /\ new[i].pw = cfgs[i].row.pw
    BY BuildPeerConfigsFacts
<1>2. peers' = PeersSet(peers, new)
    BY DEF SetPeers
<1> HIDE DEF new
<1>3. new[j].key \in Keys
  <2>1. new[j] \in PeerConfigs
    BY <1>1, ElementOfSeq, LenProperties
  <2>. QED
    BY <2>1 DEF PeerConfigs
<1>4. \A i \in DOMAIN new : new[i].key = new[j].key => i = j
    BY <1>1, <1>3 DEF Duplicates
<1>5. /\ new[j].key \in DOMAIN peers'
      /\ peers'[new[j].key].pw = new[j].pw
      /\ peers'[new[j].key].dials = new[j].dials
    BY <1>1, <1>2, <1>4, PeersSetMakes
<1>6. /\ new[j].key \in DOMAIN peers
      /\ peers[new[j].key].pw = new[j].pw
      /\ peers[new[j].key].dials = new[j].dials
      => peers'[new[j].key] = peers[new[j].key]
    BY <1>1, <1>2, <1>4, PeersSetKeeps
<1>. QED
    BY <1>1, <1>5, <1>6

\* A call that sets the peers of cfgs, and keeps in peerRoutes only what is
\* of a user whose peer stays as it is.
LEMMA CallSessions ==
    ASSUME TypeOK, SessInv, running, NEW cfgs \in Seq(Config), SetPeers(cfgs),
           configs' = cfgs, UNCHANGED <<running, snap>>,
           shared \subseteq shared', Duplicates(cfgs) \subseteq shared',
           \A k \in DOMAIN cache' \ shared' : cache'[k] # {} =>
               /\ k \in DOMAIN cache
               /\ cache'[k] = cache[k]
               /\ \A i \in DOMAIN configs : Key(configs[i].row) = k =>
                   \E j \in DOMAIN cfgs :
                       /\ Key(cfgs[j].row) = k
                       /\ cfgs[j].row.pw = configs[i].row.pw
                       /\ PeerConfig(cfgs[j], snap).dials =
                            PeerConfig(configs[i], snap).dials
    PROVE  SessInv'
<1>1. snap \in Settings
    BY TypeParts DEF ManagerTypes
<1>2. DupInv'
    BY DEF DupInv, Duplicates
<1>3. PeersInv'
  <2> SUFFICES ASSUME NEW i \in DOMAIN cfgs, Key(cfgs[i].row) \notin shared'
               PROVE  LET k == Key(cfgs[i].row)
                      IN  /\ k \in DOMAIN peers'
                          /\ peers'[k].pw = cfgs[i].row.pw
                          /\ peers'[k].dials = PeerConfig(cfgs[i], snap).dials
    BY DEF PeersInv, PeerConfig
  <2>. QED
    BY <1>1, SetKeeps
<1>4. HeldInv'
  <2> SUFFICES ASSUME NEW k \in DOMAIN cache' \ shared', cache'[k] # {}
               PROVE  /\ \E i \in DOMAIN cfgs : Key(cfgs[i].row) = k
                      /\ k \in DOMAIN peers'
                      /\ peers'[k].routes = cache'[k]
    BY DEF HeldInv
  <2>1. k \in DOMAIN cache /\ cache[k] = cache'[k] /\ k \notin shared
    OBVIOUS
  <2>2. /\ \E i \in DOMAIN configs : Key(configs[i].row) = k
        /\ k \in DOMAIN peers /\ peers[k].routes = cache[k]
    BY <2>1 DEF SessInv, HeldInv
  <2>3. PICK i \in DOMAIN configs : Key(configs[i].row) = k
    BY <2>2
  <2>4. /\ peers[k].pw = configs[i].row.pw
        /\ peers[k].dials = PeerConfig(configs[i], snap).dials
    BY <2>1, <2>3 DEF SessInv, PeersInv
  <2>5. PICK j \in DOMAIN cfgs :
            /\ Key(cfgs[j].row) = k
            /\ cfgs[j].row.pw = configs[i].row.pw
            /\ PeerConfig(cfgs[j], snap).dials = PeerConfig(configs[i], snap).dials
    BY <2>1, <2>3
  <2>6. k \in DOMAIN peers' /\ peers'[k] = peers[k]
    BY <1>1, <2>2, <2>4, <2>5, SetKeeps
  <2>. QED
    BY <2>1, <2>2, <2>5, <2>6
<1>. QED
    BY <1>2, <1>3, <1>4 DEF SessInv

\* A call that does not: the sessions are as they were.
LEMMA FailureSessions ==
    ASSUME SessInv, running, UNCHANGED <<running, snap, peers, shared>>,
           Duplicates(configs') \subseteq shared,
           \A j \in DOMAIN configs' : \E m \in DOMAIN configs :
               configs'[j] = configs[m],
           \A k \in DOMAIN cache' : cache'[k] # {} =>
               /\ k \in DOMAIN cache
               /\ cache'[k] = cache[k]
               /\ \A i \in DOMAIN configs : Key(configs[i].row) = k =>
                    \E j \in DOMAIN configs' : Key(configs'[j].row) = k
    PROVE  SessInv'
<1>1. DupInv'
    BY DEF DupInv, Duplicates
<1>2. PeersInv'
    BY DEF SessInv, PeersInv, PeerConfig
<1>3. HeldInv'
    BY DEF SessInv, HeldInv
<1>. QED
    BY <1>1, <1>2, <1>3 DEF SessInv

\* The users that a call leaves with a session of their own.
LEMMA AppendDuplicates ==
    ASSUME configs \in Seq(Config), NEW c \in Config, ~Taken(c)
    PROVE  Duplicates(Append(configs, c)) \subseteq Duplicates(configs)
    BY AppendConfig DEF Duplicates, Taken

LEMMA RemoveDuplicates ==
    ASSUME configs \in Seq(Config), NEW i \in DOMAIN configs
    PROVE  Duplicates(RemovedAt(i)) \subseteq Duplicates(configs)
  <1> SUFFICES ASSUME NEW k \in Keys, NEW j \in DOMAIN RemovedAt(i),
                      NEW l \in DOMAIN RemovedAt(i), j # l,
                      Key(RemovedAt(i)[j].row) = k, Key(RemovedAt(i)[l].row) = k
               PROVE  k \in Duplicates(configs)
    BY DEF Duplicates
  <1>1. PICK m \in DOMAIN configs, o \in DOMAIN configs :
            m # o /\ RemovedAt(i)[j] = configs[m] /\ RemovedAt(i)[l] = configs[o]
    BY RemoveConfig
  <1>. QED
    BY <1>1 DEF Duplicates

LEMMA TrackSessions ==
    ASSUME TypeOK, SessInv, running, NEW h \in Requests,
           NEW c \in Config, Track(h, c), UNCHANGED <<running, snap>>
    PROVE  SessInv'
<1>1. configs \in Seq(Config) /\ UNCHANGED <<cache, shared>>
    BY TypeParts DEF ManagerTypes, Track
<1> DEFINE more == Append(configs, c)
<1>2. /\ more \in Seq(Config)
      /\ DOMAIN configs \subseteq DOMAIN more
      /\ \A i \in DOMAIN configs : more[i] = configs[i]
    BY <1>1, AppendConfig
<1>3. ~Taken(c) => Duplicates(more) \subseteq shared
    BY <1>1, AppendDuplicates DEF SessInv, DupInv
<1>4. CASE ~Taken(c) /\ SetPeers(more) /\ configs' = more
  <2> HIDE DEF more
  <2>. QED
    BY <1>1, <1>2, <1>3, <1>4, CallSessions
<1>5. CASE UNCHANGED <<configs, peers>>
    BY <1>1, <1>5, FailureSessions DEF SessInv, DupInv
<1>. QED
    BY <1>4, <1>5 DEF Track, SetPeersFails, speakerVars

LEMMA UpdateSessions ==
    ASSUME TypeInv, SessInv, NEW h \in Requests, UpdateTracked(h)
    PROVE  SessInv'
<1> DEFINE c == Requested(h)
<1>1. /\ TypeOK /\ c \in Config /\ configs \in Seq(Config) /\ running
      /\ UNCHANGED <<running, snap>>
    BY RequestedType, TypeParts DEF UpdateTracked, Calls, TypeInv, ManagerTypes
<1>2. PICK i \in DOMAIN configs :
        LET next == [configs EXCEPT ![i] = c]
        IN  \/ /\ SetPeers(next)
               /\ configs' = next
               /\ shared' = shared \cup Duplicates(next)
               /\ cache' = CacheForUpdate(configs[i], c)
            \/ /\ SetPeersFails(next)
               /\ ConfigsRolledBack(i, c)
               /\ UNCHANGED shared
               /\ cache' = CacheRolledBack(configs[i], c)
    BY DEF UpdateTracked, IndexOf
<1> DEFINE next == [configs EXCEPT ![i] = c]
<1> HIDE DEF c
<1>3. /\ next \in Seq(Config) /\ DOMAIN next = DOMAIN configs
      /\ next[i] = c /\ \A j \in DOMAIN configs : j # i => next[j] = configs[j]
    BY <1>1, ReplaceConfig
<1>4. CASE /\ SetPeers(next)
           /\ configs' = next
           /\ shared' = shared \cup Duplicates(next)
           /\ cache' = CacheForUpdate(configs[i], c)
  <2>1. SUFFICES ASSUME NEW k \in DOMAIN cache' \ shared', cache'[k] # {}
                 PROVE  /\ k \in DOMAIN cache
                        /\ cache'[k] = cache[k]
                        /\ \A m \in DOMAIN configs : Key(configs[m].row) = k =>
                             \E j \in DOMAIN next :
                                 /\ Key(next[j].row) = k
                                 /\ next[j].row.pw = configs[m].row.pw
                                 /\ PeerConfig(next[j], snap).dials =
                                      PeerConfig(configs[m], snap).dials
    <3> HIDE DEF next
    <3>. QED
      BY <1>1, <1>3, <1>4, CallSessions
  <2>2. k \in DOMAIN cache /\ cache'[k] = cache[k]
    BY <1>4 DEF CacheForUpdate, Without
  <2>3. Restarts(configs[i], c) => k # Key(configs[i].row)
    BY <1>4 DEF CacheForUpdate, Without
  <2>4. ~Restarts(configs[i], c) =>
            /\ Key(c.row) = Key(configs[i].row)
            /\ c.row.pw = configs[i].row.pw
            /\ PeerConfig(c, snap).dials = PeerConfig(configs[i], snap).dials
    BY DEF Restarts
  <2> HIDE DEF next
  <2>. QED
    BY <1>3, <2>2, <2>3, <2>4
<1>5. CASE /\ SetPeersFails(next)
           /\ ConfigsRolledBack(i, c)
           /\ UNCHANGED shared
           /\ cache' = CacheRolledBack(configs[i], c)
  <2>1. \A k \in DOMAIN cache' : cache'[k] # {} =>
            k \in DOMAIN cache /\ cache'[k] = cache[k]
    BY <1>5 DEF CacheRolledBack, CacheForUpdate, With, Without
  <2>2. UNCHANGED <<configs, peers>>
    BY <1>5 DEF ConfigsRolledBack, SetPeersFails
  <2>. QED
    BY <1>1, <1>5, <2>1, <2>2, FailureSessions DEF SessInv, DupInv
<1>. QED
    BY <1>2, <1>4, <1>5

LEMMA DeleteSessions ==
    ASSUME TypeInv, SessInv, NEW h \in Requests, DeletePeer(h)
    PROVE  SessInv'
<1>1. /\ TypeOK /\ configs \in Seq(Config) /\ running
      /\ UNCHANGED <<running, snap, shared>>
    BY TypeParts DEF DeletePeer, Calls, TypeInv, ManagerTypes
<1>2. CASE UNCHANGED <<configs, cache, speakerVars, faults>>
    BY <1>1, <1>2, SameManager DEF managerVars
<1>3. CASE \E i \in IndexOf(req[h].id) :
              /\ SetPeers(RemovedAt(i)) \/ SetPeersFails(RemovedAt(i))
              /\ configs' = RemovedAt(i)
              /\ cache' = Without(cache, Key(configs[i].row))
  <2>1. PICK i \in DOMAIN configs :
              /\ SetPeers(RemovedAt(i)) \/ SetPeersFails(RemovedAt(i))
              /\ configs' = RemovedAt(i)
              /\ cache' = Without(cache, Key(configs[i].row))
    BY <1>3 DEF IndexOf
  <2> DEFINE rest == RemovedAt(i)
  <2>2. /\ rest \in Seq(Config)
        /\ \A j \in DOMAIN rest : \E m \in DOMAIN configs : rest[j] = configs[m]
        /\ \A m \in DOMAIN configs : m # i =>
               \E j \in DOMAIN rest : rest[j] = configs[m]
        /\ Duplicates(rest) \subseteq shared
    BY <1>1, RemoveConfig, RemoveDuplicates DEF SessInv, DupInv
  <2>3. \A k \in DOMAIN cache' : /\ k \in DOMAIN cache /\ cache'[k] = cache[k]
                                 /\ k # Key(configs[i].row)
    BY <2>1 DEF Without
  <2> HIDE DEF rest
  <2>4. CASE SetPeers(rest)
    <3>1. \A k \in DOMAIN cache' : \A m \in DOMAIN configs :
              Key(configs[m].row) = k =>
                  \E j \in DOMAIN rest : rest[j] = configs[m]
      BY <2>2, <2>3
    <3>2. configs' = rest
      BY <2>1 DEF rest
    <3>3. \A k \in DOMAIN cache' \ shared' : cache'[k] # {} =>
             /\ k \in DOMAIN cache
             /\ cache'[k] = cache[k]
             /\ \A m \in DOMAIN configs : Key(configs[m].row) = k =>
                  \E j \in DOMAIN rest :
                      /\ Key(rest[j].row) = k
                      /\ rest[j].row.pw = configs[m].row.pw
                      /\ PeerConfig(rest[j], snap).dials =
                           PeerConfig(configs[m], snap).dials
      BY <2>3, <3>1
    <3>. QED
      BY <1>1, <2>2, <2>4, <3>2, <3>3, CallSessions
  <2>5. CASE SetPeersFails(rest)
    <3>1. UNCHANGED peers /\ configs' = rest
      BY <2>1, <2>5 DEF SetPeersFails, rest
    <3>. QED
      BY <1>1, <2>2, <2>3, <3>1, FailureSessions
  <2>. QED
    BY <2>1, <2>4, <2>5 DEF rest
<1>. QED
    BY <1>2, <1>3 DEF DeletePeer

LEMMA LoadSessions ==
    ASSUME TypeInv, NEW h \in Procs, LoadPeers(h)
    PROVE  SessInv'
<1>1. PICK ids \in [1..Cardinality(Loadable) -> Loadable] :
        LET cfgs == LoadedConfigs(ids)
            new == BuildPeerConfigs(cfgs, setting)
        IN  /\ shared' = Duplicates(cfgs)
            /\ \/ /\ configs' = cfgs
                  /\ peers' = PeersSet(Empty, new)
               \/ running' = FALSE
    BY DEF LoadPeers, LoadedConfigs, StartFailed, SpeakerGone
<1>2. snap' = setting /\ cache' = Empty
    BY DEF LoadPeers
<1> DEFINE cfgs == LoadedConfigs(ids)
<1> DEFINE new == BuildPeerConfigs(cfgs, setting)
<1>3. CASE configs' = cfgs /\ peers' = PeersSet(Empty, new)
  <2>1. cfgs \in Seq(Config) /\ setting \in Settings
    BY LoadedTypes, TypeParts DEF TypeInv, OutsideTypes
  <2>2. shared' = Duplicates(cfgs)
    BY <1>1
  <2> HIDE DEF cfgs
  <2>3. /\ new \in Seq(PeerConfigs) /\ DOMAIN new = DOMAIN cfgs
        /\ \A i \in DOMAIN cfgs : /\ new[i] = PeerConfig(cfgs[i], setting)
                                  /\ new[i].key = Key(cfgs[i].row)
                                  /\ new[i].pw = cfgs[i].row.pw
    BY <2>1, BuildPeerConfigsFacts
  <2> HIDE DEF new
  <2>4. \A i \in DOMAIN cfgs : new[i].key \in Keys
    <3>1. \A i \in DOMAIN new : new[i] \in PeerConfigs
      BY <2>3, ElementOfSeq, LenProperties
    <3>. QED
      BY <2>3, <3>1 DEF PeerConfigs
  <2>5. DupInv'
    BY <1>3, <2>2 DEF DupInv, Duplicates
  <2>6. PeersInv'
    <3> SUFFICES ASSUME NEW i \in DOMAIN cfgs, Key(cfgs[i].row) \notin shared'
                 PROVE  LET k == Key(cfgs[i].row)
                        IN  /\ k \in DOMAIN peers'
                            /\ peers'[k].pw = cfgs[i].row.pw
                            /\ peers'[k].dials = PeerConfig(cfgs[i], snap').dials
      BY <1>3 DEF PeersInv, PeerConfig
    <3>1. \A j \in DOMAIN new : new[j].key = new[i].key => j = i
      BY <2>2, <2>3, <2>4 DEF Duplicates
    <3>2. /\ new[i].key \in DOMAIN peers'
          /\ peers'[new[i].key].pw = new[i].pw
          /\ peers'[new[i].key].dials = new[i].dials
      BY <1>3, <2>3, <3>1, PeersSetMakes
    <3>. QED
      BY <1>2, <2>3, <3>2
  <2>7. HeldInv'
    BY <1>2 DEF HeldInv, Empty
  <2>. QED
    BY <2>5, <2>6, <2>7 DEF SessInv
<1>. QED
    BY <1>1, <1>3, NotRunningSessions

----------------------------------------------------------------------------
(* The loop of reconcileLocked *)

\* Nobody in the manager: nobody in its loop.
LEMMA NobodyLoops ==
    ASSUME CallTypes', holder' = Nobody
    PROVE  BusyInv' /\ LoopInv'
    BY ManagerAssumption DEF CallTypes, BusyInv, LoopInv, Mutex

\* A loop that has just begun has everything left to do.
LEMMA LoopBegins ==
    ASSUME TypeOK, NEW h \in Procs, NEW stage, StartLoop(h, stage),
           UNCHANGED <<running, configs>>, running, CallTypes'
    PROVE  BusyInv' /\ LoopInv'
<1>1. configs \in Seq(Config) /\ loop'.todo = configs
    BY TypeParts DEF ManagerTypes, StartLoop
<1>2. 0 \in 0..Len(configs) /\ Len(configs) = Len(configs) - 0
      /\ \A j \in 1..Len(configs) : configs[j] = configs[0 + j]
      /\ 1..0 = {}
    BY <1>1, LenProperties
<1>3. LoopInv'
    BY <1>1, <1>2 DEF LoopInv
<1>. QED
    BY <1>3 DEF BusyInv

LEMMA NextIndex ==
    ASSUME NEW len \in Nat, NEW n \in 0..len, NEW rest \in Nat,
           rest = len - n, rest # 0
    PROVE  /\ n \in Nat /\ 1 \in 1..rest
           /\ n + 1 \in 1..len /\ n + 1 \in 0..len
           /\ rest - 1 = len - (n + 1)
    OBVIOUS

LEMMA LastIndex ==
    ASSUME NEW len \in Nat, NEW n \in 0..len, 0 = len - n
    PROVE  n = len
    OBVIOUS

\* The next user of the loop is one of the tracked users.
LEMMA NextUser ==
    ASSUME TypeOK, LoopInv, NEW h \in Procs, Looping(h)
    PROVE  \E n \in 0..Len(configs) :
              /\ n \in Nat
              /\ n + 1 \in DOMAIN configs /\ n + 1 \in 0..Len(configs)
              /\ Head(loop.todo) = configs[n + 1]
              /\ Len(loop.todo) = Len(configs) - n
              /\ Len(Tail(loop.todo)) = Len(configs) - (n + 1)
              /\ \A j \in 1..Len(Tail(loop.todo)) :
                    Tail(loop.todo)[j] = configs[(n + 1) + j]
              /\ loop.failed \/ \A m \in 1..n : Delivered(configs[m])
<1>1. /\ loop.todo \in Seq(Config) /\ loop.todo # <<>>
      /\ configs \in Seq(Config)
    BY TypeParts DEF WorkTypes, Loops, ManagerTypes, Looping
<1>2. PICK n \in 0..Len(configs) :
            /\ Len(loop.todo) = Len(configs) - n
            /\ \A j \in 1..Len(loop.todo) : loop.todo[j] = configs[n + j]
            /\ loop.failed \/ \A m \in 1..n : Delivered(configs[m])
    BY DEF LoopInv, Looping
<1>3. /\ Len(configs) \in Nat /\ DOMAIN configs = 1..Len(configs)
      /\ Len(loop.todo) \in Nat /\ Len(loop.todo) # 0
      /\ Head(loop.todo) = loop.todo[1]
      /\ Len(Tail(loop.todo)) = Len(loop.todo) - 1
      /\ \A j \in 1..Len(Tail(loop.todo)) : Tail(loop.todo)[j] = loop.todo[j + 1]
    BY <1>1, LenProperties, EmptySeq, HeadTailProperties
<1>a. /\ n \in Nat /\ 1 \in 1..Len(loop.todo)
      /\ n + 1 \in 1..Len(configs) /\ n + 1 \in 0..Len(configs)
      /\ Len(loop.todo) - 1 = Len(configs) - (n + 1)
    BY <1>2, <1>3, NextIndex
<1>4. n + 1 \in DOMAIN configs /\ Head(loop.todo) = configs[n + 1]
    BY <1>2, <1>3, <1>a
<1>5. Len(Tail(loop.todo)) = Len(configs) - (n + 1)
    BY <1>3, <1>a
<1>6. \A j \in 1..Len(Tail(loop.todo)) :
          Tail(loop.todo)[j] = configs[(n + 1) + j]
  <2> SUFFICES ASSUME NEW j \in 1..Len(Tail(loop.todo))
               PROVE  Tail(loop.todo)[j] = configs[(n + 1) + j]
    OBVIOUS
  <2>1. j + 1 \in 1..Len(loop.todo) /\ n + (j + 1) = (n + 1) + j
    BY <1>3
  <2>. QED
    BY <1>2, <1>3, <2>1
<1>. QED
    BY <1>2, <1>a, <1>4, <1>5, <1>6

\* One more user is done.
LEMMA LoopGoesOn ==
    ASSUME TypeOK, BusyInv, LoopInv, NEW h \in Procs, Looping(h),
           loop'.todo = Tail(loop.todo), loop'.want = loop.want,
           UNCHANGED <<running, configs, shared, holder, pc>>,
           loop.failed => loop'.failed,
           Duplicates(configs) \subseteq shared,
           NEW c, c = Head(loop.todo), loop'.failed \/ Delivered(c)',
           \A d : Delivered(d) /\ Key(d.row) # Key(c.row) => Delivered(d)'
    PROVE  BusyInv' /\ LoopInv'
<1>1. PICK n \in 0..Len(configs) :
              /\ n \in Nat
              /\ n + 1 \in DOMAIN configs /\ n + 1 \in 0..Len(configs)
              /\ Head(loop.todo) = configs[n + 1]
              /\ Len(loop.todo) = Len(configs) - n
              /\ Len(Tail(loop.todo)) = Len(configs) - (n + 1)
              /\ \A j \in 1..Len(Tail(loop.todo)) :
                    Tail(loop.todo)[j] = configs[(n + 1) + j]
              /\ loop.failed \/ \A m \in 1..n : Delivered(configs[m])
    BY NextUser
<1>2. configs \in Seq(Config) /\ DOMAIN configs = 1..Len(configs) /\ Len(configs) \in Nat
    BY TypeParts, LenProperties DEF ManagerTypes
<1>3. n \in Nat /\ n + 1 \in 0..Len(configs)
    BY <1>1
<1>4. loop'.failed \/ \A m \in 1..(n + 1) : Delivered(configs[m])'
  <2> SUFFICES ASSUME ~loop'.failed, NEW m \in 1..(n + 1)
               PROVE  Delivered(configs[m])'
    OBVIOUS
  <2>1. CASE m = n + 1
    BY <1>1, <2>1 DEF Delivered, Desired
  <2>2. CASE m # n + 1
    <3>1. m \in 1..n /\ m \in DOMAIN configs
      BY <1>2, <1>3, <2>2
    <3>2. Delivered(configs[m])
      BY <1>1, <3>1
    <3>3. CASE Key(configs[m].row) = Key(configs[n + 1].row)
      <4>1. configs[m] \in Config
        BY <1>2, <3>1, ElementOfSeq
      <4>2. Key(configs[m].row) \in Keys
        BY <4>1 DEF Config, Row, Key, Keys
      <4>3. Key(configs[m].row) \in shared
        BY <1>1, <2>2, <3>1, <3>3, <4>2 DEF Duplicates
      <4>. QED
        BY <4>3 DEF Delivered
    <3>4. CASE Key(configs[m].row) # Key(configs[n + 1].row)
      BY <1>1, <3>1, <3>2, <3>4
    <3>. QED
      BY <3>3, <3>4
  <2>. QED
    BY <2>1, <2>2
<1>5. LoopInv'
    BY <1>1, <1>3, <1>4 DEF LoopInv
<1>6. BusyInv'
    BY DEF BusyInv, Mutex
<1>. QED
    BY <1>5, <1>6

LEMMA SkipLoop ==
    ASSUME TypeOK, SessInv, BusyInv, LoopInv, NEW h \in Procs, SkipPeer(h)
    PROVE  SessInv' /\ BusyInv' /\ LoopInv'
<1>1. /\ Looping(h) /\ UNCHANGED <<managerVars, holder, pc>>
      /\ loop' = [loop EXCEPT !.todo = Tail(@)]
      /\ ~Head(loop.todo).row.enabled \/ UpToDate(Head(loop.todo))
    BY DEF SkipPeer
<1>2. loop \in Loops
    BY TypeParts DEF WorkTypes
<1>3. /\ loop'.todo = Tail(loop.todo) /\ loop'.want = loop.want
      /\ loop'.failed = loop.failed
    BY <1>1, <1>2 DEF Loops
<1>4. running
    BY <1>1 DEF BusyInv, Looping, Mutex
<1>5. PICK c : c = Head(loop.todo)
    OBVIOUS
<1>9. Delivered(c)
    BY <1>1, <1>4, <1>5 DEF Delivered, UpToDate, SessInv, HeldInv
<1>6. \A d : Delivered(d) => Delivered(d)'
    BY <1>1, <1>3 DEF Delivered, Desired, managerVars, speakerVars
<1>7. UNCHANGED <<running, configs, shared, holder, pc>>
    BY <1>1 DEF managerVars
<1>8. BusyInv' /\ LoopInv'
    BY <1>1, <1>3, <1>4, <1>5, <1>6, <1>7, <1>9, LoopGoesOn DEF SessInv, DupInv
<1>. QED
    BY <1>1, <1>8, SameManager

LEMMA AnnounceLoop ==
    ASSUME TypeOK, SessInv, BusyInv, LoopInv, NEW h \in Procs, AnnouncePeer(h)
    PROVE  SessInv' /\ BusyInv' /\ LoopInv'
<1>c. PICK c : c = Head(loop.todo)
    OBVIOUS
<1>k. PICK k, rs : k = Key(c.row) /\ rs = Desired(c)
    OBVIOUS
<1>1. /\ Looping(h) /\ peers' = Announced(k, rs)
      /\ UNCHANGED <<running, snap, configs, shared, holder, pc>>
      /\ \/ /\ k \in DOMAIN peers
            /\ cache' = With(cache, k, rs)
            /\ loop' = [loop EXCEPT !.todo = Tail(@)]
         \/ /\ cache' = Without(cache, k)
            /\ loop' = [loop EXCEPT !.todo = Tail(@), !.failed = TRUE]
    BY <1>c, <1>k DEF AnnouncePeer, CacheDropped
<1>2. /\ loop \in Loops /\ IsPartial(peers, Keys, Peers) /\ configs \in Seq(Config)
    BY TypeParts DEF WorkTypes, SpeakerTypes, ManagerTypes
<1>3. running
    BY <1>1 DEF BusyInv, Looping, Mutex
<1>4. PICK n \in DOMAIN configs : c = configs[n]
    BY <1>c, <1>1, NextUser
<1>5. rs \in SUBSET Routes
  <2>1. c \in Config
    BY <1>2, <1>4, ElementOfSeq, LenProperties
  <2>. QED
    BY <1>k, <1>2, <2>1 DEF Desired, Loops, Config
<1>6. /\ DOMAIN peers' = DOMAIN peers
      /\ \A x \in DOMAIN peers \ {k} : peers'[x] = peers[x]
      /\ k \in DOMAIN peers =>
            /\ peers'[k].pw = peers[k].pw /\ peers'[k].dials = peers[k].dials
            /\ peers'[k].routes = rs
    BY <1>1, <1>2, <1>5 DEF Announced, IsPartial, Peers
<1>7. DupInv'
    BY <1>1 DEF SessInv, DupInv, Duplicates
<1>8. PeersInv'
    BY <1>1, <1>6 DEF SessInv, PeersInv, PeerConfig
<1>9. HeldInv'
  <2> SUFFICES ASSUME NEW x \in DOMAIN cache' \ shared, cache'[x] # {}
               PROVE  /\ \E i \in DOMAIN configs : Key(configs[i].row) = x
                      /\ x \in DOMAIN peers' /\ peers'[x].routes = cache'[x]
    BY <1>1 DEF HeldInv
  <2>1. CASE x = k
    BY <1>k, <1>1, <1>4, <1>6, <2>1 DEF With, Without
  <2>2. CASE x # k
    <3>1. x \in DOMAIN cache /\ cache'[x] = cache[x]
      BY <1>1, <2>2 DEF With, Without
    <3>. QED
      BY <1>3, <1>6, <2>2, <3>1 DEF SessInv, HeldInv
  <2>. QED
    BY <2>1, <2>2
<1>10. /\ loop'.todo = Tail(loop.todo) /\ loop'.want = loop.want
       /\ loop.failed => loop'.failed
       /\ ~loop'.failed => k \in DOMAIN peers
    BY <1>1, <1>2 DEF Loops
<1>11. \A d : Delivered(d) /\ Key(d.row) # k => Delivered(d)'
    BY <1>1, <1>6, <1>10 DEF Delivered, Desired
<1>12. ~loop'.failed => Delivered(c)'
    BY <1>k, <1>6, <1>10 DEF Delivered, Desired
<1>13. Duplicates(configs) \subseteq shared
    BY <1>3 DEF SessInv, DupInv
<1>14. BusyInv' /\ LoopInv'
    BY <1>c, <1>k, <1>1, <1>10, <1>11, <1>12, <1>13, LoopGoesOn
<1>. QED
    BY <1>7, <1>8, <1>9, <1>14 DEF SessInv

----------------------------------------------------------------------------
(* Every step *)

\* The steps that leave the manager alone, and whose goroutine is then not in
\* its loop.
Outside(h) ==
    \/ Starting(h)
    \/ CommitCreate(h) \/ CommitUpdate(h) \/ CommitDelete(h)
    \/ CommitRoutes(h) \/ CommitSetting(h) \/ NotifySetting(h)
    \/ FiltersNotSaved(h) \/ ReadUser(h) \/ NotRunning(h) \/ ClearPending(h)

LEMMA OutsideSteps ==
    ASSUME NEW h \in Requests, Outside(h)
    PROVE  /\ UNCHANGED <<managerVars, holder, loop>>
           /\ \E stage \in Stages \ {"loop", "loaded", "startloop"} : Goto(h, stage)
<1>1. /\ {"commit", "reconcile", "load", "add", "read", "delete", "notify",
          "update", Idle} \subseteq Stages
      /\ Idle \notin {"loop", "loaded", "startloop"}
    BY DEF Stages, Idle
<1>2. CASE Starting(h)
    BY <1>1, <1>2 DEF Starting, BeginCreate, BeginUpdate, BeginDelete,
                 BeginRoutes, BeginSetting, BeginSync, BeginReload, Begin
<1>3. CASE CommitCreate(h)
    BY <1>1, <1>3 DEF CommitCreate, Commits
<1>4. CASE CommitUpdate(h)
    BY <1>1, <1>4 DEF CommitUpdate, Commits
<1>5. CASE CommitDelete(h)
    BY <1>1, <1>5 DEF CommitDelete, Commits
<1>6. CASE CommitRoutes(h) \/ CommitSetting(h)
    BY <1>1, <1>6 DEF CommitRoutes, CommitSetting, Commits
<1>7. CASE NotifySetting(h) \/ FiltersNotSaved(h) \/ ClearPending(h)
    BY <1>1, <1>7 DEF NotifySetting, FiltersNotSaved, ClearPending
<1>8. CASE ReadUser(h)
    BY <1>1, <1>8 DEF ReadUser
<1>9. CASE NotRunning(h)
    BY <1>1, <1>9 DEF NotRunning
<1>. QED
    BY <1>2, <1>3, <1>4, <1>5, <1>6, <1>7, <1>8, <1>9 DEF Outside

LEMMA OutsideLoops ==
    ASSUME TypeOK, BusyInv, LoopInv, CallTypes',
           UNCHANGED <<managerVars, holder, loop>>,
           \A g \in Procs : pc'[g] \in {"loop", "startloop"} =>
               pc[g] \in {"loop", "startloop"}
    PROVE  BusyInv' /\ LoopInv'
<1>1. UNCHANGED <<running, configs, shared, peers>>
    BY DEF managerVars, speakerVars
<1>2. BusyInv'
  <2>1. \A g \in Procs : Mutex(g)' => Mutex(g)
    BY TypeParts DEF CallTypes
  <2>. QED
    BY <1>1, <2>1 DEF BusyInv
<1>3. \A c : Delivered(c) => Delivered(c)'
    BY <1>1 DEF Delivered, Desired
<1>4. LoopInv'
    BY <1>1, <1>3 DEF LoopInv
<1>. QED
    BY <1>2, <1>4

LEMMA OutsideInv ==
    ASSUME IInv, TypeInv', NEW h \in Requests, Outside(h)
    PROVE  SessInv' /\ BusyInv' /\ LoopInv'
<1>1. /\ TypeOK /\ CallTypes' /\ CallTypes
      /\ UNCHANGED <<managerVars, holder, loop>>
    BY OutsideSteps, TypeParts, TypePartsNext DEF IInv, TypeInv
<1>2. PICK stage \in Stages \ {"loop", "loaded", "startloop"} : Goto(h, stage)
    BY OutsideSteps
<1>3. \A g \in Procs : pc'[g] \in {"loop", "startloop"} =>
          pc[g] \in {"loop", "startloop"}
    BY <1>1, <1>2 DEF Goto, CallTypes
<1>. QED
    BY <1>1, <1>3, SameManager, OutsideLoops DEF IInv, SessInv

LEMMA IInvStep ==
    ASSUME IInv, [Next]_vars
    PROVE  IInv'
<1>1. /\ TypeInv /\ TypeOK /\ SessInv /\ BusyInv /\ LoopInv
      /\ TypeInv' /\ CallTypes' /\ CallTypes
    BY TypeStep, TypeParts, TypePartsNext DEF IInv, SessInv, TypeInv
<1>2. SUFFICES SessInv' /\ BusyInv' /\ LoopInv'
    BY <1>1 DEF IInv, SessInv
<1>3. ASSUME NEW h \in Requests, Outside(h)
      PROVE  SessInv' /\ BusyInv' /\ LoopInv'
    BY <1>1, <1>3, OutsideInv
<1>4. ASSUME NEW h \in Requests,
             AddPeer(h) \/ UpdateUntracked(h) \/ UpdateTracked(h) \/ DeletePeer(h)
      PROVE  SessInv' /\ BusyInv' /\ LoopInv'
  <2>1. BusyInv' /\ LoopInv'
    BY <1>1, <1>4, NobodyLoops
       DEF AddPeer, UpdateUntracked, UpdateTracked, DeletePeer, Calls
  <2>2. CASE AddPeer(h) \/ UpdateUntracked(h)
    BY <1>1, <2>1, <2>2, TrackSessions, RequestedType
       DEF AddPeer, UpdateUntracked, Calls
  <2>3. CASE UpdateTracked(h)
    BY <1>1, <2>1, <2>3, UpdateSessions
  <2>4. CASE DeletePeer(h)
    BY <1>1, <2>1, <2>4, DeleteSessions
  <2>. QED
    BY <1>4, <2>2, <2>3, <2>4
<1>5. ASSUME NEW h \in Requests, Reconcile(h)
      PROVE  SessInv' /\ BusyInv' /\ LoopInv'
  <2>1. SessInv'
    BY <1>1, <1>5, SameManager DEF Reconcile
  <2>2. CASE StartLoop(h, "loop")
    BY <1>1, <1>5, <2>1, <2>2, LoopBegins DEF Reconcile, managerVars, Procs
  <2>3. CASE UNCHANGED holder
    BY <1>1, <1>5, <2>1, <2>3, NobodyLoops DEF Reconcile
  <2>. QED
    BY <1>5, <2>2, <2>3 DEF Reconcile
<1>6. ASSUME NEW h \in Requests, EndReconcile(h)
      PROVE  SessInv' /\ BusyInv' /\ LoopInv'
    BY <1>1, <1>6, SameManager, NobodyLoops DEF EndReconcile, MutexReleased
<1>7. ASSUME NEW h \in Procs, SkipPeer(h) \/ AnnouncePeer(h)
      PROVE  SessInv' /\ BusyInv' /\ LoopInv'
    BY <1>1, <1>7, SkipLoop, AnnounceLoop
<1>8. ASSUME NEW h \in Procs, LoadPeers(h)
      PROVE  SessInv' /\ BusyInv' /\ LoopInv'
  <2>1. SessInv'
    BY <1>1, <1>8, LoadSessions
  <2>2. CASE holder' = h /\ running' = TRUE /\ Goto(h, "loaded")
    <3>1. pc'[h] = "loaded" /\ \A g \in Procs \ {h} : ~Mutex(g)'
      BY <1>1, <2>2 DEF CallTypes, Goto
    <3>. QED
      BY <2>1, <2>2, <3>1 DEF BusyInv, LoopInv, Mutex
  <2>3. CASE UNCHANGED holder
    BY <1>1, <1>8, <2>1, <2>3, NobodyLoops DEF LoadPeers
  <2>. QED
    BY <1>8, <2>2, <2>3 DEF LoadPeers
<1>9. ASSUME NEW h \in Procs, LoadRoutes(h)
      PROVE  SessInv' /\ BusyInv' /\ LoopInv'
  <2>1. Mutex(h) /\ running
    BY <1>1, <1>9 DEF LoadRoutes, Mutex, BusyInv
  <2>2. CASE StartLoop(h, "startloop") /\ UNCHANGED <<running, speakerVars>>
    <3>1. UNCHANGED managerVars
      BY <1>9, <2>2 DEF LoadRoutes, managerVars
    <3>. QED
      BY <1>1, <2>1, <2>2, <3>1, SameManager, LoopBegins DEF managerVars
  <2>3. CASE StartFailed(h) /\ MutexReleased(h)
    BY <1>1, <2>3, NotRunningSessions, NobodyLoops
       DEF StartFailed, SpeakerGone, MutexReleased
  <2>. QED
    BY <1>9, <2>2, <2>3 DEF LoadRoutes
<1>10. ASSUME NEW h \in Procs, EndStart(h)
       PROVE  SessInv' /\ BusyInv' /\ LoopInv'
  <2>1. holder' = Nobody
    BY <1>10 DEF EndStart, MutexReleased
  <2>2. CASE StartFailed(h)
    BY <1>1, <2>1, <2>2, NotRunningSessions, NobodyLoops
       DEF StartFailed, SpeakerGone
  <2>3. CASE UNCHANGED <<running, speakerVars>>
    <3>1. UNCHANGED managerVars
      BY <1>10, <2>3 DEF EndStart, managerVars
    <3>. QED
      BY <1>1, <2>1, <3>1, SameManager, NobodyLoops
  <2>. QED
    BY <1>10, <2>2, <2>3 DEF EndStart
<1>11. ASSUME Stop
       PROVE  SessInv' /\ BusyInv' /\ LoopInv'
    BY <1>1, <1>11, NotRunningSessions, NobodyLoops DEF Stop, SpeakerGone
<1>12. CASE UNCHANGED vars
  <2>1. UNCHANGED <<managerVars, holder, loop, pc>>
    BY <1>12 DEF vars
  <2>. QED
    BY <1>1, <2>1, SameManager, OutsideLoops
<1>13. ASSUME NEW h \in Requests, Starting(h) \/ Request(h)
       PROVE  SessInv' /\ BusyInv' /\ LoopInv'
    BY <1>3, <1>4, <1>5, <1>6, <1>13 DEF Request, Outside
<1>14. ASSUME NEW h \in Procs, Loading(h)
       PROVE  SessInv' /\ BusyInv' /\ LoopInv'
    BY <1>7, <1>8, <1>9, <1>10, <1>14 DEF Loading
<1>. QED
    BY <1>11, <1>12, <1>13, <1>14 DEF Next

LEMMA IInvInit == Init => IInv
<1> SUFFICES ASSUME Init PROVE IInv
    OBVIOUS
<1>1. TypeInv /\ running = FALSE
    BY TypeInvInit DEF Init
<1>2. \A h \in Procs : pc[h] \notin {"loop", "loaded", "startloop"}
    BY DEF Init, Idle
<1>. QED
    BY <1>1, <1>2 DEF IInv, DupInv, PeersInv, HeldInv, BusyInv, LoopInv, Mutex

LEMMA AlwaysIInv == Spec => []IInv
    BY IInvInit, IInvStep, PTL DEF Spec

\* What peerRoutes says a session has, it has been told to announce, whatever
\* calls were made since: an announcement that is skipped was not needed.
THEOREM CacheIsTrue == Spec => []CacheDelivered
<1>1. IInv => CacheDelivered
    BY DEF IInv, HeldInv, CacheDelivered
<1>. QED
    BY <1>1, AlwaysIInv, PTL

\* A reconciliation that returns no error has left every enabled tracked user
\* with the routes the store desired for them, whatever it skipped.
THEOREM ReconcileIsComplete == Spec => []ReconcileDelivers
<1>1. ASSUME IInv PROVE ReconcileDelivers
  <2> SUFFICES ASSUME NEW i \in DOMAIN configs, NEW h \in Procs,
                      pc[h] \in {"loop", "startloop"}, AtEnd
               PROVE  Delivered(configs[i])
    BY DEF ReconcileDelivers, Delivered
  <2>1. configs \in Seq(Config) /\ loop.todo = <<>> /\ ~loop.failed
    BY <1>1, TypeParts DEF IInv, TypeInv, ManagerTypes, AtEnd
  <2>2. PICK n \in 0..Len(configs) :
            /\ Len(loop.todo) = Len(configs) - n
            /\ \A m \in 1..n : Delivered(configs[m])
    BY <1>1, <2>1 DEF IInv, LoopInv
  <2>3. Len(configs) \in Nat /\ DOMAIN configs = 1..Len(configs) /\ Len(loop.todo) = 0
    BY <2>1, LenProperties
  <2>4. n = Len(configs)
    BY <2>2, <2>3, LastIndex
  <2>. QED
    BY <2>2, <2>3, <2>4
<1>. QED
    BY <1>1, AlwaysIInv, PTL

----------------------------------------------------------------------------
(* What a call does to the other users *)

\* Only its own call takes a request out of a stage in which it has to make one.
LEMMA OnlyItsCall ==
    ASSUME TypeInv, [Next]_vars, NEW h \in Procs,
           pc[h] \in {"add", "update", "delete"}, pc'[h] # pc[h]
    PROVE  /\ h \in Requests
           /\ \/ AddPeer(h) \/ UpdateUntracked(h) \/ UpdateTracked(h)
              \/ DeletePeer(h)
              \/ UNCHANGED managerVars
<1>1. pc \in [Procs -> Stages] /\ Requests \subseteq Procs /\ Main \in Procs
    BY TypeParts DEF TypeInv, CallTypes, Procs
<1>2. ASSUME NEW g \in Procs, NEW stage, Goto(g, stage)
      PROVE  g = h
    BY <1>1, <1>2 DEF Goto
<1>3. ASSUME NEW g \in Requests, Starting(g) \/ Request(g)
      PROVE  /\ g = h
             /\ \/ AddPeer(g) \/ UpdateUntracked(g) \/ UpdateTracked(g)
                \/ DeletePeer(g)
                \/ UNCHANGED managerVars
  <2>1. CASE Outside(g)
    BY <1>1, <1>2, <2>1, OutsideSteps
  <2>2. CASE AddPeer(g) \/ UpdateUntracked(g) \/ UpdateTracked(g) \/ DeletePeer(g)
    <3>1. \E stage \in {Idle, "reconcile"} : Goto(g, stage)
      BY <2>2 DEF AddPeer, UpdateUntracked, UpdateTracked, DeletePeer, Track
    <3>2. g = h
      BY <1>1, <1>2, <3>1
    <3>. QED
      BY <2>2, <3>2
  <2>3. CASE Reconcile(g) \/ EndReconcile(g)
    <3>1. \E stage \in {Idle, "loop"} : Goto(g, stage)
      BY <2>3 DEF Reconcile, EndReconcile, StartLoop
    <3>2. pc[g] \in {"reconcile", "loop"}
      BY <2>3 DEF Reconcile, EndReconcile
    <3>. QED
      BY <1>1, <1>2, <3>1, <3>2
  <2>. QED
    BY <1>3, <2>1, <2>2, <2>3 DEF Request, Outside
<1>4. ASSUME NEW g \in Procs, Loading(g) PROVE FALSE
  <2>1. CASE SkipPeer(g) \/ AnnouncePeer(g)
    BY <2>1 DEF SkipPeer, AnnouncePeer
  <2>2. CASE LoadPeers(g) \/ LoadRoutes(g) \/ EndStart(g)
    <3>1. pc[g] \in {"load", "loaded", "startloop"}
      BY <2>2 DEF LoadPeers, LoadRoutes, EndStart
    <3>2. \E stage : Goto(g, stage)
      BY <2>2 DEF LoadPeers, LoadRoutes, EndStart, StartFailed, StartLoop
    <3>. QED
      BY <1>1, <1>2, <3>1, <3>2
  <2>. QED
    BY <1>4, <2>1, <2>2 DEF Loading
<1>5. ~Stop
    BY <1>1, <1>2 DEF Stop, Serving
<1>6. ~UNCHANGED vars
    BY DEF vars
<1>. QED
    BY <1>3, <1>4, <1>5, <1>6 DEF Next

\* An update that ends in an error, at whichever point, has left every tracked
\* user and every session as they were.
THEOREM FailedUpdatesAreUndone == Spec => FailedUpdateChangesNothing
<1>1. ASSUME TypeInv, [Next]_vars, NEW h \in Procs,
             pc[h] = "update", pc'[h] = Idle
      PROVE  UNCHANGED <<configs, peers>>
  <2>1. h \in Requests /\ pc'[h] # pc[h] /\ pc'[h] # "reconcile"
    BY <1>1, OnlyItsCall DEF Idle
  <2>2. \/ AddPeer(h) \/ UpdateUntracked(h) \/ UpdateTracked(h) \/ DeletePeer(h)
        \/ UNCHANGED managerVars
    BY <1>1, <2>1, OnlyItsCall
  <2>3. ~AddPeer(h) /\ ~DeletePeer(h)
    BY <1>1 DEF AddPeer, DeletePeer, Calls
  <2>4. pc \in [Procs -> Stages] /\ h \in Procs
    BY <1>1, TypeParts DEF TypeInv, CallTypes
  <2>5. ~Goto(h, "reconcile")
    BY <2>1, <2>4 DEF Goto
  <2>6. CASE UpdateUntracked(h)
    BY <2>5, <2>6 DEF UpdateUntracked, Track, SetPeersFails, speakerVars
  <2>7. CASE UpdateTracked(h)
    BY <2>5, <2>7 DEF UpdateTracked, SetPeersFails, ConfigsRolledBack
  <2>8. CASE UNCHANGED managerVars
    BY <2>8 DEF managerVars, speakerVars
  <2>. QED
    BY <2>2, <2>3, <2>6, <2>7, <2>8
<1>2. TypeInv /\ [Next]_vars =>
        [\A h \in Procs :
            pc[h] = "update" /\ pc'[h] = Idle => UNCHANGED <<configs, peers>>]_vars
    BY <1>1
<1>3. TypeInv /\ [Next]_vars => TypeInv'
    BY TypeStep
<1>. QED
    BY <1>2, <1>3, TypeInvInit, PTL DEF Spec, FailedUpdateChangesNothing

\* A user who shares no session keeps it, with its routes, through every call
\* about another user.
LEMMA OtherSession ==
    ASSUME IInv, [Next]_vars, NEW h \in Procs, NEW i \in DOMAIN configs, running,
           pc[h] \in {"add", "update", "delete"}, pc'[h] # pc[h],
           configs[i].id # req[h].id, Key(configs[i].row) \notin shared'
    PROVE  LET k == Key(configs[i].row)
           IN  k \in DOMAIN peers' /\ peers'[k] = peers[k]
<1> DEFINE k == Key(configs[i].row)
<1>1. /\ TypeInv /\ TypeOK /\ SessInv /\ SessInv'
      /\ configs \in Seq(Config) /\ snap \in Settings
    BY IInvStep, TypeParts DEF IInv, SessInv, TypeInv, ManagerTypes
<1>2. /\ h \in Requests
      /\ \/ AddPeer(h) \/ UpdateUntracked(h) \/ UpdateTracked(h) \/ DeletePeer(h)
         \/ UNCHANGED managerVars
    BY <1>1, OnlyItsCall
<1>3. shared \subseteq shared'
    BY <1>2 DEF AddPeer, UpdateUntracked, UpdateTracked, DeletePeer, Track,
                managerVars
<1>4. /\ k \in DOMAIN peers
      /\ peers[k].pw = configs[i].row.pw
      /\ peers[k].dials = PeerConfig(configs[i], snap).dials
    BY <1>1, <1>3 DEF SessInv, PeersInv
<1>5. CASE UNCHANGED peers
    BY <1>4, <1>5
<1>6. ASSUME NEW cfgs \in Seq(Config), SetPeers(cfgs),
             Duplicates(cfgs) \subseteq shared',
             \E j \in DOMAIN cfgs : cfgs[j] = configs[i]
      PROVE  k \in DOMAIN peers' /\ peers'[k] = peers[k]
    BY <1>1, <1>4, <1>6, SetKeeps
<1>7. CASE AddPeer(h) \/ UpdateUntracked(h)
  <2>1. Requested(h) \in Config /\ Track(h, Requested(h))
    BY <1>1, <1>2, <1>7, RequestedType DEF AddPeer, UpdateUntracked, Calls
  <2> DEFINE more == Append(configs, Requested(h))
  <2>2. CASE ~Taken(Requested(h)) /\ SetPeers(more)
    <3>1. Duplicates(more) \subseteq shared'
      BY <1>1, <1>3, <2>1, <2>2, AppendDuplicates DEF SessInv, DupInv
    <3>2. more \in Seq(Config) /\ \E j \in DOMAIN more : more[j] = configs[i]
      BY <1>1, <2>1, AppendConfig
    <3> HIDE DEF more
    <3>. QED
      BY <1>6, <2>2, <3>1, <3>2
  <2>. QED
    BY <1>5, <2>1, <2>2 DEF Track, SetPeersFails, speakerVars
<1>8. CASE UpdateTracked(h)
  <2>1. Requested(h) \in Config
    BY <1>1, <1>2, <1>8, RequestedType DEF UpdateTracked, Calls
  <2>2. PICK m \in IndexOf(Requested(h).id) :
            LET next == [configs EXCEPT ![m] = Requested(h)]
            IN  \/ SetPeers(next) /\ shared' = shared \cup Duplicates(next)
                \/ UNCHANGED peers
    BY <1>8 DEF UpdateTracked, SetPeersFails
  <2> DEFINE next == [configs EXCEPT ![m] = Requested(h)]
  <2>3. m \in DOMAIN configs /\ m # i
    BY DEF IndexOf, Requested
  <2>4. next \in Seq(Config) /\ \E j \in DOMAIN next : next[j] = configs[i]
    BY <1>1, <2>1, <2>3, ReplaceConfig
  <2> HIDE DEF next
  <2>5. CASE SetPeers(next) /\ shared' = shared \cup Duplicates(next)
    BY <1>6, <2>4, <2>5
  <2>. QED
    BY <1>5, <2>2, <2>5 DEF next
<1>9. CASE DeletePeer(h)
  <2>1. CASE UNCHANGED speakerVars
    BY <1>5, <2>1 DEF speakerVars
  <2>2. CASE \E m \in IndexOf(req[h].id) :
                SetPeers(RemovedAt(m)) \/ SetPeersFails(RemovedAt(m))
    <3>1. PICK m \in DOMAIN configs :
                /\ m # i
                /\ SetPeers(RemovedAt(m)) \/ SetPeersFails(RemovedAt(m))
      BY <2>2 DEF IndexOf
    <3> DEFINE rest == RemovedAt(m)
    <3>2. /\ rest \in Seq(Config) /\ \E j \in DOMAIN rest : rest[j] = configs[i]
          /\ Duplicates(rest) \subseteq shared'
      BY <1>1, <1>3, <3>1, RemoveConfig, RemoveDuplicates DEF SessInv, DupInv
    <3> HIDE DEF rest
    <3>3. CASE SetPeers(rest)
      BY <1>6, <3>2, <3>3
    <3>4. CASE SetPeersFails(rest)
      BY <1>5, <3>4 DEF SetPeersFails
    <3>. QED
      BY <3>1, <3>3, <3>4 DEF rest
  <2>. QED
    BY <1>9, <2>1, <2>2 DEF DeletePeer
<1>. QED
    BY <1>2, <1>5, <1>7, <1>8, <1>9 DEF managerVars, speakerVars

\* A call about one user does not touch the session of another one, unless
\* two tracked users have shared it: SetPeers restarts only what changed.
THEOREM OthersAreLeftAlone == Spec => OthersKeepTheirSession
<1>1. IInv /\ [Next]_vars =>
        [\A h \in Procs, i \in DOMAIN configs :
          LET k == Key(configs[i].row)
          IN  /\ running
              /\ pc[h] \in {"add", "update", "delete"}
              /\ pc'[h] # pc[h]
              /\ configs[i].id # req[h].id
              /\ k \notin shared'
              => k \in DOMAIN peers' /\ peers'[k] = peers[k]]_vars
    BY OtherSession
<1>2. IInv /\ [Next]_vars => IInv'
    BY IInvStep
<1>. QED
    BY <1>1, <1>2, IInvInit, PTL DEF Spec, OthersKeepTheirSession

----------------------------------------------------------------------------
(* One request at a time *)

\* Where the main goroutine can be.
MainStages == {"load", "loaded", "startloop", "serve", "stopped"}

\* Without overlap, one request runs at a time, and only after the start.
SerialInv ==
    /\ \A g, h \in Requests : Running(g) /\ Running(h) => g = h
    /\ \A h \in Requests : Running(h) => pc[Main] \in {"serve", "stopped"}
    /\ pc[Main] \in MainStages

\* The stages in which a start has read the settings and has not yet answered.
Started(h) == pc[h] \in {"loaded", "startloop", "clear"}
\* No setting changes between the moment a start reads the settings and the
\* moment a reload clears the flag.
LoadedInv == \A h \in Procs : Started(h) => setting = snap
\* A change that is not in effect is flagged, or is about to be.
NotedInv ==
    running /\ setting # snap => pending \/ \E h \in Requests : pc[h] = "notify"

\* What a step of one goroutine does to the others: nothing.
Moves(h, stage) ==
    /\ pc'[h] = stage
    /\ \A g \in Procs \ {h} : pc'[g] = pc[g]
LEMMA GotoMoves ==
    ASSUME CallTypes, NEW h \in Procs, NEW stage, Goto(h, stage)
    PROVE  Moves(h, stage)
    BY DEF CallTypes, Goto, Moves

\* A request that begins, while no other one runs.
LEMMA StartingMoves ==
    ASSUME CallTypes, ~Overlap, NEW h \in Requests, Starting(h)
    PROVE  /\ pc[Main] = "serve" /\ \A g \in Requests : pc[g] = Idle
           /\ UNCHANGED <<store, setting, pending, running, snap, faults>>
           /\ \E stage \in {"commit", "reconcile", "load"} : Moves(h, stage)
<1>2. ASSUME NEW r, NEW stage \in {"commit", "reconcile", "load"},
             Begin(h, r, stage)
      PROVE  /\ pc[Main] = "serve" /\ \A g \in Requests : pc[g] = Idle
             /\ UNCHANGED <<store, setting, pending, running, snap, faults>>
             /\ Moves(h, stage)
    BY <1>2, GotoMoves DEF Begin, Serving, Running, outside, managerVars, Procs
<1>. QED
    BY <1>2 DEF Starting, BeginCreate, BeginUpdate, BeginDelete, BeginRoutes,
                BeginSetting, BeginSync, BeginReload

\* A request that goes on; only three steps of it are about the settings.
LEMMA RequestMoves ==
    ASSUME CallTypes, NEW h \in Requests, Request(h)
    PROVE  /\ pc[h] # Idle
           /\ UNCHANGED <<running, snap>>
           /\ \/ /\ UNCHANGED <<setting, pending>>
                 /\ pc[h] # "notify"
                 /\ \E stage \in {Idle, "add", "read", "update", "delete",
                                  "reconcile", "loop"} : Moves(h, stage)
              \/ CommitSetting(h) /\ pc[h] = "commit" /\ Moves(h, "notify")
              \/ NotifySetting(h) /\ pc[h] = "notify" /\ Moves(h, Idle)
              \/ ClearPending(h) /\ pc[h] = "clear" /\ Moves(h, Idle)
<1> DEFINE Plain == {Idle, "add", "read", "update", "delete", "reconcile", "loop"}
<1> DEFINE Result ==
        /\ pc[h] # Idle
        /\ UNCHANGED <<running, snap>>
        /\ UNCHANGED <<setting, pending>>
        /\ pc[h] # "notify"
        /\ \E stage \in Plain : Moves(h, stage)
<1>0. h \in Procs
    BY DEF Procs
<1>1. \A stage : Goto(h, stage) => Moves(h, stage)
    BY <1>0, GotoMoves
<1>2. CASE CommitCreate(h)
  <2>1. \E stage \in Plain : Goto(h, stage)
    BY <1>2 DEF CommitCreate
  <2>. QED
    BY <1>1, <1>2, <2>1 DEF CommitCreate, Commits, managerVars, Idle
<1>3. CASE CommitUpdate(h)
  <2>1. \E stage \in Plain : Goto(h, stage)
    BY <1>3 DEF CommitUpdate
  <2>. QED
    BY <1>1, <1>3, <2>1 DEF CommitUpdate, Commits, managerVars, Idle
<1>4. CASE CommitDelete(h)
  <2>1. \E stage \in Plain : Goto(h, stage)
    BY <1>4 DEF CommitDelete
  <2>. QED
    BY <1>1, <1>4, <2>1 DEF CommitDelete, Commits, managerVars, Idle
<1>5. CASE CommitRoutes(h)
    BY <1>1, <1>5 DEF CommitRoutes, Commits, managerVars, Idle
<1>6. CASE FiltersNotSaved(h) \/ ReadUser(h)
  <2>1. \E stage \in Plain : Goto(h, stage)
    BY <1>6 DEF FiltersNotSaved, ReadUser
  <2>. QED
    BY <1>1, <1>6, <2>1 DEF FiltersNotSaved, ReadUser, managerVars, outside, Idle
<1>7. CASE NotRunning(h)
  <2>1. \E stage \in Plain : Goto(h, stage)
    BY <1>7 DEF NotRunning
  <2>. QED
    BY <1>1, <1>7, <2>1 DEF NotRunning, managerVars, outside, Idle
<1>8. CASE Reconcile(h)
  <2>1. \E stage \in Plain : Goto(h, stage)
    BY <1>8 DEF Reconcile, StartLoop
  <2>. QED
    BY <1>1, <1>8, <2>1 DEF Reconcile, managerVars, outside, Idle
<1>9. CASE EndReconcile(h)
    BY <1>1, <1>9 DEF EndReconcile, managerVars, outside, Idle
<1>10. CASE AddPeer(h) \/ UpdateUntracked(h)
  <2>1. \E stage \in Plain : Goto(h, stage)
    BY <1>10 DEF AddPeer, UpdateUntracked, Track
  <2>. QED
    BY <1>1, <1>10, <2>1 DEF AddPeer, UpdateUntracked, Calls, outside, Idle
<1>11. CASE UpdateTracked(h)
  <2>1. \E stage \in Plain : Goto(h, stage)
    BY <1>11 DEF UpdateTracked
  <2>. QED
    BY <1>1, <1>11, <2>1 DEF UpdateTracked, Calls, outside, Idle
<1>12. CASE DeletePeer(h)
  <2>1. \E stage \in Plain : Goto(h, stage)
    BY <1>12 DEF DeletePeer
  <2>. QED
    BY <1>1, <1>12, <2>1 DEF DeletePeer, Calls, outside, Idle
<1>13. CASE CommitSetting(h)
    BY <1>1, <1>13 DEF CommitSetting, Commits, managerVars, Idle
<1>14. CASE NotifySetting(h)
    BY <1>1, <1>14 DEF NotifySetting, managerVars, Idle
<1>15. CASE ClearPending(h)
    BY <1>1, <1>15 DEF ClearPending, managerVars, Idle
<1>. QED
    BY <1>2, <1>3, <1>4, <1>5, <1>6, <1>7, <1>8, <1>9, <1>10, <1>11, <1>12,
       <1>13, <1>14, <1>15 DEF Request

\* A start that goes on: it reads the settings at its first step.
LEMMA LoadingMoves ==
    ASSUME CallTypes, NEW h \in Procs, Loading(h)
    PROVE  /\ pc[h] \in {"load", "loaded", "startloop", "loop"}
           /\ UNCHANGED <<store, setting, pending, req>>
           /\ \/ /\ UNCHANGED <<pc, running, snap>>
                 /\ pc[h] \in {"startloop", "loop"}
              \/ /\ LoadPeers(h)
                 /\ snap' = setting
                 /\ \E stage \in {"loaded", "serve", Idle} :
                        Moves(h, stage) /\ (h = Main => stage # Idle)
              \/ /\ LoadRoutes(h) \/ EndStart(h)
                 /\ pc[h] \in {"loaded", "startloop"}
                 /\ UNCHANGED snap
                 /\ running' = FALSE \/ UNCHANGED running
                 /\ \E stage \in {"startloop", "serve", "clear", Idle} :
                        /\ Moves(h, stage)
                        /\ h = Main => stage \in MainStages
<1>1. \A stage : Goto(h, stage) => Moves(h, stage)
    BY GotoMoves
<1>2. ASSUME StartFailed(h)
      PROVE  /\ running' = FALSE
             /\ \E stage \in {"serve", Idle} :
                    Moves(h, stage) /\ (h = Main => stage = "serve")
    BY <1>1, <1>2 DEF StartFailed, SpeakerGone
<1>3. CASE SkipPeer(h) \/ AnnouncePeer(h)
    BY <1>3 DEF SkipPeer, AnnouncePeer, Looping, managerVars, outside
<1>4. CASE LoadPeers(h)
    BY <1>1, <1>2, <1>4 DEF LoadPeers, outside, Idle
<1>5. CASE LoadRoutes(h)
    BY <1>1, <1>2, <1>5 DEF LoadRoutes, StartLoop, outside, MainStages
<1>6. CASE EndStart(h)
    BY <1>1, <1>2, <1>6 DEF EndStart, outside, MainStages
<1>. QED
    BY <1>3, <1>4, <1>5, <1>6 DEF Loading

LEMMA SerialStep ==
    ASSUME ~Overlap, CallTypes, SerialInv, [Next]_vars
    PROVE  SerialInv'
<1>1. Main \notin Requests /\ Main \in Procs /\ Requests \subseteq Procs
    BY ManagerAssumption DEF Procs
<1>2. ASSUME NEW h \in Requests, Starting(h) PROVE SerialInv'
    BY <1>1, <1>2, StartingMoves DEF SerialInv, Moves, Running, MainStages
<1>3. ASSUME NEW h \in Requests, Request(h) PROVE SerialInv'
  <2>1. /\ pc[h] # Idle
        /\ \A g \in Procs \ {h} : pc'[g] = pc[g]
    BY <1>3, RequestMoves DEF Moves
  <2>. QED
    BY <1>1, <2>1 DEF SerialInv, Running
<1>4. ASSUME NEW h \in Procs, Loading(h) PROVE SerialInv'
  <2>1. /\ pc[h] \in {"load", "loaded", "startloop", "loop"}
        /\ \A g \in Procs \ {h} : pc'[g] = pc[g]
        /\ h = Main => pc'[Main] \in MainStages \/ UNCHANGED pc
    BY <1>4, LoadingMoves DEF Moves, MainStages
  <2>2. pc[h] # Idle
    BY <2>1 DEF Idle
  <2>3. CASE h = Main
    BY <1>1, <2>1, <2>3 DEF SerialInv, Running
  <2>4. CASE h # Main
    BY <1>1, <2>1, <2>2, <2>4 DEF SerialInv, Running, Procs
  <2>. QED
    BY <2>3, <2>4
<1>5. ASSUME Stop PROVE SerialInv'
  <2>1. Moves(Main, "stopped")
    BY <1>1, <1>5, GotoMoves DEF Stop
  <2>. QED
    BY <1>1, <2>1 DEF SerialInv, Running, Moves, MainStages
<1>6. CASE UNCHANGED vars
    BY <1>6 DEF vars, SerialInv, Running
<1>. QED
    BY <1>2, <1>3, <1>4, <1>5, <1>6 DEF Next

LEMMA NotedStep ==
    ASSUME ~Overlap, CallTypes, SerialInv, LoadedInv, NotedInv, [Next]_vars
    PROVE  LoadedInv' /\ NotedInv'
<1>1. Main \notin Requests /\ Main \in Procs /\ Requests \subseteq Procs
    BY ManagerAssumption DEF Procs
<1>2. ASSUME NEW h \in Requests, Starting(h) PROVE LoadedInv' /\ NotedInv'
  <2>1. PICK stage \in {"commit", "reconcile", "load"} : Moves(h, stage)
    BY <1>2, StartingMoves
  <2>2. /\ UNCHANGED <<setting, pending, running, snap>> /\ pc[h] = Idle
    BY <1>2, StartingMoves
  <2>. QED
    BY <1>1, <2>1, <2>2 DEF LoadedInv, NotedInv, Moves, Started, Idle
<1>3. ASSUME NEW h \in Requests, Request(h) PROVE LoadedInv' /\ NotedInv'
  <2>1. UNCHANGED <<running, snap>>
    BY <1>3, RequestMoves
  <2>2. CASE /\ UNCHANGED <<setting, pending>> /\ pc[h] # "notify"
             /\ \E stage \in {Idle, "add", "read", "update", "delete",
                              "reconcile", "loop"} : Moves(h, stage)
    BY <1>1, <2>1, <2>2 DEF LoadedInv, NotedInv, Moves, Started, Idle
  <2>3. CASE CommitSetting(h) /\ pc[h] = "commit" /\ Moves(h, "notify")
    <3>1. \A g \in Procs : ~Started(g)'
      <4>1. SUFFICES ASSUME NEW g \in Procs \ {h}, pc[g] \in {"loaded", "startloop", "clear"}
                     PROVE  FALSE
        BY <2>3 DEF Moves, Started
      <4>2. pc[g] # Idle /\ pc[h] # Idle
        BY <2>3, <4>1 DEF Idle
      <4>. QED
        BY <1>1, <4>1, <4>2 DEF SerialInv, Running, Procs
    <3>. QED
      BY <1>1, <2>3, <3>1 DEF LoadedInv, NotedInv, Moves
  <2>4. CASE NotifySetting(h) /\ pc[h] = "notify" /\ Moves(h, Idle)
    <3>1. UNCHANGED setting /\ pending' = TRUE
      BY <2>4 DEF NotifySetting, MarkPending
    <3>. QED
      BY <1>1, <2>1, <2>4, <3>1 DEF LoadedInv, NotedInv, Moves, Started, Idle
  <2>5. CASE ClearPending(h) /\ pc[h] = "clear" /\ Moves(h, Idle)
    <3>1. UNCHANGED setting /\ setting = snap
      BY <1>1, <2>5 DEF ClearPending, LoadedInv, Started
    <3>. QED
      BY <2>1, <3>1 DEF LoadedInv, NotedInv
  <2>. QED
    BY <1>3, <2>2, <2>3, <2>4, <2>5, RequestMoves
<1>4. ASSUME NEW h \in Procs, Loading(h) PROVE LoadedInv' /\ NotedInv'
  <2>1. UNCHANGED <<setting, pending>>
    BY <1>4, LoadingMoves
  <2>2. CASE UNCHANGED <<pc, running, snap>>
    BY <2>1, <2>2 DEF LoadedInv, NotedInv, Started
  <2>3. CASE snap' = setting
    BY <2>1, <2>3 DEF LoadedInv, NotedInv
  <2>4. CASE /\ pc[h] \in {"loaded", "startloop"}
             /\ UNCHANGED snap
             /\ running' = FALSE \/ UNCHANGED running
    BY <2>1, <2>4 DEF LoadedInv, NotedInv, Started
  <2>. QED
    BY <1>4, <2>2, <2>3, <2>4, LoadingMoves
<1>5. ASSUME Stop PROVE LoadedInv' /\ NotedInv'
  <2>1. Moves(Main, "stopped") /\ running' = FALSE /\ UNCHANGED <<setting, snap>>
    BY <1>1, <1>5, GotoMoves DEF Stop, SpeakerGone, outside
  <2>. QED
    BY <2>1 DEF LoadedInv, NotedInv, Moves, Started
<1>6. CASE UNCHANGED vars
    BY <1>6 DEF vars, outside, managerVars, LoadedInv, NotedInv, Started
<1>. QED
    BY <1>2, <1>3, <1>4, <1>5, <1>6 DEF Next

\* A row that may join the users of s, the one with that id excepted: it has
\* the password of its address.
Fits(s, row, id) ==
    \A j \in Ids :
        /\ s[j] # NoRow /\ j # id
        /\ s[j].addr = row.addr
        /\ row.addr \notin Dynamic
        => s[j].pw = row.pw
\* What a request checked before it began still holds when it commits.
AllowedInv ==
    \A h \in Requests : pc[h] = "commit" =>
        /\ req[h].op = "create" => Fits(store, req[h].row, 0)
        /\ req[h].op = "update" => Fits(store, req[h].row, req[h].id)

LEMMA AllowedFits ==
    ASSUME NEW row, NEW id, PeerAllowed(row, id)
    PROVE  Fits(store, row, id)
    BY DEF PeerAllowed, Fits

\* A user that fits is saved.
LEMMA SavedFits ==
    ASSUME store \in [Ids -> Row \cup {NoRow}], OnePasswordPerAddress,
           NEW id \in Ids, NEW row, Fits(store, row, id),
           store' = [store EXCEPT ![id] = row]
    PROVE  OnePasswordPerAddress'
<1>1. store'[id] = row /\ \A j \in Ids : j # id => store'[j] = store[j]
    OBVIOUS
<1>. QED
    BY <1>1 DEF OnePasswordPerAddress, Fits

\* A request that begins has just been allowed.
LEMMA BeginAllowed ==
    ASSUME CallTypes, WorkTypes, ~Overlap, NEW h \in Requests, Starting(h),
           pc'[h] = "commit"
    PROVE  /\ req'[h].op = "create" => Fits(store, req'[h].row, 0)
           /\ req'[h].op = "update" => Fits(store, req'[h].row, req'[h].id)
<1>0. h \in Procs
    BY DEF Procs
<1>1. ASSUME NEW r, NEW stage, Begin(h, r, stage)
      PROVE  req'[h] = r
    BY <1>0, <1>1 DEF Begin, WorkTypes
<1>2. CASE BeginCreate(h)
  <2>1. PICK row \in Rows :
          /\ PeerAllowed(row, 0)
          /\ Begin(h, [Blank EXCEPT !.op = "create", !.row = row], "commit")
    BY <1>2 DEF BeginCreate
  <2>2. req'[h] = [Blank EXCEPT !.op = "create", !.row = row]
    BY <1>1, <2>1
  <2>3. req'[h].op = "create" /\ req'[h].row = row
    BY <2>2 DEF Blank
  <2>4. Fits(store, row, 0)
    BY <2>1, AllowedFits
  <2>. QED
    BY <2>3, <2>4
<1>3. CASE BeginUpdate(h)
  <2>1. PICK id \in Ids, row \in Rows :
          /\ PeerAllowed(row, id)
          /\ Begin(h, [Blank EXCEPT !.op = "update", !.id = id, !.row = row],
                   "commit")
    BY <1>3 DEF BeginUpdate
  <2>2. req'[h] = [Blank EXCEPT !.op = "update", !.id = id, !.row = row]
    BY <1>1, <2>1
  <2>3. req'[h].op = "update" /\ req'[h].row = row /\ req'[h].id = id
    BY <2>2 DEF Blank
  <2>4. Fits(store, row, id)
    BY <2>1, AllowedFits
  <2>. QED
    BY <2>3, <2>4
<1>4. CASE BeginDelete(h)
  <2>1. \E id \in Ids : \E found \in {TRUE, FALSE} :
          req'[h] = [Blank EXCEPT !.op = "delete", !.id = id, !.found = found]
    BY <1>1, <1>4 DEF BeginDelete
  <2>. QED
    BY <2>1 DEF Blank
<1>5. CASE BeginRoutes(h)
  <2>1. \E id \in Ids, rs \in SUBSET Routes :
          req'[h] = [Blank EXCEPT !.op = "routes", !.id = id, !.routes = rs]
    BY <1>1, <1>5 DEF BeginRoutes
  <2>. QED
    BY <2>1 DEF Blank
<1>6. CASE BeginSetting(h)
  <2>1. \E s \in Settings :
          req'[h] = [Blank EXCEPT !.op = "setting", !.setting = s]
    BY <1>1, <1>6 DEF BeginSetting
  <2>. QED
    BY <2>1 DEF Blank
<1>7. CASE BeginSync(h)
  <2>1. req'[h] = Blank
    BY <1>1, <1>7 DEF BeginSync
  <2>. QED
    BY <2>1 DEF Blank
<1>8. CASE BeginReload(h)
  <2>1. req'[h] = [Blank EXCEPT !.op = "reload"]
    BY <1>1, <1>8 DEF BeginReload
  <2>. QED
    BY <2>1 DEF Blank
<1>. QED
    BY <1>2, <1>3, <1>4, <1>5, <1>6, <1>7, <1>8 DEF Starting

\* Only the three commits change the store.
LEMMA StoreSteps ==
    ASSUME TypeInv, NEW h \in Requests, Request(h)
    PROVE  \/ UNCHANGED store
           \/ \E id \in Ids : store' = [store EXCEPT ![id] = NoRow]
           \/ /\ pc[h] = "commit" /\ req[h].op = "create"
              /\ \E id \in Ids : /\ store[id] = NoRow
                                 /\ store' = [store EXCEPT ![id] = req[h].row]
           \/ /\ pc[h] = "commit" /\ req[h].op = "update"
              /\ req[h].id \in Ids
              /\ store' = [store EXCEPT ![req[h].id] = req[h].row]
<1>0. pc[h] = "commit" => req[h].id \in Ids
    BY DEF TypeInv, ReqInv, ReqOk, Reqs, Idle
<1>1. CASE CommitCreate(h)
  <2>1. ASSUME NEW id \in Ids, \A i \in Ids : store[i] # NoRow => i < id
        PROVE  store[id] = NoRow
    <3>1. ~(id < id)
      BY DEF Ids
    <3>. QED
      BY <2>1, <3>1
  <2>. QED
    BY <1>1, <2>1 DEF CommitCreate, Commits
<1>2. CASE CommitUpdate(h)
    BY <1>0, <1>2 DEF CommitUpdate, Commits
<1>3. CASE CommitDelete(h)
    BY <1>0, <1>3 DEF CommitDelete, Commits
<1>4. CASE CommitRoutes(h) \/ CommitSetting(h) \/ NotifySetting(h)
           \/ ClearPending(h)
    BY <1>4 DEF CommitRoutes, CommitSetting, NotifySetting, ClearPending
<1>5. CASE FiltersNotSaved(h) \/ ReadUser(h) \/ NotRunning(h) \/ Reconcile(h)
           \/ EndReconcile(h)
    BY <1>5 DEF FiltersNotSaved, ReadUser, NotRunning, Reconcile,
                EndReconcile, outside
<1>6. CASE AddPeer(h) \/ UpdateUntracked(h) \/ UpdateTracked(h) \/ DeletePeer(h)
    BY <1>6 DEF AddPeer, UpdateUntracked, UpdateTracked, DeletePeer, Calls,
                outside
<1>. QED
    BY <1>1, <1>2, <1>3, <1>4, <1>5, <1>6 DEF Request

LEMMA AllowedStep ==
    ASSUME ~Overlap, TypeInv, SerialInv, OnePasswordPerAddress, AllowedInv,
           [Next]_vars
    PROVE  OnePasswordPerAddress' /\ AllowedInv'
<1>1. /\ CallTypes /\ WorkTypes /\ store \in [Ids -> Row \cup {NoRow}]
      /\ Main \notin Requests /\ Requests \subseteq Procs
    BY ManagerAssumption, TypeParts DEF TypeInv, OutsideTypes, Procs
<1>2. ASSUME UNCHANGED store
      PROVE  OnePasswordPerAddress'
    BY <1>2 DEF OnePasswordPerAddress
<1>3. ASSUME UNCHANGED <<store, req>>,
             \A g \in Requests : pc'[g] = "commit" => pc[g] = "commit"
      PROVE  OnePasswordPerAddress' /\ AllowedInv'
    BY <1>2, <1>3 DEF AllowedInv
<1>4. ASSUME NEW h \in Requests, Starting(h)
      PROVE  OnePasswordPerAddress' /\ AllowedInv'
  <2>1. /\ UNCHANGED store /\ \A g \in Requests : pc[g] = Idle
        /\ \A g \in Requests \ {h} : pc'[g] = pc[g]
    BY <1>1, <1>4, StartingMoves DEF Moves
  <2>2. \A g \in Requests : pc'[g] = "commit" => g = h
    BY <2>1 DEF Idle
  <2>3. pc'[h] = "commit" =>
            /\ req'[h].op = "create" => Fits(store, req'[h].row, 0)
            /\ req'[h].op = "update" => Fits(store, req'[h].row, req'[h].id)
    BY <1>1, <1>4, BeginAllowed
  <2>. QED
    BY <1>2, <2>1, <2>2, <2>3 DEF AllowedInv
<1>5. ASSUME NEW h \in Requests, Request(h)
      PROVE  OnePasswordPerAddress' /\ AllowedInv'
  <2>1. /\ pc[h] # Idle /\ pc'[h] # "commit"
        /\ \A g \in Requests \ {h} : pc'[g] = pc[g]
    BY <1>1, <1>5, RequestMoves DEF Moves, Idle
  <2>2. \A g \in Requests : pc'[g] # "commit"
    BY <2>1 DEF SerialInv, Running, Idle
  <2>3. AllowedInv'
    BY <2>2 DEF AllowedInv
  <2>4. OnePasswordPerAddress'
    <3>1. CASE \E id \in Ids : store' = [store EXCEPT ![id] = NoRow]
      BY <1>1, <3>1 DEF OnePasswordPerAddress
    <3>2. CASE /\ pc[h] = "commit" /\ req[h].op = "create"
               /\ \E id \in Ids : /\ store[id] = NoRow
                                  /\ store' = [store EXCEPT ![id] = req[h].row]
      <4>1. PICK id \in Ids : /\ store[id] = NoRow
                              /\ store' = [store EXCEPT ![id] = req[h].row]
        BY <3>2
      <4>2. Fits(store, req[h].row, 0) /\ 0 \notin Ids
        BY <3>2 DEF AllowedInv, Ids
      <4>3. Fits(store, req[h].row, id)
        BY <4>2 DEF Fits
      <4>. QED
        BY <1>1, <4>1, <4>3, SavedFits
    <3>3. CASE /\ pc[h] = "commit" /\ req[h].op = "update"
               /\ req[h].id \in Ids
               /\ store' = [store EXCEPT ![req[h].id] = req[h].row]
      <4>1. Fits(store, req[h].row, req[h].id)
        BY <3>3 DEF AllowedInv
      <4>. QED
        BY <1>1, <3>3, <4>1, SavedFits
    <3>. QED
      BY <1>2, <1>5, <3>1, <3>2, <3>3, StoreSteps
  <2>. QED
    BY <2>3, <2>4
<1>6. ASSUME NEW h \in Procs, Loading(h)
      PROVE  OnePasswordPerAddress' /\ AllowedInv'
  <2>1. /\ UNCHANGED <<store, req>>
        /\ UNCHANGED pc \/ \E stage \in {"loaded", "startloop", "serve", "clear",
                                         Idle} : Moves(h, stage)
    BY <1>1, <1>6, LoadingMoves
  <2>. QED
    BY <1>1, <1>3, <2>1 DEF Moves, Idle
<1>7. ASSUME Stop PROVE OnePasswordPerAddress' /\ AllowedInv'
  <2>1. Moves(Main, "stopped") /\ UNCHANGED <<store, req>>
    BY <1>1, <1>7, GotoMoves DEF Stop, outside, Procs
  <2>. QED
    BY <1>1, <1>3, <2>1 DEF Moves
<1>8. CASE UNCHANGED vars
    BY <1>3, <1>8 DEF vars, outside
<1>. QED
    BY <1>4, <1>5, <1>6, <1>7, <1>8 DEF Next

\* While nothing has failed, a start finds a session for everyone it tracks.
StartInv ==
    faults = 0 =>
        /\ \A h \in Procs : pc[h] \in {"loaded", "startloop"} =>
               \A i \in DOMAIN configs : Key(configs[i].row) \in DOMAIN peers
        /\ \A h \in Procs : pc[h] = "startloop" => ~loop.failed

\* Nobody in a start: nothing to find.
LEMMA NobodyStarts ==
    ASSUME CallTypes', \A h \in Procs : holder' = h => pc'[h] = "loop"
    PROVE  StartInv'
    BY DEF CallTypes, StartInv, Mutex

\* Users of whom each address has one password do not conflict.
LEMMA LoadedAgree ==
    ASSUME TypeOK, OnePasswordPerAddress,
           NEW ids \in [1..Cardinality(Loadable) -> Loadable]
    PROVE  ~Conflicting(BuildPeerConfigs(LoadedConfigs(ids), setting))
<1> DEFINE cfgs == LoadedConfigs(ids)
<1> DEFINE new == BuildPeerConfigs(cfgs, setting)
<1>1. cfgs \in Seq(Config) /\ setting \in Settings
    BY LoadedTypes, TypeParts DEF OutsideTypes
<1>2. \A n \in DOMAIN cfgs :
          \E i \in Ids : store[i] # NoRow /\ cfgs[n].row = store[i]
    BY DEF LoadedConfigs, Loadable, Enabled
<1> HIDE DEF cfgs
<1>3. /\ DOMAIN new = DOMAIN cfgs
      /\ \A i \in DOMAIN cfgs : /\ new[i].key = Key(cfgs[i].row)
                                /\ new[i].pw = cfgs[i].row.pw
    BY <1>1, BuildPeerConfigsFacts
<1> HIDE DEF new
<1>4. SUFFICES ASSUME NEW i \in DOMAIN cfgs, NEW j \in DOMAIN cfgs,
                      Keyed(new[i]), Keyed(new[j]),
                      new[i].key[1] = new[j].key[1]
               PROVE  new[i].pw = new[j].pw
    BY <1>3 DEF Conflicting, cfgs, new
<1>5. /\ cfgs[i].row.addr = cfgs[j].row.addr
      /\ cfgs[i].row.addr \notin Dynamic
    BY <1>3, <1>4 DEF Key, Keyed
<1>. QED
    BY <1>2, <1>3, <1>5 DEF OnePasswordPerAddress

\* A failure that has happened is not forgotten.
LEMMA FaultsCount ==
    ASSUME TypeOK, Fault \/ NoFault, faults' = 0
    PROVE  faults = 0 /\ NoFault /\ ~Fault
<1>1. faults \in Nat
    BY TypeParts, ManagerAssumption DEF CountTypes
<1>. QED
    BY <1>1 DEF Fault, NoFault

\* The steps of a request never stop the speaker or change whom a start
\* under way tracks.
LEMMA RequestStarts ==
    ASSUME IInv, StartInv, StaysUp, NEW h \in Requests,
           Starting(h) \/ Request(h), CallTypes'
    PROVE  StartInv' /\ StaysUp'
<1>1. /\ TypeOK /\ CallTypes /\ Main \notin Requests
      /\ Main \in Procs /\ h \in Procs /\ Nobody \notin Procs
    BY TypeParts, ManagerAssumption DEF IInv, TypeInv, Procs
<1>2. CASE Outside(h)
  <2>1. UNCHANGED <<managerVars, holder, loop>>
    BY <1>2, OutsideSteps
  <2>2. PICK stage \in Stages \ {"loop", "loaded", "startloop"} : Moves(h, stage)
    BY <1>1, <1>2, OutsideSteps, GotoMoves
  <2>3. faults' = 0 => faults = 0
    <3>1. CASE Starting(h)
      BY <3>1 DEF Starting, BeginCreate, BeginUpdate, BeginDelete,
                  BeginRoutes, BeginSetting, BeginSync, BeginReload, Begin
    <3>2. CASE CommitCreate(h) \/ CommitUpdate(h) \/ CommitDelete(h)
               \/ CommitRoutes(h) \/ CommitSetting(h)
      BY <3>2 DEF CommitCreate, CommitUpdate, CommitDelete, CommitRoutes,
                  CommitSetting, Commits
    <3>3. CASE NotifySetting(h) \/ NotRunning(h) \/ ClearPending(h)
      BY <3>3 DEF NotifySetting, NotRunning, ClearPending
    <3>4. CASE FiltersNotSaved(h) \/ ReadUser(h)
      <4>1. Fault \/ NoFault
        BY <3>4 DEF FiltersNotSaved, ReadUser
      <4>. QED
        BY <1>1, <4>1, FaultsCount
    <3>. QED
      BY <1>2, <3>1, <3>2, <3>3, <3>4 DEF Outside
  <2>4. UNCHANGED <<running, configs, peers, loop>> /\ pc'[Main] = pc[Main]
    BY <1>1, <2>1, <2>2 DEF managerVars, speakerVars, Moves
  <2>5. StaysUp'
    BY <2>3, <2>4 DEF StaysUp
  <2>6. StartInv'
    BY <2>2, <2>3, <2>4 DEF StartInv, Moves
  <2>. QED
    BY <2>5, <2>6
<1>3. CASE \/ AddPeer(h) \/ UpdateUntracked(h) \/ UpdateTracked(h)
           \/ DeletePeer(h) \/ Reconcile(h) \/ EndReconcile(h)
  <2>1. /\ Request(h) /\ UNCHANGED running
        /\ pc'[Main] = pc[Main]
    BY <1>1, <1>3, RequestMoves DEF Request, Moves
  <2>2. Fault \/ UNCHANGED faults
    BY <1>3 DEF AddPeer, UpdateUntracked, Track, UpdateTracked, DeletePeer,
                SetPeers, SetPeersFails, Reconcile, EndReconcile, NoFault
  <2>3. StaysUp'
    BY <1>1, <2>1, <2>2, FaultsCount DEF StaysUp, NoFault
  <2>4. CASE \/ AddPeer(h) \/ UpdateUntracked(h) \/ UpdateTracked(h)
             \/ DeletePeer(h) \/ EndReconcile(h)
    <3>1. holder' = Nobody
      BY <2>4 DEF AddPeer, UpdateUntracked, UpdateTracked, DeletePeer, Calls,
                  EndReconcile, MutexReleased
    <3>. QED
      BY <1>1, <2>3, <3>1, NobodyStarts
  <2>5. CASE Reconcile(h)
    <3>1. \/ holder' = h /\ Moves(h, "loop")
          \/ holder' = Nobody
      BY <1>1, <2>5, GotoMoves DEF Reconcile, StartLoop
    <3>. QED
      BY <1>1, <2>3, <3>1, NobodyStarts DEF Moves
  <2>. QED
    BY <1>3, <2>4, <2>5
<1>. QED
    BY <1>2, <1>3 DEF Request, Outside

\* Those of a start do not, either: the users it loads agree about the
\* passwords, and it finds a session for each of them.
LEMMA LoadingStarts ==
    ASSUME IInv, StartInv, StaysUp, OnePasswordPerAddress, NEW h \in Procs,
           Loading(h), CallTypes', faults' = 0
    PROVE  StartInv' /\ StaysUp'
<1>1. /\ TypeOK /\ CallTypes /\ BusyInv /\ LoopInv
      /\ Main \in Procs /\ Nobody \notin Procs
    BY TypeParts, ManagerAssumption DEF IInv, TypeInv, Procs
<1>2. faults = 0 /\ ~Fault
  <2>1. Fault \/ NoFault
    BY DEF Loading, LoadPeers, LoadRoutes, EndStart, SkipPeer, AnnouncePeer,
           NoFault
  <2>. QED
    BY <1>1, <2>1, FaultsCount
<1>3. CASE LoadPeers(h)
  <2>1. PICK ids \in [1..Cardinality(Loadable) -> Loadable] :
            LET cfgs == LoadedConfigs(ids)
                new == BuildPeerConfigs(cfgs, setting)
            IN  \/ /\ running' = TRUE
                   /\ configs' = cfgs
                   /\ peers' = PeersSet(Empty, new)
                   /\ holder' = h
                   /\ Goto(h, "loaded")
                \/ Conflicting(new)
    BY <1>2, <1>3 DEF LoadPeers, LoadedConfigs
  <2> DEFINE cfgs == LoadedConfigs(ids)
  <2> DEFINE new == BuildPeerConfigs(cfgs, setting)
  <2>2. ~Conflicting(new) /\ cfgs \in Seq(Config) /\ setting \in Settings
    BY <1>1, LoadedAgree, LoadedTypes, TypeParts DEF OutsideTypes
  <2>3. /\ running' = TRUE /\ configs' = cfgs /\ holder' = h
        /\ peers' = PeersSet(Empty, new) /\ Moves(h, "loaded")
    BY <1>1, <2>1, <2>2, GotoMoves
  <2> HIDE DEF cfgs
  <2>4. /\ DOMAIN new = DOMAIN cfgs
        /\ \A i \in DOMAIN cfgs : new[i].key = Key(cfgs[i].row)
    BY <2>2, BuildPeerConfigsFacts
  <2> HIDE DEF new
  <2>5. \A i \in DOMAIN configs' : Key(configs'[i].row) \in DOMAIN peers'
    BY <2>3, <2>4 DEF PeersSet
  <2>6. \A g \in Procs : pc'[g] # "startloop"
    BY <2>3 DEF CallTypes, Mutex, Moves
  <2>. QED
    BY <2>3, <2>5, <2>6 DEF StartInv, StaysUp
<1>4. CASE LoadRoutes(h)
  <2>1. /\ StartLoop(h, "startloop") /\ pc[h] = "loaded"
        /\ UNCHANGED <<running, peers, configs>>
    BY <1>2, <1>4 DEF LoadRoutes, speakerVars
  <2>2. ~loop'.failed /\ Moves(h, "startloop")
    BY <1>1, <2>1, GotoMoves DEF StartLoop
  <2>3. StaysUp'
    BY <1>1, <1>2, <2>1, <2>2 DEF StaysUp, Moves
  <2>4. StartInv'
    BY <1>2, <2>1, <2>2 DEF StartInv
  <2>. QED
    BY <2>3, <2>4
<1>5. CASE EndStart(h)
  <2>1. pc[h] = "startloop" /\ holder' = Nobody /\ ~loop.failed
    BY <1>2, <1>5 DEF EndStart, MutexReleased, StartInv
  <2>2. UNCHANGED running /\ \E stage : Moves(h, stage)
    BY <1>1, <1>5, <2>1, GotoMoves DEF EndStart
  <2>3. StaysUp'
    BY <1>1, <1>2, <2>1, <2>2 DEF StaysUp, Moves
  <2>. QED
    BY <1>1, <2>1, <2>3, NobodyStarts
<1>6. CASE SkipPeer(h) \/ AnnouncePeer(h)
  <2>1. UNCHANGED <<running, configs, pc>> /\ loop \in Loops /\ Looping(h)
    BY <1>1, <1>6, TypeParts
       DEF SkipPeer, AnnouncePeer, managerVars, WorkTypes
  <2>2. DOMAIN peers' = DOMAIN peers
    BY <1>6 DEF SkipPeer, AnnouncePeer, Announced, managerVars, speakerVars
  <2>3. StaysUp'
    BY <1>2, <2>1 DEF StaysUp
  <2>4. \A g \in Procs : pc[g] = "startloop" => ~loop'.failed
    <3>1. SUFFICES ASSUME NEW g \in Procs, pc[g] = "startloop"
                   PROVE  ~loop'.failed
      OBVIOUS
    <3>2. g = h /\ ~loop.failed
      BY <1>1, <1>2, <2>1, <3>1 DEF CallTypes, Mutex, Looping, StartInv
    <3>3. CASE SkipPeer(h)
      BY <2>1, <3>2, <3>3 DEF SkipPeer, Loops
    <3>4. CASE AnnouncePeer(h)
      <4>1. PICK n \in DOMAIN configs : Head(loop.todo) = configs[n]
        BY <1>1, <2>1, NextUser
      <4>2. Key(Head(loop.todo).row) \in DOMAIN peers
        BY <1>2, <3>1, <4>1 DEF StartInv
      <4>3. loop' = [loop EXCEPT !.todo = Tail(@)]
        BY <1>2, <3>4, <4>2 DEF AnnouncePeer
      <4>. QED
        BY <2>1, <3>2, <4>3 DEF Loops
    <3>. QED
      BY <1>6, <3>3, <3>4
  <2>5. StartInv'
    BY <1>2, <2>1, <2>2, <2>4 DEF StartInv
  <2>. QED
    BY <2>3, <2>5
<1>. QED
    BY <1>3, <1>4, <1>5, <1>6 DEF Loading

LEMMA StartStep ==
    ASSUME IInv, IInv', StartInv, StaysUp, OnePasswordPerAddress, [Next]_vars
    PROVE  StartInv' /\ StaysUp'
<1>1. /\ CallTypes /\ CallTypes' /\ Main \in Procs
      /\ Nobody \notin Procs
    BY TypeParts, TypePartsNext, ManagerAssumption DEF IInv, TypeInv, Procs
<1>2. ASSUME NEW h \in Procs, Loading(h) PROVE StartInv' /\ StaysUp'
    BY <1>1, <1>2, LoadingStarts DEF StartInv, StaysUp
<1>3. ASSUME Stop PROVE StartInv' /\ StaysUp'
  <2>1. Moves(Main, "stopped") /\ holder' = Nobody
    BY <1>1, <1>3, GotoMoves DEF Stop
  <2>. QED
    BY <1>1, <2>1, NobodyStarts DEF StaysUp, Moves
<1>4. CASE UNCHANGED vars
    BY <1>4 DEF vars, managerVars, speakerVars, StartInv, StaysUp
<1>. QED
    BY <1>1, <1>2, <1>3, <1>4, RequestStarts DEF Next

OneAtATime ==
    /\ SerialInv /\ LoadedInv /\ NotedInv
    /\ OnePasswordPerAddress /\ AllowedInv
    /\ StartInv /\ StaysUp

LEMMA OneAtATimeInit == Init => OneAtATime
<1> SUFFICES ASSUME Init PROVE OneAtATime
    OBVIOUS
<1>1. /\ pc[Main] = "load" /\ \A h \in Requests : pc[h] = Idle
      /\ \A h \in Procs : pc[h] \in {"load", Idle}
      /\ running = FALSE /\ snap = setting
    BY ManagerAssumption DEF Init, Procs
<1>2. OnePasswordPerAddress
  <2>1. ASSUME NEW i \in Ids, NEW j \in Ids, store[i] # NoRow, store[j] # NoRow,
               store[i].addr = store[j].addr, store[i].addr \notin Dynamic
        PROVE  store[i].pw = store[j].pw
    <3>1. Fits(store, store[i], i)
      BY <2>1, AllowedFits DEF Init
    <3>. QED
      BY <2>1, <3>1 DEF Fits
  <2>. QED
    BY <2>1 DEF OnePasswordPerAddress
<1>3. SerialInv
    BY <1>1 DEF SerialInv, Running, MainStages
<1>4. LoadedInv /\ NotedInv /\ AllowedInv
    BY <1>1 DEF LoadedInv, NotedInv, AllowedInv, Idle
<1>5. StartInv /\ StaysUp
    BY <1>1 DEF StartInv, StaysUp, Idle
<1>. QED
    BY <1>2, <1>3, <1>4, <1>5 DEF OneAtATime

LEMMA OneAtATimeStep ==
    ASSUME ~Overlap, IInv, OneAtATime, [Next]_vars
    PROVE  OneAtATime'
<1>1. IInv' /\ TypeInv /\ CallTypes
    BY IInvStep, TypeParts DEF IInv, TypeInv
<1>2. SerialInv' /\ LoadedInv' /\ NotedInv'
    BY <1>1, SerialStep, NotedStep DEF OneAtATime
<1>3. OnePasswordPerAddress' /\ AllowedInv'
    BY <1>1, AllowedStep DEF OneAtATime
<1>4. StartInv' /\ StaysUp'
    BY <1>1, StartStep DEF OneAtATime
<1>. QED
    BY <1>2, <1>3, <1>4 DEF OneAtATime

LEMMA AlwaysOneAtATime ==
    ASSUME ~Overlap
    PROVE  Spec => [](IInv /\ OneAtATime)
<1>1. IInv /\ OneAtATime /\ [Next]_vars => (IInv /\ OneAtATime)'
    BY IInvStep, OneAtATimeStep
<1>. QED
    BY <1>1, IInvInit, OneAtATimeInit, PTL DEF Spec

\* Requests that come one after another: a change of a restart-only setting
\* that is not in effect is flagged, whatever reloads are between the two.
THEOREM ChangesAreFlagged ==
    ASSUME ~Overlap
    PROVE  Spec => []PendingShown
<1>1. OneAtATime => PendingShown
    BY DEF OneAtATime, NotedInv, PendingShown, Quiet, Idle
<1>. QED
    BY <1>1, AlwaysOneAtATime, PTL

\* Requests that come one after another: neither a start nor a reload takes
\* BGP down while nothing fails, since what validatePeerUniqueness lets into
\* the store SetPeers accepts, and every session it starts is found.
THEOREM SpeakerStaysUp ==
    ASSUME ~Overlap
    PROVE  Spec => []StaysUp
<1>1. OneAtATime => StaysUp
    BY DEF OneAtATime
<1>. QED
    BY <1>1, AlwaysOneAtATime, PTL

\* Requests that come one after another never give two users of one address
\* different passwords.
THEOREM PasswordsAgree ==
    ASSUME ~Overlap
    PROVE  Spec => []OnePasswordPerAddress
<1>1. OneAtATime => OnePasswordPerAddress
    BY DEF OneAtATime
<1>. QED
    BY <1>1, AlwaysOneAtATime, PTL

=============================================================================
