----------------------------- MODULE PeerSession -----------------------------
(***************************************************************************)
(* One configured BGP peer of the speaker (bgp.Peer): the goroutine that   *)
(* dials (Run / connectAndRun), the goroutines that serve inbound          *)
(* connections (Speaker.handleConnection / AcceptWithOpen), the one caller *)
(* that changes the desired routes or stops the peer (it holds Manager.mu, *)
(* so there is never more than one), the TCP connections they use and the  *)
(* table the router at the other end builds from the UPDATEs it is sent.   *)
(*                                                                         *)
(* A handler is a goroutine that runs a session; a thread is anyone that   *)
(* may run resyncRoutes.  A write to a connection updates the router's     *)
(* table at once: TCP delivers in order, and a table dies with its         *)
(* connection, so what the router has not read yet cannot be told apart    *)
(* from what it has.  Timers have no clock: a read that has a deadline may *)
(* time out at any moment.                                                 *)
(*                                                                         *)
(* An operator that no action uses, placed before one of the same shape,   *)
(* is a wrong version of it: it is there to show which properties notice.  *)
(***************************************************************************)
EXTENDS Naturals, FiniteSets

CONSTANTS
    Prefix4,     \* IPv4 prefixes
    Prefix6,     \* IPv6 prefixes
    Attr,        \* attribute sets of a route: next hop and large communities
    NoRoute,     \* "this prefix has no route"
    Conn,        \* TCP connections; each is used once
    NoConn,      \* nil net.Conn
    Dialer,      \* the goroutine running Peer.Run
    Acceptors,   \* goroutines available to Speaker.handleConnection
    Mgr,         \* the goroutine holding Manager.mu
    Passive,     \* cfg.Port < 0: never dial
    HoldChoices, \* hold timers a router may negotiate: TRUE on, FALSE off (0)
    Faults,      \* how a write on a healthy connection may fail: "clean" with
                 \* no byte written, "torn" after part of a message
    MaxPrefixesPerUpdate

Prefix == Prefix4 \cup Prefix6
Handlers == {Dialer} \cup Acceptors
Threads == Handlers \cup {Mgr}

ASSUME SetsAssumption ==
    /\ Prefix4 \cap Prefix6 = {}
    /\ NoRoute \notin Attr
    /\ NoConn \notin Conn \cup Threads
    /\ Dialer \notin Acceptors
    /\ Mgr \notin Handlers
ASSUME ParametersAssumption ==
    /\ Passive \in BOOLEAN
    /\ HoldChoices \subseteq BOOLEAN
    /\ Faults \subseteq {"clean", "torn"}
    /\ MaxPrefixesPerUpdate \in Nat \ {0}

VARIABLES
    conn,        \* Peer.conn
    routes,      \* Peer.routes: the desired route of each prefix
    state,       \* Peer.state
    holdTime,    \* Peer.holdTime > 0
    stopping,    \* Peer.stopping
    needsUpdate, \* Peer.needsUpdate
    hasIPv6Cap,  \* Peer.hasIPv6Cap
    lastSent,    \* Peer.lastSent
    resync,      \* the resyncRoutes that holds sendMu, or NoResync
    pc,          \* where each handler is
    sock,        \* the connection each handler serves
    timer,       \* mainLoop's own copy of holdTime
    mgr,         \* the manager's call into the peer, and the conn it read
    tcp,         \* each connection, as this end sees it
    table,       \* each connection's router: the routes it holds from us
    offers,      \* ... and whether its OPEN offers IPv6 unicast
    blame        \* history: what may have spoilt the books of a connection

peerVars == <<conn, routes, state, holdTime, stopping, needsUpdate,
              hasIPv6Cap, lastSent>>
remote == <<table, offers>>
vars == <<peerVars, resync, pc, sock, timer, mgr, tcp, remote, blame>>

----------------------------------------------------------------------------
(* Shapes *)

States == {"IDLE", "CONNECT", "OPENSENT", "OPENCONFIRM", "ESTABLISHED"}
Tables == [Prefix -> Attr \cup {NoRoute}]
EmptyTable == [p \in Prefix |-> NoRoute]
Held(t) == {p \in Prefix : t[p] # NoRoute}

NoResync == [by |-> NoConn]
Resyncs == [by : Threads, on : Conn, stage : {"withdraw", "announce"},
            want : Tables, todo : SUBSET Prefix, sent : SUBSET Prefix]

(***************************************************************************)
(* "up": both ends live.  "gone": the router has left, this end has not    *)
(* noticed.  "closed": this end has closed it (or is about to find out).   *)
(***************************************************************************)
TcpStates == {"free", "up", "gone", "closed"}

DialerPcs == {"start", "dialing", "waiting", "backoff", "done"}
AcceptorPcs == {"free", "lookedUp", "handover"}
SessionPcs == {"sendOpen", "readOpen", "readKeepalive", "caps", "reset",
               "initial", "main", "mainResync", "read", "end", "close"}
InitialPc(h) == IF h = Dialer THEN "start" ELSE "free"

\* Causes recorded in blame: a resync ran on the connection before its own
\* session forgot the previous one ("early"); a resync failed and the
\* connection outlived it ("gap"); another session was alive ("shared").
Causes == {"early", "gap", "shared"}

\* Handlers whose connection has been handed to the peer.
Active(h) == pc[h] \in SessionPcs
\* ... and have not reached resetSent: lastSent is not about them yet.
BeforeReset(h) == pc[h] \in {"sendOpen", "readOpen", "readKeepalive", "caps",
                            "reset"}
\* ... and have passed resetSent: lastSent is the account of their session.
Accounted(h) == pc[h] \in {"initial", "main", "mainResync", "read"}
\* ... and have completed the initial resync.
Serving(h) == pc[h] \in {"main", "mainResync", "read"}

\* The set a resync of the routes r announces, at the current capability.
Plan(r) == {p \in Held(r) : p \in Prefix4 \/ hasIPv6Cap}

\* A connection stops carrying a session: the router forgets its table.
Drop(c, how) ==
    /\ tcp' = [tcp EXCEPT ![c] = how]
    /\ table' = [table EXCEPT ![c] = EmptyTable]
    /\ UNCHANGED offers

Init ==
    /\ conn = NoConn
    /\ routes = EmptyTable
    /\ state = "IDLE"
    /\ holdTime = FALSE
    /\ stopping = FALSE
    /\ needsUpdate = FALSE
    /\ hasIPv6Cap = FALSE
    /\ lastSent = {}
    /\ resync = NoResync
    /\ pc = [h \in Handlers |-> InitialPc(h)]
    /\ sock = [h \in Handlers |-> NoConn]
    /\ timer = [h \in Handlers |-> FALSE]
    /\ mgr = [at |-> "idle", on |-> NoConn]
    /\ tcp = [c \in Conn |-> "free"]
    /\ table = [c \in Conn |-> EmptyTable]
    /\ offers = [c \in Conn |-> FALSE]
    /\ blame = [c \in Conn |-> {}]

----------------------------------------------------------------------------
(* resyncRoutes: everything between taking and releasing sendMu.           *)

\* What a resync withdraws: lastSent minus desired.
WithdrawEverything == lastSent
Withdrawals == lastSent \ Held(routes)

\* Take sendMu and copy p.routes.
BeginResync(t, c) ==
    /\ resync = NoResync
    /\ resync' = [by |-> t, on |-> c, stage |-> "withdraw", want |-> routes,
                  todo |-> Withdrawals, sent |-> {}]
    /\ blame' = IF \E h \in Handlers : sock[h] = c /\ BeforeReset(h)
                THEN [blame EXCEPT ![c] = @ \cup {"early"}]
                ELSE blame

\* Prefixes that may share an UPDATE: one family when withdrawn, one family
\* and one attribute set when announced.
SameGroup(p, q) ==
    /\ p \in Prefix4 <=> q \in Prefix4
    /\ resync.stage = "announce" => resync.want[p] = resync.want[q]

\* The next message of a resync: IPv4 withdrawals come before IPv6 ones, and
\* only the last chunk of a group is shorter than MaxPrefixesPerUpdate.
NextChunk(chunk) ==
    /\ chunk # {}
    /\ \A p, q \in chunk : SameGroup(p, q)
    /\ \/ Cardinality(chunk) = MaxPrefixesPerUpdate
       \/ /\ Cardinality(chunk) < MaxPrefixesPerUpdate
          /\ \A p \in chunk, q \in resync.todo : SameGroup(p, q) => q \in chunk
    /\ resync.stage = "withdraw" =>
          (chunk \subseteq Prefix4 \/ resync.todo \cap Prefix4 = {})

\* The router's table after it has read a chunk.
Applied(chunk) ==
    [p \in Prefix |->
        IF p \notin chunk THEN table[resync.on][p]
        ELSE IF resync.stage = "withdraw" THEN NoRoute ELSE resync.want[p]]

\* What is left to send after a chunk.
RestOfGroupSkipped(chunk) ==
    {p \in resync.todo : \A q \in chunk : ~SameGroup(p, q)}
Remaining(chunk) == resync.todo \ chunk

\* writeConn delivers one UPDATE.  A router that has left reads nothing, but
\* the first bytes sent to it are still accepted by the local socket.
WriteChunk ==
    /\ resync # NoResync
    /\ tcp[resync.on] \in {"up", "gone"}
    /\ \E chunk \in SUBSET resync.todo :
          /\ NextChunk(chunk)
          /\ resync' = [resync EXCEPT !.todo = Remaining(chunk)]
          /\ table' = IF tcp[resync.on] = "up"
                      THEN [table EXCEPT ![resync.on] = Applied(chunk)]
                      ELSE table
    /\ UNCHANGED <<peerVars, pc, sock, timer, mgr, tcp, offers, blame>>

\* All withdrawals are out: group the routes to announce, skipping IPv6 for
\* a router that did not offer the capability.
GroupRoutes ==
    /\ resync # NoResync
    /\ resync.stage = "withdraw"
    /\ resync.todo = {}
    /\ resync' = [resync EXCEPT !.stage = "announce",
                                !.todo = Plan(resync.want),
                                !.sent = Plan(resync.want)]
    /\ UNCHANGED <<peerVars, pc, sock, timer, mgr, tcp, remote, blame>>

\* Where the caller of resyncRoutes continues.
Return(ok) ==
    /\ pc' = [h \in Handlers |->
                IF resync.by # h THEN pc[h] ELSE IF ok THEN "main" ELSE "end"]
    /\ timer' = [h \in Handlers |->
                   IF resync.by = h /\ ok /\ pc[h] = "initial"
                   THEN holdTime ELSE timer[h]]
    /\ mgr' = IF resync.by = Mgr THEN [at |-> "idle", on |-> NoConn] ELSE mgr

\* lastSent after a resync that sent everything.
NewLastSent == resync.sent

\* Everything was sent: lastSent becomes what the router now holds.
FinishResync ==
    /\ resync # NoResync
    /\ resync.stage = "announce"
    /\ resync.todo = {}
    /\ lastSent' = NewLastSent
    /\ resync' = NoResync
    /\ Return(TRUE)
    /\ UNCHANGED <<conn, routes, state, holdTime, stopping, needsUpdate,
                   hasIPv6Cap, sock, tcp, remote, blame>>

\* A failed resync asks for another one.
RetryForgotten == needsUpdate' = needsUpdate
RearmUpdate == needsUpdate' = TRUE

\* writeConn reports an error: the connection is dead, or the write deadline
\* passed with nothing written ("clean", the connection stays open) or with
\* half a message written ("torn", writeConn closes it).  needsUpdate is
\* armed and lastSent is left as it was.
FailResync ==
    /\ resync # NoResync
    /\ resync.todo # {}
    /\ \/ /\ tcp[resync.on] # "up"
          /\ UNCHANGED <<tcp, remote, blame>>
       \/ /\ tcp[resync.on] = "up" /\ "clean" \in Faults
          /\ blame' = [blame EXCEPT ![resync.on] = @ \cup {"gap"}]
          /\ UNCHANGED <<tcp, remote>>
       \/ /\ tcp[resync.on] = "up" /\ "torn" \in Faults
          /\ Drop(resync.on, "closed")
          /\ UNCHANGED blame
    /\ RearmUpdate
    /\ resync' = NoResync
    /\ Return(FALSE)
    /\ UNCHANGED <<conn, routes, state, holdTime, stopping, hasIPv6Cap,
                   lastSent, sock>>

----------------------------------------------------------------------------
(* Calls made by the manager, one at a time (Manager.mu).                  *)

\* The first half of AnnounceRoutes and WithdrawRoutes: under p.mu, replace
\* the desired set and read conn and state; then resync, or leave it to the
\* session.
SetRoutes(r) ==
    /\ mgr.at = "idle"
    /\ ~stopping
    /\ routes' = r
    /\ IF conn # NoConn /\ state = "ESTABLISHED"
       THEN mgr' = [at |-> "captured", on |-> conn]
       ELSE mgr' = [at |-> "deferred", on |-> NoConn]
    /\ UNCHANGED <<conn, state, holdTime, stopping, needsUpdate, hasIPv6Cap,
                   lastSent, resync, pc, sock, timer, tcp, remote, blame>>

AnnounceRoutes == \E r \in Tables : SetRoutes(r)

WithdrawRoutes ==
    \E drop \in (SUBSET Prefix) \ {{}} :
        SetRoutes([p \in Prefix |-> IF p \in drop THEN NoRoute ELSE routes[p]])

\* The session is not established: leave the set for mainLoop.
DeferRoutes ==
    /\ mgr.at = "deferred"
    /\ needsUpdate' = TRUE
    /\ mgr' = [mgr EXCEPT !.at = "idle"]
    /\ UNCHANGED <<conn, routes, state, holdTime, stopping, hasIPv6Cap,
                   lastSent, resync, pc, sock, timer, tcp, remote, blame>>

\* The session was established when it was read: resync it from here.
SendRoutes ==
    /\ mgr.at = "captured"
    /\ BeginResync(Mgr, mgr.on)
    /\ mgr' = [mgr EXCEPT !.at = "resync"]
    /\ UNCHANGED <<peerVars, pc, sock, timer, tcp, remote>>

TriggerUpdate ==
    /\ mgr.at = "idle"
    /\ ~stopping
    /\ needsUpdate' = TRUE
    /\ UNCHANGED <<conn, routes, state, holdTime, stopping, hasIPv6Cap,
                   lastSent, resync, pc, sock, timer, mgr, tcp, remote, blame>>

\* Peer.Stop, called once by SetPeers or Speaker.Stop when the peer goes.
Stop ==
    /\ mgr.at = "idle"
    /\ ~stopping
    /\ stopping' = TRUE
    /\ conn' = NoConn
    /\ IF conn = NoConn THEN UNCHANGED <<tcp, remote>> ELSE Drop(conn, "closed")
    /\ UNCHANGED <<routes, state, holdTime, needsUpdate, hasIPv6Cap, lastSent,
                   resync, pc, sock, timer, mgr, blame>>

----------------------------------------------------------------------------
(* Steps shared by both kinds of handler.                                  *)

\* Another session of this peer is alive.
Others(h) == {g \in Handlers \ {h} : Active(g)}

\* p.conn = c, for a handler that now owns c.
TakeConn(h, c) ==
    /\ conn' = c
    /\ blame' = IF Others(h) = {} THEN blame
                ELSE [d \in Conn |-> IF d = c \/ \E g \in Others(h) : sock[g] = d
                                     THEN blame[d] \cup {"shared"} ELSE blame[d]]

Goto(h, at) == pc' = [pc EXCEPT ![h] = at]

\* A read or a write fails, the router answers with the wrong message (and is
\* sent a NOTIFICATION), or sends a NOTIFICATION itself.
GiveUpHandshake(h) ==
    /\ pc[h] \in {"sendOpen", "readOpen", "readKeepalive"}
    /\ Goto(h, "close")
    /\ UNCHANGED <<peerVars, resync, sock, timer, mgr, tcp, remote, blame>>

\* The router's KEEPALIVE completes the handshake.  An accepting handler has
\* still to record the router's capabilities.
Establish(h) ==
    /\ pc[h] = "readKeepalive"
    /\ tcp[sock[h]] = "up"
    /\ state' = "ESTABLISHED"
    /\ Goto(h, IF h = Dialer THEN "reset" ELSE "caps")
    /\ UNCHANGED <<conn, routes, holdTime, stopping, needsUpdate, hasIPv6Cap,
                   lastSent, resync, sock, timer, mgr, tcp, remote, blame>>

\* resetSent takes sendMu: a fresh session starts with no routes from us.
ResetSent(h) ==
    /\ pc[h] = "reset"
    /\ resync = NoResync
    /\ lastSent' = {}
    /\ Goto(h, "initial")
    /\ UNCHANGED <<conn, routes, state, holdTime, stopping, needsUpdate,
                   hasIPv6Cap, resync, sock, timer, mgr, tcp, remote, blame>>

\* The initial resync of a session, or one mainLoop was asked for.
SessionResync(h) ==
    /\ pc[h] \in {"initial", "mainResync"}
    /\ BeginResync(h, sock[h])
    /\ UNCHANGED <<peerVars, pc, sock, timer, mgr, tcp, remote>>

\* The head of mainLoop: stop, or take a pending update, or go and read.
LoopIgnoringStop == IF needsUpdate THEN "mainResync" ELSE "read"
LoopHead == IF stopping THEN "end"
            ELSE IF needsUpdate THEN "mainResync" ELSE "read"

MainLoop(h) ==
    /\ pc[h] = "main"
    /\ Goto(h, LoopHead)
    /\ needsUpdate' = (stopping /\ needsUpdate)
    /\ UNCHANGED <<conn, routes, state, holdTime, stopping, hasIPv6Cap,
                   lastSent, resync, sock, timer, mgr, tcp, remote, blame>>

\* A message arrives: KEEPALIVE, UPDATE, or a ROUTE-REFRESH with a subtype
\* change nothing; a plain ROUTE-REFRESH asks for everything again.
ReadKeepalive(h) ==
    /\ pc[h] = "read"
    /\ tcp[sock[h]] = "up"
    /\ Goto(h, "main")
    /\ UNCHANGED <<peerVars, resync, sock, timer, mgr, tcp, remote, blame>>

ReadRouteRefresh(h) ==
    /\ pc[h] = "read"
    /\ tcp[sock[h]] = "up"
    /\ needsUpdate' = TRUE
    /\ Goto(h, "main")
    /\ UNCHANGED <<conn, routes, state, holdTime, stopping, hasIPv6Cap,
                   lastSent, resync, sock, timer, mgr, tcp, remote, blame>>

\* The three ways ReadMessage ends a session: a NOTIFICATION, silence for the
\* hold time (the router is sent a NOTIFICATION), a dead connection.
ReadNotification(h) ==
    /\ pc[h] = "read"
    /\ tcp[sock[h]] = "up"
    /\ Goto(h, "end")
    /\ UNCHANGED <<peerVars, resync, sock, timer, mgr, tcp, remote, blame>>

HoldTimerExpires(h) ==
    /\ pc[h] = "read"
    /\ timer[h]
    /\ Goto(h, "end")
    /\ UNCHANGED <<peerVars, resync, sock, timer, mgr, tcp, remote, blame>>

ReadError(h) ==
    /\ pc[h] = "read"
    /\ tcp[sock[h]] # "up"
    /\ Goto(h, "end")
    /\ UNCHANGED <<peerVars, resync, sock, timer, mgr, tcp, remote, blame>>

\* keepaliveLoop shares the connection with the route writers; a KEEPALIVE cut
\* short makes writeConn close it under the session.
KeepaliveTorn(h) ==
    /\ Serving(h) /\ timer[h]
    /\ tcp[sock[h]] = "up" /\ "torn" \in Faults
    /\ Drop(sock[h], "closed")
    /\ UNCHANGED <<peerVars, resync, pc, sock, timer, mgr, blame>>

\* An established session is over.
EndSession(h) ==
    /\ pc[h] = "end"
    /\ state' = "IDLE"
    /\ Goto(h, "close")
    /\ UNCHANGED <<conn, routes, holdTime, stopping, needsUpdate, hasIPv6Cap,
                   lastSent, resync, sock, timer, mgr, tcp, remote, blame>>

\* What a closing handler leaves in p.conn.
ConnKept == conn
ConnAfterClose == NoConn

\* The deferred calls: close this handler's connection, and set p.conn to nil
\* whichever connection it holds.
CloseConn(h) ==
    /\ pc[h] = "close"
    /\ conn' = ConnAfterClose
    /\ Drop(sock[h], "closed")
    /\ blame' = [blame EXCEPT ![sock[h]] = {}]
    /\ sock' = [sock EXCEPT ![h] = NoConn]
    /\ timer' = [timer EXCEPT ![h] = FALSE]
    /\ Goto(h, IF h # Dialer THEN "free"
               ELSE IF stopping THEN "done" ELSE "backoff")
    /\ UNCHANGED <<routes, state, holdTime, stopping, needsUpdate, hasIPv6Cap,
                   lastSent, resync, mgr>>

----------------------------------------------------------------------------
(* The dialing handler: Run and connectAndRun.                             *)

DialerIs(at) == pc[Dialer] = at

\* Run's loop test, and the head of connectAndRun: an inbound session in
\* progress, or a passive peer, parks the goroutine until the peer stops.
Park == conn # NoConn \/ Passive
Attempt == IF stopping THEN "done" ELSE IF Park THEN "waiting" ELSE "dialing"

StartAttempt ==
    /\ DialerIs("start")
    /\ Goto(Dialer, Attempt)
    /\ state' = IF Attempt = "dialing" THEN "CONNECT" ELSE state
    /\ UNCHANGED <<conn, routes, holdTime, stopping, needsUpdate, hasIPv6Cap,
                   lastSent, resync, sock, timer, mgr, tcp, remote, blame>>

\* A parked goroutine, or one sleeping off a failure, looks at stopping again.
WakeParked ==
    /\ DialerIs("waiting") /\ stopping
    /\ Goto(Dialer, "done")
    /\ UNCHANGED <<peerVars, resync, sock, timer, mgr, tcp, remote, blame>>

WakeBackoff ==
    /\ DialerIs("backoff")
    /\ Goto(Dialer, "start")
    /\ UNCHANGED <<peerVars, resync, sock, timer, mgr, tcp, remote, blame>>

DialFails ==
    /\ DialerIs("dialing")
    /\ Goto(Dialer, IF stopping THEN "done" ELSE "backoff")
    /\ UNCHANGED <<peerVars, resync, sock, timer, mgr, tcp, remote, blame>>

\* A connection comes up with a router that may or may not offer IPv6.
NewConnection(h, c) ==
    /\ tcp[c] = "free"
    /\ tcp' = [tcp EXCEPT ![c] = "up"]
    /\ \E ipv6 \in BOOLEAN : offers' = [offers EXCEPT ![c] = ipv6]
    /\ UNCHANGED table
    /\ sock' = [sock EXCEPT ![h] = c]

\* Dial returns: p.conn is set without looking at what it held.
DialSucceeds ==
    /\ DialerIs("dialing")
    /\ \E c \in Conn : NewConnection(Dialer, c) /\ TakeConn(Dialer, c)
    /\ Goto(Dialer, "sendOpen")
    /\ UNCHANGED <<routes, state, holdTime, stopping, needsUpdate, hasIPv6Cap,
                   lastSent, resync, timer, mgr>>

SendOpen ==
    /\ DialerIs("sendOpen")
    /\ tcp[sock[Dialer]] # "closed"
    /\ state' = "OPENSENT"
    /\ Goto(Dialer, "readOpen")
    /\ UNCHANGED <<conn, routes, holdTime, stopping, needsUpdate, hasIPv6Cap,
                   lastSent, resync, sock, timer, mgr, tcp, remote, blame>>

\* A good OPEN: negotiate the hold time, note the capabilities, answer with a
\* KEEPALIVE.
NegotiatedHold == HoldChoices

ReadOpen ==
    /\ DialerIs("readOpen")
    /\ tcp[sock[Dialer]] = "up"
    /\ holdTime' \in NegotiatedHold
    /\ hasIPv6Cap' = offers[sock[Dialer]]
    /\ state' = "OPENCONFIRM"
    /\ Goto(Dialer, "readKeepalive")
    /\ UNCHANGED <<conn, routes, stopping, needsUpdate, lastSent, resync, sock,
                   timer, mgr, tcp, remote, blame>>

----------------------------------------------------------------------------
(* An accepting handler: handleConnection and AcceptWithOpen.              *)

\* A router connects and sends its OPEN; the handler finds this peer in
\* Speaker.peers, from which a stopped peer has been removed.
LookUpPeer(a) ==
    /\ pc[a] = "free"
    /\ ~stopping
    /\ \E c \in Conn : NewConnection(a, c)
    /\ Goto(a, "lookedUp")
    /\ UNCHANGED <<peerVars, resync, timer, mgr, blame>>

\* hasEstablishedConn says no: the connection will be handed to the peer.
AdmitInbound(a) ==
    /\ pc[a] = "lookedUp"
    /\ conn = NoConn
    /\ Goto(a, "handover")
    /\ UNCHANGED <<peerVars, resync, sock, timer, mgr, tcp, remote, blame>>

\* hasEstablishedConn says yes: keep the existing session, close the new one.
RejectInbound(a) ==
    /\ pc[a] = "lookedUp"
    /\ conn # NoConn
    /\ Drop(sock[a], "closed")
    /\ sock' = [sock EXCEPT ![a] = NoConn]
    /\ Goto(a, "free")
    /\ UNCHANGED <<peerVars, resync, timer, mgr, blame>>

\* AcceptWithOpen sets p.conn and negotiates the hold time.  The ASN was part
\* of the key the peer was found by, so it always matches.
TakeInbound(a) ==
    /\ pc[a] = "handover"
    /\ TakeConn(a, sock[a])
    /\ holdTime' \in NegotiatedHold
    /\ Goto(a, "sendOpen")
    /\ UNCHANGED <<routes, state, stopping, needsUpdate, hasIPv6Cap, lastSent,
                   resync, sock, timer, mgr, tcp, remote>>

\* OPEN and KEEPALIVE go out together: OPENSENT is only passed through.
SendOpenAndKeepalive(a) ==
    /\ a # Dialer /\ pc[a] = "sendOpen"
    /\ tcp[sock[a]] # "closed"
    /\ state' = "OPENCONFIRM"
    /\ Goto(a, "readKeepalive")
    /\ UNCHANGED <<conn, routes, holdTime, stopping, needsUpdate, hasIPv6Cap,
                   lastSent, resync, sock, timer, mgr, tcp, remote, blame>>

\* The capabilities of the OPEN read before the handover.
RecordCapabilities(a) ==
    /\ pc[a] = "caps"
    /\ hasIPv6Cap' = offers[sock[a]]
    /\ Goto(a, "reset")
    /\ UNCHANGED <<conn, routes, state, holdTime, stopping, needsUpdate,
                   lastSent, resync, sock, timer, mgr, tcp, remote, blame>>

----------------------------------------------------------------------------
(* The other end of a connection closes it, or the network drops it.       *)
RouterLeaves(c) ==
    /\ tcp[c] = "up"
    /\ Drop(c, "gone")
    /\ UNCHANGED <<peerVars, resync, pc, sock, timer, mgr, blame>>

----------------------------------------------------------------------------
Resync == WriteChunk \/ GroupRoutes \/ FinishResync \/ FailResync

Manager ==
    \/ AnnounceRoutes \/ WithdrawRoutes \/ DeferRoutes \/ SendRoutes
    \/ TriggerUpdate \/ Stop

Session(h) ==
    \/ GiveUpHandshake(h) \/ Establish(h) \/ ResetSent(h) \/ SessionResync(h)
    \/ MainLoop(h) \/ ReadKeepalive(h) \/ ReadRouteRefresh(h)
    \/ ReadNotification(h) \/ HoldTimerExpires(h) \/ ReadError(h)
    \/ KeepaliveTorn(h) \/ EndSession(h) \/ CloseConn(h)

Dial ==
    \/ StartAttempt \/ WakeParked \/ WakeBackoff \/ DialFails \/ DialSucceeds
    \/ SendOpen \/ ReadOpen

Accept(a) ==
    \/ LookUpPeer(a) \/ AdmitInbound(a) \/ RejectInbound(a) \/ TakeInbound(a)
    \/ SendOpenAndKeepalive(a) \/ RecordCapabilities(a)

Next ==
    \/ Resync
    \/ Manager
    \/ \E h \in Handlers : Session(h)
    \/ Dial
    \/ \E a \in Acceptors : Accept(a)
    \/ \E c \in Conn : RouterLeaves(c)

Spec == Init /\ [][Next]_vars

(***************************************************************************)
(* Fairness.  The peer's goroutines run; writes have a deadline, so a      *)
(* resync and a handshake end; a handshake read has a deadline of 30s and  *)
(* the dial one of 10s.  A router that negotiated a hold timer sends       *)
(* KEEPALIVEs, or the timer fires.  A dead connection fails its reader.    *)
(* Nothing is assumed of the manager, of a router leaving, of connections  *)
(* coming in, or of a router that negotiated no hold timer.                *)
(***************************************************************************)
SessionRuns(h) ==
    \/ GiveUpHandshake(h) \/ Establish(h) \/ ResetSent(h) \/ SessionResync(h)
    \/ MainLoop(h) \/ ReadError(h) \/ EndSession(h) \/ CloseConn(h)
    \/ timer[h] /\ (ReadKeepalive(h) \/ ReadRouteRefresh(h)
                     \/ ReadNotification(h) \/ HoldTimerExpires(h))

Fairness ==
    /\ WF_vars(Resync)
    /\ WF_vars(DeferRoutes) /\ SF_vars(SendRoutes)
    /\ \A h \in Handlers : WF_vars(SessionRuns(h)) /\ SF_vars(ResetSent(h))
                           /\ SF_vars(SessionResync(h))
    /\ WF_vars(StartAttempt \/ WakeParked \/ WakeBackoff \/ DialFails
               \/ DialSucceeds \/ SendOpen \/ ReadOpen)
    /\ \A a \in Acceptors :
          WF_vars(AdmitInbound(a) \/ RejectInbound(a) \/ TakeInbound(a)
                  \/ SendOpenAndKeepalive(a) \/ RecordCapabilities(a))

FairSpec == Spec /\ Fairness

----------------------------------------------------------------------------
(* Properties.                                                             *)

TypeOK ==
    /\ conn \in Conn \cup {NoConn}
    /\ routes \in Tables
    /\ state \in States
    /\ holdTime \in BOOLEAN
    /\ stopping \in BOOLEAN
    /\ needsUpdate \in BOOLEAN
    /\ hasIPv6Cap \in BOOLEAN
    /\ lastSent \in SUBSET Prefix
    /\ resync \in Resyncs \cup {NoResync}
    /\ pc \in [Handlers -> DialerPcs \cup AcceptorPcs \cup SessionPcs]
    /\ sock \in [Handlers -> Conn \cup {NoConn}]
    /\ timer \in [Handlers -> BOOLEAN]
    /\ mgr \in [at : {"idle", "captured", "deferred", "resync"},
                on : Conn \cup {NoConn}]
    /\ tcp \in [Conn -> TcpStates]
    /\ table \in [Conn -> Tables]
    /\ offers \in [Conn -> BOOLEAN]
    /\ blame \in [Conn -> SUBSET Causes]

Table(h) == table[sock[h]]

\* h serves a live session and nobody has anything left to do for it.
Settled(h) ==
    /\ pc[h] \in {"main", "read"}
    /\ tcp[sock[h]] = "up"
    /\ resync = NoResync
    /\ mgr.at = "idle"
    /\ ~needsUpdate

\* Once a session has settled, its router has every desired route it can
\* take, with the current attributes, whatever sends failed and whichever
\* resync the manager ran in between: AnnounceRoutes, needsUpdate and
\* mainLoop together never lose a route.
NothingMissing ==
    \A h \in Handlers :
        Settled(h) /\ "shared" \notin blame[sock[h]]
            => \A p \in Plan(routes) : Table(h)[p] = routes[p]

\* lastSent is, as its comment says, the prefixes the remote side holds from
\* us: outside a resync a live session's router holds nothing that lastSent
\* has forgotten.  The three causes of blame are the only exceptions.
HeldIsRemembered ==
    \A h \in Handlers :
        Accounted(h) /\ tcp[sock[h]] = "up" /\ resync = NoResync
            /\ blame[sock[h]] = {}
            => Held(Table(h)) \subseteq lastSent

\* A settled session's router holds no route that is no longer desired.
NothingStale ==
    \A h \in Handlers :
        Settled(h) /\ blame[sock[h]] = {}
            => Held(Table(h)) \subseteq Plan(routes)

\* The two together: whatever failed, was retried, skipped or overtaken, a
\* settled session's router has the desired routes it can take and no other.
\* (peer_routes.go, resyncRoutes; peer_fsm.go, mainLoop)
SettledIsExact == NothingMissing /\ NothingStale

\* resetSent's comment: "a fresh session starts with no routes from us".  Were
\* it so, only a failed resync or a second session could leave a router with
\* a route nobody wants.
FreshSessionStartsEmpty ==
    \A h \in Handlers :
        Settled(h) /\ blame[sock[h]] \subseteq {"early"}
            => Held(Table(h)) \subseteq Plan(routes)

\* resyncRoutes' comment: after a failure "the retry re-sends the full set";
\* reconcileLocked relies on the peer computing "its own withdrawal diffs from
\* what it actually delivered".  Were it so, a failed resync would leave no
\* stale route once its retry is done.
RetryLeavesNothingStale ==
    \A h \in Handlers :
        Settled(h) /\ blame[sock[h]] \subseteq {"gap"}
            => Held(Table(h)) \subseteq Plan(routes)

\* resyncRoutes skips IPv6 routes for a router that did not offer IPv6 unicast.
IPv6OnlyIfOffered ==
    \A c \in Conn :
        tcp[c] = "up" /\ ~offers[c]
            => Held(table[c]) \cap Prefix6 = {}

\* hasEstablishedConn "prevents duplicate sessions when both sides initiate
\* connections simultaneously".
NoDuplicateSession ==
    \A g, h \in Handlers : Active(g) /\ Active(h) => g = h

\* AnnounceRoutes is never aimed at a connection nobody serves any more: what
\* p.conn names always has a live handler, however many sessions overlap.
ConnIsServed ==
    conn # NoConn => \E h \in Handlers : Active(h) /\ sock[h] = conn

\* A desired route that the router holds is never taken away while the session
\* lasts, not even between the withdrawals and the announcements of a resync.
NoFlap ==
    [][\A c \in Conn, p \in Prefix :
          tcp'[c] = "up" /\ table[c][p] # NoRoute
              /\ table'[c][p] = NoRoute
              => resync.want[p] = NoRoute]_vars

\* AnnounceRoutes and resyncRoutes leave what could not be sent to the
\* session: if the session lasts and the manager asks for nothing more, the
\* router gets the desired set (again and again, if it asks for a refresh).
InSync(h) == \A p \in Plan(routes) : Table(h)[p] = routes[p]

RetryDelivers ==
    \A h \in Handlers :
        <>[](Serving(h) /\ tcp[sock[h]] = "up" /\ mgr.at = "idle")
            => []<>(Serving(h) => InSync(h))

\* Stop ends every goroutine of the peer, wherever it was: dialing, in the
\* handshake, in a resync, reading, or about to be handed a connection.
StopEndsAll ==
    stopping ~> \A h \in Handlers : pc[h] \in {"done", "free"}

\* A peer configured to dial goes back to dialing when its session has ended.
RedialsAfterSession ==
    (DialerIs("waiting") /\ conn = NoConn /\ ~Passive)
        ~> (DialerIs("dialing") \/ conn # NoConn \/ stopping)

----------------------------------------------------------------------------
(***************************************************************************)
(* The inductive invariant behind NothingMissing, HeldIsRemembered,        *)
(* NothingStale and ConnIsServed.                                          *)
(***************************************************************************)
InUse == {c \in Conn : \E h \in Handlers : Active(h) /\ sock[h] = c}

\* Which program points each handler can be at, and when it has a connection.
PcInv ==
    /\ pc[Dialer] \in DialerPcs \cup (SessionPcs \ {"caps"})
    /\ \A a \in Acceptors : pc[a] \in AcceptorPcs \cup (SessionPcs \ {"readOpen"})
    /\ \A h \in Handlers :
          sock[h] # NoConn <=> Active(h) \/ pc[h] \in {"lookedUp", "handover"}

\* A connection has at most one handler, and one if it may carry data.
SockInv ==
    /\ \A g, h \in Handlers : sock[g] = sock[h] /\ sock[g] # NoConn => g = h
    /\ \A c \in Conn : tcp[c] \in {"up", "gone"} => \E h \in Handlers : sock[h] = c
    /\ \A h \in Handlers : sock[h] # NoConn => tcp[sock[h]] # "free"

\* Only a live connection handed to the peer has a table.
TableInv ==
    \A c \in Conn : tcp[c] # "up" \/ c \notin InUse => table[c] = EmptyTable

\* conn, the manager's copy of it and the connection being resynced were
\* handed to the peer: a handler that still has them is past its handover.
NameInv ==
    /\ ConnIsServed
    /\ \A c \in Conn : (c = mgr.on \/ (resync # NoResync /\ c = resync.on)) =>
          /\ tcp[c] # "free"
          /\ \A h \in Handlers : sock[h] = c => Active(h)

\* Overlapping sessions are blamed.
ShareInv ==
    \A g, h \in Handlers :
        g # h /\ Active(g) /\ Active(h) => "shared" \in blame[sock[h]]

Stage(s) == resync # NoResync /\ resync.stage = s

\* Who is inside resyncRoutes, and how far it has got.
CallInv ==
    /\ mgr.on # NoConn <=> mgr.at \in {"captured", "resync"}
    /\ mgr.at = "resync" <=> resync.by = Mgr
    /\ mgr.at = "resync" => resync.on = mgr.on
    /\ \A h \in Handlers : resync.by = h =>
          pc[h] \in {"initial", "mainResync"} /\ resync.on = sock[h]
    /\ Stage("announce") => resync.todo \subseteq resync.sent
    /\ Stage("withdraw") => resync.todo \cap Held(resync.want) = {}

\* A resync of a session that has not reached resetSent is blamed.
EarlyInv ==
    \A h \in Handlers :
        resync # NoResync /\ BeforeReset(h) /\ resync.on = sock[h]
            => "early" \in blame[sock[h]]

Live(h) == Active(h) /\ tcp[sock[h]] = "up"

\* An unblamed router's table is covered, at every point of a resync.
Covered(h) ==
    /\ BeforeReset(h) => Held(Table(h)) = {}
    /\ Accounted(h) =>
          /\ ~(Stage("announce") /\ resync.on = sock[h])
                => Held(Table(h)) \subseteq lastSent
          /\ Stage("withdraw")
                => Held(Table(h)) \subseteq Held(resync.want) \cup resync.todo
          /\ Stage("announce") => Held(Table(h)) \subseteq resync.sent
          /\ hasIPv6Cap \/ Held(Table(h)) \cap Prefix6 = {}

BooksInv == \A h \in Handlers : Live(h) /\ blame[sock[h]] = {} => Covered(h)

\* Somebody will still resync, or is going to ask for it.
Owed(h) == mgr.at # "idle" \/ needsUpdate \/ pc[h] \in {"initial", "mainResync"}

\* Sessions whose routes are accounted for, and which never met another.
Alone(h) == Accounted(h) /\ Live(h) /\ "shared" \notin blame[sock[h]]

\* What is being sent, or was, is the plan for the routes it was made from;
\* and these are the current routes unless more is owed.
Planned(h) ==
    /\ Stage("announce") => resync.sent = Plan(resync.want)
    /\ resync.by = h /\ mgr.at = "idle" /\ ~needsUpdate => resync.want = routes
    /\ resync = NoResync /\ ~Owed(h) => lastSent = Plan(routes)

PlanInv ==
    /\ resync.by = Mgr => resync.want = routes
    /\ \A h \in Handlers : Alone(h) => Planned(h)

\* What was announced is in the router's table, with its attributes.
Synced(h) ==
    /\ Stage("announce") => \A p \in resync.sent \ resync.todo :
                               Table(h)[p] = resync.want[p]
    /\ resync = NoResync /\ ~Owed(h) => InSync(h)

SyncInv == \A h \in Handlers : Alone(h) => Synced(h)

IInv ==
    /\ TypeOK /\ PcInv /\ SockInv /\ TableInv /\ NameInv /\ ShareInv
    /\ CallInv /\ EarlyInv /\ BooksInv /\ PlanInv /\ SyncInv

=============================================================================
