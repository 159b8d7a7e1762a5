------------------------------- MODULE Server -------------------------------
(***************************************************************************)
(* The WebSocket hub of a replica, the reachability banner of the browsers *)
(* on it, and the shutdown of the replica (internal/server/websocket.go,   *)
(* env.go, server.go and web/src/data/wsStatusService.ts).                 *)
(*                                                                         *)
(* The watcher compares the cached reason with the one it last told, and   *)
(* tells the registered connections of a change; a browser that connects   *)
(* fetches the state over REST and then follows the frames.  The shutdown  *)
(* goes through its phases under one deadline.  Time is counted in units   *)
(* of five seconds, and only in the shutdown: a check of the probe may take*)
(* longer than its interval, and then the next one follows it at once, so  *)
(* that the reason may change any number of times between two samples.     *)
(***************************************************************************)
EXTENDS Availability, FiniteSets, Sequences

CONSTANTS
  Tab,         \* browser tabs
  Conn,        \* connections; one is used again after both its ends have left it
  NoConn,      \* no connection
  MaxFaults,   \* bound on outages, refused handshakes and broken connections
  Budget,      \* shutdownBudget, and the share of each phase
  DrainDelay, HttpBudget, WsTimeout

ASSUME BudgetAssumption ==
  /\ {MaxFaults, Budget, DrainDelay, HttpBudget, WsTimeout} \subseteq Nat
  /\ DrainDelay + HttpBudget + WsTimeout < Budget
  /\ NoConn \notin Conn

VARIABLES
  lastReason,  \* what the watcher told last
  watching,    \* whether the watcher runs
  sends,       \* writes of the watcher's broadcast under way: <<connection, reason>>
  conn,        \* [Conn -> its state at the server]
  connections, \* the registered connections
  inbox,       \* [Conn -> frames on their way to the tab]
  tab,         \* [Tab -> its socket, its fetch and the banner it shows]
  untold,      \* tabs that fetched a state which then changed with nobody to tell
               \* them: between two samples, or before they were registered
               \* (history)
  faults,      \* outages, handshakes refused and connections broken (bound)
  phase,       \* of the shutdown
  spent,       \* time between the beginning of the shutdown and of the phase
  forced       \* whether the HTTP drain gave up on a request

tabs == <<tab, untold>>
hubVars == <<lastReason, watching, sends, conn, connections, inbox, tabs, faults>>
downVars == <<phase, spent, forced>>
vars == <<availVars, hubVars, downVars>>

Init ==
  /\ AvailInit
  /\ lastReason = reason /\ watching = TRUE
  /\ sends = {} /\ connections = {}
  /\ conn = [k \in Conn |-> "none"]
  /\ inbox = [k \in Conn |-> <<>>]
  /\ tab = [t \in Tab |-> [sock |-> NoConn, fetch |-> "none", answer |-> {}, shown |-> {}]]
  /\ untold = {}
  /\ faults = 0
  /\ phase = "serving" /\ spent = 0 /\ forced = FALSE

-----------------------------------------------------------------------------
(* What a tab will show once its fetch is applied, if that has its answer.  *)
Holds(t) == IF tab[t].fetch = "answered" THEN tab[t].answer ELSE tab[t].shown

Stale(v) == {t \in Tab : tab[t].fetch # "sent" /\ Holds(t) # v}

(* The probe, which stops when the shutdown begins (probeCancel).  A reason *)
(* that is again what the watcher told last will not be told.               *)
Probe ==
  /\ phase = "serving"
  /\ CheckState \/ CheckArgo
  /\ untold' = untold \cup (IF reason # lastReason /\ reason' = lastReason
                              THEN Stale(reason') ELSE {})
  /\ UNCHANGED <<lastReason, watching, sends, conn, connections, inbox, tab, faults, downVars>>

(* What is down matters while the probe asks.                               *)
Outage ==
  /\ phase = "serving"
  /\ \E s \in Subsystem : GoesDown(s) \/ ComesUp(s)
  /\ faults < MaxFaults /\ faults' = faults + 1
  /\ UNCHANGED <<lastReason, watching, sends, conn, connections, inbox, tabs, downVars>>

stopped == phase \notin {"serving", "draining", "http"}   \* shutdownCh is closed
listening == phase \in {"serving", "draining"}

Watchers == IF watching THEN {NoConn} ELSE {}

(* connWg: handlers from before the upgrade on, goroutines of connections,  *)
(* and the watcher (as NoConn).                                             *)
connWg == {k \in Conn : conn[k] \notin {"none", "request"}} \cup Watchers

-----------------------------------------------------------------------------
(* A tab connects, or connects again (ensureSocket).                        *)
Connect(t, k) ==
  /\ listening
  /\ tab[t].sock = NoConn
  /\ conn[k] = "none" /\ (\A s \in sends : s[1] # k) /\ \A u \in Tab : tab[u].sock # k
  /\ conn' = [conn EXCEPT ![k] = "request"]
  /\ tab' = [tab EXCEPT ![t].sock = k]
  /\ UNCHANGED <<lastReason, watching, sends, connections, inbox, untold, faults, availVars, downVars>>

(* The handshake is authorized, and its handler counted (connWg.Add) ...    *)
Authorize(k) ==
  /\ conn[k] = "request"
  /\ conn' = [conn EXCEPT ![k] = "upgrading"]
  /\ UNCHANGED <<lastReason, watching, sends, connections, inbox, tabs, faults, availVars, downVars>>

(* ... or refused; or it fails in the upgrade.                              *)
Refused(k) ==
  /\ conn[k] \in {"request", "upgrading"} /\ faults < MaxFaults
  /\ conn' = [conn EXCEPT ![k] = "none"]
  /\ faults' = faults + 1
  /\ UNCHANGED <<lastReason, watching, sends, connections, inbox, tabs, availVars, downVars>>

(* The upgrade is answered; the tab fetches the state (onopen), which       *)
(* retires an older fetch ...                                               *)
Accept(k) ==
  /\ conn[k] = "upgrading"
  /\ conn' = [conn EXCEPT ![k] = "accepted"]
  /\ tab' = [t \in Tab |->
       IF tab[t].sock = k THEN [tab[t] EXCEPT !.fetch = "sent", !.answer = {}] ELSE tab[t]]
  /\ untold' = {t \in untold : tab[t].sock # k}
  /\ UNCHANGED <<lastReason, watching, sends, connections, inbox, faults, availVars, downVars>>

(* ... and then the connection is registered and its goroutine started.     *)
Register(k) ==
  /\ conn[k] = "accepted"
  /\ conn' = [conn EXCEPT ![k] = "open"]
  /\ connections' = connections \cup {k}
  /\ UNCHANGED <<lastReason, watching, sends, inbox, tabs, faults, availVars, downVars>>

(* The network loses a connection, or its peer stops reading; one lost      *)
(* before it is registered counts as lost right after.                      *)
Break(k) ==
  /\ conn[k] = "open" /\ faults < MaxFaults
  /\ conn' = [conn EXCEPT ![k] = "broken"]
  /\ faults' = faults + 1
  /\ UNCHANGED <<lastReason, watching, sends, connections, inbox, tabs, availVars, downVars>>

(* Faulty variant: the connection is closed and not removed.               *)
HeartbeatFailsUnremoved(k) ==
  /\ conn[k] \in {"broken", "closed"}
  /\ conn' = [conn EXCEPT ![k] = "none"]
  /\ UNCHANGED <<lastReason, watching, sends, connections, inbox, tabs, faults, availVars, downVars>>

(* checkConnection: a heartbeat fails, ...                                  *)
HeartbeatFails(k) ==
  /\ conn[k] \in {"broken", "closed"}
  /\ conn' = [conn EXCEPT ![k] = "none"]
  /\ connections' = connections \ {k}
  /\ UNCHANGED <<lastReason, watching, sends, inbox, tabs, faults, availVars, downVars>>

(* ... or the server shuts down.                                            *)
GoAway(k) ==
  /\ stopped
  /\ conn[k] \in {"open", "broken", "closed"}
  /\ conn' = [conn EXCEPT ![k] = "none"]
  /\ connections' = connections \ {k}
  /\ UNCHANGED <<lastReason, watching, sends, inbox, tabs, faults, availVars, downVars>>

-----------------------------------------------------------------------------
(* A broadcast writes to the connections registered now, and waits for all  *)
(* its writes.                                                              *)
notifyWebSocketClients(v) ==
  /\ sends = {}
  /\ sends' = {<<k, v>> : k \in connections}

(* The watcher samples the reason, and tells a change to whoever is         *)
(* registered.                                                              *)
watchArgoTransitions ==
  /\ watching /\ reason # lastReason
  /\ lastReason' = reason
  /\ notifyWebSocketClients(reason)
  /\ untold' = untold \cup {t \in Stale(reason) : tab[t].sock \notin connections}
  /\ UNCHANGED <<watching, conn, connections, inbox, tab, faults, availVars, downVars>>

(* One write of a broadcast; when it fails the connection is closed and     *)
(* removed, its goroutine still running.                                    *)
Write(k, v) ==
  /\ <<k, v>> \in sends
  /\ sends' = sends \ {<<k, v>>}
  /\ \/ /\ conn[k] = "open"
        /\ inbox' = [inbox EXCEPT ![k] = Append(@, v)]
        /\ UNCHANGED <<conn, connections>>
     \/ /\ conn[k] # "open"
        /\ conn' = [conn EXCEPT ![k] = IF @ = "broken" THEN "closed" ELSE @]
        /\ connections' = connections \ {k}
        /\ UNCHANGED inbox
  /\ UNCHANGED <<lastReason, watching, tabs, faults, availVars, downVars>>

WatcherStops ==
  /\ stopped /\ watching /\ sends = {}
  /\ watching' = FALSE
  /\ UNCHANGED <<lastReason, sends, conn, connections, inbox, tabs, faults, availVars, downVars>>

-----------------------------------------------------------------------------
(* What a tab shows is followed while its replica serves.                   *)
(* Faulty variant: a fetch that a frame overtook is still applied.         *)
DeliverOnly(t, k) ==
  /\ phase = "serving"
  /\ tab[t].sock = k /\ k \in Conn /\ inbox[k] # <<>>
  /\ tab' = [tab EXCEPT ![t].shown = Head(inbox[k])]
  /\ untold' = untold \ {t}
  /\ inbox' = [inbox EXCEPT ![k] = Tail(@)]
  /\ UNCHANGED <<lastReason, watching, sends, conn, connections, faults, availVars, downVars>>

(* A frame arrives: it is applied, and a fetch in flight will be dropped.   *)
Deliver(t, k) ==
  /\ phase = "serving"
  /\ tab[t].sock = k /\ k \in Conn /\ inbox[k] # <<>>
  /\ tab' = [tab EXCEPT ![t].shown = Head(inbox[k]), ![t].fetch = "none", ![t].answer = {}]
  /\ untold' = untold \ {t}
  /\ inbox' = [inbox EXCEPT ![k] = Tail(@)]
  /\ UNCHANGED <<lastReason, watching, sends, conn, connections, faults, availVars, downVars>>

(* The reachability endpoint reads the cached reason ...                    *)
reachability(t) ==
  /\ phase = "serving"
  /\ tab[t].fetch = "sent"
  /\ tab' = [tab EXCEPT ![t].fetch = "answered", ![t].answer = reason]
  /\ UNCHANGED <<lastReason, watching, sends, conn, connections, inbox, untold, faults, availVars, downVars>>

(* ... and the answer is applied when it arrives.                           *)
Fetched(t) ==
  /\ phase = "serving"
  /\ tab[t].fetch = "answered"
  /\ tab' = [tab EXCEPT ![t].shown = tab[t].answer, ![t].fetch = "none",
                       ![t].answer = {}]
  /\ UNCHANGED <<lastReason, watching, sends, conn, connections, inbox, untold, faults, availVars, downVars>>

(* The tab learns that its connection is gone (onclose).                    *)
SeesClose(t) ==
  /\ tab[t].sock # NoConn
  /\ conn[tab[t].sock] \in {"broken", "closed", "none"}
  /\ tab' = [tab EXCEPT ![t].sock = NoConn]
  /\ inbox' = [inbox EXCEPT ![tab[t].sock] = <<>>]
  /\ UNCHANGED <<lastReason, watching, sends, conn, connections, untold, faults, availVars, downVars>>

-----------------------------------------------------------------------------
Enters(from, to, t) ==
  /\ phase = from /\ phase' = to
  /\ spent' = t
  /\ UNCHANGED <<availVars, hubVars>>

(* A phase may take its share, and no more than what is left.               *)
Limit(share) == IF spent + share <= Budget THEN spent + share ELSE Budget

Requests == {k \in Conn : conn[k] = "request"}

beginDraining == Enters("serving", "draining", 0) /\ UNCHANGED forced

CloseListener == Enters("draining", "http", Limit(DrainDelay)) /\ UNCHANGED forced

(* Faulty variant: the HTTP drain has no share of its own.                 *)
HttpDrainedUncapped ==
  /\ \E t \in spent..Budget :
       /\ Enters("http", "websockets", t)
       /\ Requests = {} \/ t = Budget
  /\ forced' = (Requests # {})

(* Faulty variant: the requests are not waited for.                        *)
HttpDrainedUnwaited == Enters("http", "websockets", spent) /\ UNCHANGED forced

(* The HTTP drain ends when no request is left, or gives up.                *)
HttpDrained ==
  /\ \E t \in spent..Limit(HttpBudget) :
       /\ Enters("http", "websockets", t)
       /\ Requests = {} \/ t = Limit(HttpBudget)
  /\ forced' = (Requests # {})

(* Env.Shutdown has closed shutdownCh; it returns when connWg is zero ...   *)
ShutdownDone ==
  /\ connWg = {}
  /\ \E t \in spent..Limit(WsTimeout) : Enters("websockets", "writeBacks", t)
  /\ UNCHANGED forced

(* Faulty variant: Env.Shutdown waits for as long as it takes.             *)
ShutdownExpiresNever == FALSE /\ UNCHANGED vars

(* ... or when its share is spent.                                          *)
ShutdownExpires ==
  /\ connWg # {}
  /\ Enters("websockets", "writeBacks", Limit(WsTimeout))
  /\ UNCHANGED forced

(* The batcher is closed, which may take what is left, and then the claims  *)
(* are released: by a statement that has no deadline, and counts for none.  *)
releaseTaskLeases ==
  /\ \E t \in spent..Budget : Enters("writeBacks", "released", t)
  /\ UNCHANGED forced

Next ==
  \/ Probe \/ Outage
  \/ \E k \in Conn :
       \/ Authorize(k) \/ Refused(k) \/ Accept(k) \/ Register(k)
       \/ Break(k) \/ HeartbeatFails(k) \/ GoAway(k)
       \/ \E t \in Tab : Connect(t, k) \/ Deliver(t, k)
       \/ \E v \in SUBSET Subsystem : Write(k, v)
  \/ watchArgoTransitions \/ WatcherStops
  \/ \E t \in Tab : reachability(t) \/ Fetched(t) \/ SeesClose(t)
  \/ beginDraining \/ CloseListener \/ HttpDrained
  \/ ShutdownDone \/ ShutdownExpires \/ releaseTaskLeases

(* Goroutines and tickers run and messages arrive while the replica serves; *)
(* in the shutdown, only its own sequence is sure to go on: a handler, or   *)
(* the goroutine of a connection, may outlast it.                           *)
Serving(A) == phase = "serving" /\ A

Fairness ==
  /\ WF_vars(Probe) /\ WF_vars(watchArgoTransitions)
  /\ \A k \in Conn :
       /\ WF_vars(Serving(Authorize(k))) /\ WF_vars(Serving(Accept(k)))
       /\ WF_vars(Serving(Register(k)))
       /\ WF_vars(Serving(HeartbeatFails(k)))
       /\ WF_vars(Serving(\E v \in SUBSET Subsystem : Write(k, v)))
  /\ \A t \in Tab :
       /\ WF_vars(\E k \in Conn : Connect(t, k)) /\ WF_vars(\E k \in Conn : Deliver(t, k))
       /\ WF_vars(reachability(t)) /\ WF_vars(Fetched(t)) /\ WF_vars(SeesClose(t))
  /\ WF_vars(CloseListener) /\ WF_vars(HttpDrained)
  /\ WF_vars(ShutdownDone) /\ WF_vars(ShutdownExpires) /\ WF_vars(releaseTaskLeases)

Spec == Init /\ [][Next]_vars /\ Fairness

-----------------------------------------------------------------------------
(* Properties *)

TabState == [sock : Conn \cup {NoConn}, fetch : {"none", "sent", "answered"},
             answer : SUBSET Subsystem, shown : SUBSET Subsystem]

(* The types.                                                               *)
TypeOK ==
  /\ {down, reason, lastReason} \subseteq SUBSET Subsystem
  /\ probe \in {"waiting", "databaseUp", "databaseDown"}
  /\ faults \in 0..MaxFaults
  /\ watching \in BOOLEAN /\ forced \in BOOLEAN
  /\ sends \subseteq Conn \X SUBSET Subsystem
  /\ conn \in [Conn -> {"none", "request", "upgrading", "accepted", "open", "broken", "closed"}]
  /\ connections \subseteq Conn
  /\ tab \in [Tab -> TabState] /\ untold \subseteq Tab
  /\ phase \in {"serving", "draining", "http", "websockets", "writeBacks", "released"}
  /\ spent \in 0..Budget

(* Whatever went down and came up, and whatever a tab lost of its           *)
(* connections, on a replica that goes on serving the gate comes to name    *)
(* the subsystems that stay down, and so does the banner of every tab: no   *)
(* frame and no answer of the endpoint is applied out of order              *)
(* (wsStatusService.ts).  Except a tab that was never told of a change:     *)
(* one that came back between two samples of the watcher, or was told to    *)
(* the registered connections before its own was (env.go, websocket.go); it *)
(* stays as it is until the next frame or a new connection.                 *)
BannerSettles ==
  \A d \in SUBSET Subsystem :
    <>[](down = d /\ phase = "serving") =>
      <>[](reason = d /\ \A t \in Tab \ untold : tab[t].shown = d)

(* Once Shutdown waits for connWg, no handler raises it from zero, unless   *)
(* the HTTP drain gave up on one (server.go: a WaitGroup misuse).           *)
NoAddAfterWait ==
  [][phase = "websockets" /\ ~forced /\ connWg = {} => connWg' = {}]_vars

(* When Shutdown returned because all goroutines were done, no connection   *)
(* was left registered, upgrading or being written to.                      *)
NoneLeft ==
  phase = "websockets" /\ connWg = {} =>
    sends = {} /\ connections = {} /\ \A k \in Conn : conn[k] \in {"none", "request"}

(* However long the requests and the connections take, the drain of the     *)
(* queued write-backs begins before the budget is spent (server.go:         *)
(* httpDrainBudget, "so the phases after it are not starved").              *)
WriteBacksNotStarved == phase = "writeBacks" => spent < Budget

(* No stuck handler and no stuck connection keeps a replica from handing    *)
(* its claims over.                                                         *)
ShutdownCompletes == phase = "draining" ~> phase = "released"
=============================================================================
