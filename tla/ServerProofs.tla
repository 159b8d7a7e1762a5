---------------------------- MODULE ServerProofs ----------------------------
(***************************************************************************)
(* Proofs about Server: what the hub leaves behind when Env.Shutdown       *)
(* returns, the time its phases leave to the write-backs, and the banners. *)
(***************************************************************************)
EXTENDS Server, SequenceTheorems, TLAPS

-----------------------------------------------------------------------------
(* The inductive invariant *)

(* The frames on their way are sets of subsystems.                          *)
Frames == inbox \in [Conn -> Seq(SUBSET Subsystem)]

(* Registered connections have a goroutine that will remove them, and only  *)
(* the watcher writes.                                                      *)
Registered ==
  /\ \A k \in connections : conn[k] \in {"open", "broken"}
  /\ sends # {} => watching

(* No handshake is left to be handled once the HTTP drain is over, unless   *)
(* it gave up.                                                              *)
NoRequest ==
  phase \in {"websockets", "writeBacks", "released"} /\ ~forced =>
    \A k \in Conn : conn[k] # "request"

(* No phase begins later than the shares of those before it allow.          *)
Shares ==
  /\ phase \in {"serving", "draining"} => spent = 0
  /\ phase = "http" => spent <= DrainDelay
  /\ phase = "websockets" => spent <= DrainDelay + HttpBudget
  /\ phase = "writeBacks" => spent <= DrainDelay + HttpBudget + WsTimeout

ServerInv == TypeOK /\ Frames /\ Registered /\ NoRequest /\ Shares

LEMMA InitServerInv == Init => ServerInv
<1> SUFFICES ASSUME Init PROVE ServerInv
  OBVIOUS
<1> USE DEF Init, AvailInit
<1>1. down \in SUBSET Subsystem /\ reason \in SUBSET Subsystem /\ lastReason = reason
  OBVIOUS
<1>2. <<>> \in Seq(SUBSET Subsystem)
  OBVIOUS
<1>3. TypeOK
  <2>0. untold \subseteq Tab
    OBVIOUS
  <2>1. [sock |-> NoConn, fetch |-> "none", answer |-> {}, shown |-> {}] \in TabState
    BY DEF TabState
  <2>2. tab \in [Tab -> TabState] /\ conn \in [Conn -> {"none", "request", "upgrading", "accepted", "open", "broken", "closed"}]
    BY <2>1
  <2>3. faults \in 0..MaxFaults /\ spent \in 0..Budget
    BY BudgetAssumption
  <2> QED
    BY <1>1, <2>0, <2>2, <2>3 DEF TypeOK
<1>4. Frames
  BY <1>2 DEF Frames
<1>5. Registered /\ NoRequest /\ Shares
  BY BudgetAssumption DEF Registered, NoRequest, Shares
<1> QED
  BY <1>3, <1>4, <1>5 DEF ServerInv

-----------------------------------------------------------------------------
(* Types *)

(* The probe changes what is known of the subsystems, and nothing else.     *)
LEMMA ProbeTypes ==
  ASSUME TypeOK, Probe \/ Outage
  PROVE  TypeOK'
<1>1. CASE Probe
  <2>1. UNCHANGED <<down, lastReason, watching, sends, conn, connections, tab, faults, phase,
                    spent, forced>>
    BY <1>1 DEF Probe, CheckState, CheckArgo, downVars
  <2>2. reason' \in SUBSET Subsystem /\ probe' \in {"waiting", "databaseUp", "databaseDown"}
    BY <1>1 DEF TypeOK, Probe, CheckState, CheckArgo, Subsystem
  <2>3. untold' \subseteq Tab
    BY <1>1 DEF TypeOK, Probe, Stale
  <2> QED
    BY <2>1, <2>2, <2>3 DEF TypeOK
<1>2. CASE Outage
  <2>1. down' \in SUBSET Subsystem /\ UNCHANGED <<probe, reason>>
    BY <1>2 DEF TypeOK, Outage, GoesDown, ComesUp
  <2>2. faults' \in 0..MaxFaults
    BY <1>2, BudgetAssumption DEF TypeOK, Outage
  <2>3. UNCHANGED <<lastReason, watching, sends, conn, connections, tabs, phase, spent, forced>>
    BY <1>2 DEF Outage, downVars
  <2> QED
    BY <2>1, <2>2, <2>3 DEF TypeOK, tabs
<1> QED
  BY <1>1, <1>2

LEMMA ConnectionTypes ==
  ASSUME TypeOK, Frames, NEW k \in Conn,
         \/ Authorize(k) \/ Refused(k) \/ Accept(k) \/ Register(k)
         \/ Break(k) \/ HeartbeatFails(k) \/ GoAway(k)
  PROVE  TypeOK' /\ Frames'
<1> USE DEF TypeOK, Frames, availVars, downVars, tabs
<1>1. CASE Authorize(k)
  BY <1>1 DEF Authorize
<1>2. CASE Refused(k)
  BY <1>2, BudgetAssumption DEF Refused
<1>3. CASE Accept(k)
  <2>1. tab' \in [Tab -> TabState]
    <3> HIDE DEF Frames
    <3>1. \A t \in Tab : tab[t] \in TabState
      OBVIOUS
    <3>2. \A t \in Tab : [tab[t] EXCEPT !.fetch = "sent", !.answer = {}] \in TabState
      BY <3>1 DEF TabState
    <3>3. tab' = [t \in Tab |-> IF tab[t].sock = k
                               THEN [tab[t] EXCEPT !.fetch = "sent", !.answer = {}] ELSE tab[t]]
      BY <1>3 DEF Accept
    <3> HIDE DEF TypeOK
    <3> QED
      BY <3>1, <3>2, <3>3
  <2> QED
    BY <1>3, <2>1 DEF Accept
<1>4. CASE Register(k)
  BY <1>4 DEF Register
<1>5. CASE Break(k)
  BY <1>5, BudgetAssumption DEF Break
<1>6. CASE HeartbeatFails(k)
  BY <1>6 DEF HeartbeatFails
<1>7. CASE GoAway(k)
  BY <1>7 DEF GoAway
<1> QED
  BY <1>1, <1>2, <1>3, <1>4, <1>5, <1>6, <1>7

LEMMA TabTypes ==
  ASSUME TypeOK, Frames, NEW t \in Tab,
         \/ \E k \in Conn : Connect(t, k) \/ Deliver(t, k)
         \/ reachability(t) \/ Fetched(t) \/ SeesClose(t)
  PROVE  TypeOK' /\ Frames'
<1> USE DEF TypeOK, Frames, availVars, downVars, tabs
<1>1. ASSUME NEW k \in Conn, Connect(t, k) PROVE TypeOK' /\ Frames'
  <2>1. tab' \in [Tab -> TabState]
    <3> HIDE DEF Frames
    <3>1. tab[t] \in TabState /\ tab \in [Tab -> TabState]
      OBVIOUS
    <3>2. [tab[t] EXCEPT !.sock = k] \in TabState
      BY <3>1 DEF TabState
    <3>3. tab' = [tab EXCEPT ![t].sock = k]
      BY <1>1 DEF Connect
    <3> HIDE DEF TypeOK
    <3> QED
      BY <3>1, <3>2, <3>3
  <2>2. conn' \in [Conn -> {"none", "request", "upgrading", "accepted", "open", "broken", "closed"}]
    BY <1>1 DEF Connect
  <2> QED
    BY <1>1, <2>1, <2>2 DEF Connect
<1>2. ASSUME NEW k \in Conn, Deliver(t, k) PROVE TypeOK' /\ Frames'
  <2>1. inbox[k] \in Seq(SUBSET Subsystem) /\ inbox[k] # <<>>
    BY <1>2 DEF Deliver
  <2>2. Head(inbox[k]) \in SUBSET Subsystem /\ Tail(inbox[k]) \in Seq(SUBSET Subsystem)
    BY <2>1, HeadTailProperties
  <2>3. Frames'
    <3> HIDE DEF TypeOK
    <3> DEFINE S == Seq(SUBSET Subsystem)
    <3>1. inbox \in [Conn -> S] /\ Tail(inbox[k]) \in S
      BY <2>2
    <3>2. inbox' = [inbox EXCEPT ![k] = Tail(inbox[k])]
      BY <1>2 DEF Deliver
    <3> HIDE DEF S
    <3>3. inbox' \in [Conn -> S]
      BY <3>1, <3>2
    <3> QED
      BY <3>3 DEF S
  <2>4. tab' \in [Tab -> TabState]
    <3> HIDE DEF Frames
    <3> DEFINE v == Head(inbox[k])
    <3>1. v \in SUBSET Subsystem
      BY <2>2
    <3>2. tab' = [tab EXCEPT ![t].shown = v, ![t].fetch = "none", ![t].answer = {}]
      BY <1>2 DEF Deliver
    <3> HIDE DEF v
    <3>3. tab[t] \in TabState /\ tab \in [Tab -> TabState]
      OBVIOUS
    <3>4. [tab[t] EXCEPT !.shown = v, !.fetch = "none", !.answer = {}] \in TabState
      BY <3>1, <3>3 DEF TabState
    <3> QED
      BY <3>2, <3>3, <3>4
  <2> QED
    BY <1>2, <2>3, <2>4 DEF Deliver
<1>3. CASE reachability(t)
  <2>1. tab' \in [Tab -> TabState]
    <3> HIDE DEF Frames
    <3>1. tab[t] \in TabState /\ tab \in [Tab -> TabState] /\ reason \in SUBSET Subsystem
      OBVIOUS
    <3>2. [tab[t] EXCEPT !.fetch = "answered", !.answer = reason] \in TabState
      BY <3>1 DEF TabState
    <3>3. tab' = [tab EXCEPT ![t].fetch = "answered", ![t].answer = reason]
      BY <1>3 DEF reachability
    <3> QED
      BY <3>1, <3>2, <3>3
  <2> QED
    BY <1>3, <2>1 DEF reachability
<1>4. CASE Fetched(t)
  <2>1. tab[t].answer \in SUBSET Subsystem
    BY DEF TabState
  <2>2. tab' \in [Tab -> TabState]
    BY <1>4, <2>1 DEF Fetched, TabState
  <2> QED
    BY <1>4, <2>2 DEF Fetched
<1>5. CASE SeesClose(t)
  <2>1. tab' \in [Tab -> TabState]
    <3> HIDE DEF Frames
    <3>1. tab' = [tab EXCEPT ![t].sock = NoConn]
      BY <1>5 DEF SeesClose
    <3> QED
      BY <3>1 DEF TabState
  <2>2. Frames'
    <3> HIDE DEF TypeOK
    <3> DEFINE S == Seq(SUBSET Subsystem)
    <3>1. inbox \in [Conn -> S] /\ <<>> \in S
      OBVIOUS
    <3>2. inbox' = [inbox EXCEPT ![tab[t].sock] = <<>>]
      BY <1>5 DEF SeesClose
    <3> HIDE DEF S
    <3>3. inbox' \in [Conn -> S]
      BY <3>1, <3>2
    <3> QED
      BY <3>3 DEF S
  <2> QED
    BY <1>5, <2>1, <2>2 DEF SeesClose
<1> QED
  BY <1>1, <1>2, <1>3, <1>4, <1>5

LEMMA WatcherTypes ==
  ASSUME TypeOK, Frames,
         \/ watchArgoTransitions \/ WatcherStops
         \/ \E k \in Conn : \E v \in SUBSET Subsystem : Write(k, v)
  PROVE  TypeOK' /\ Frames'
<1> USE DEF TypeOK, Frames, availVars, downVars, tabs
<1>1. CASE watchArgoTransitions
  BY <1>1 DEF watchArgoTransitions, notifyWebSocketClients, Stale
<1>2. CASE WatcherStops
  BY <1>2 DEF WatcherStops
<1>3. ASSUME NEW k \in Conn, NEW v \in SUBSET Subsystem, Write(k, v)
      PROVE  TypeOK' /\ Frames'
  <2>1. Append(inbox[k], v) \in Seq(SUBSET Subsystem)
    BY AppendProperties
  <2>2. Frames'
    <3> HIDE DEF TypeOK
    <3> DEFINE S == Seq(SUBSET Subsystem)
    <3>1. inbox \in [Conn -> S] /\ Append(inbox[k], v) \in S
      BY <2>1
    <3>2. inbox' = inbox \/ inbox' = [inbox EXCEPT ![k] = Append(inbox[k], v)]
      BY <1>3 DEF Write
    <3> HIDE DEF S
    <3>3. inbox' \in [Conn -> S]
      BY <3>1, <3>2
    <3> QED
      BY <3>3 DEF S
  <2>3. TypeOK'
    <3> HIDE DEF Frames
    <3> QED
      BY <1>3 DEF Write
  <2> QED
    BY <2>2, <2>3
<1> QED
  BY <1>1, <1>2, <1>3

(* The deadline of the whole bounds every phase.                            *)
LEMMA PhaseTypes ==
  ASSUME TypeOK, Frames,
         \/ beginDraining \/ CloseListener \/ HttpDrained
         \/ ShutdownDone \/ ShutdownExpires \/ releaseTaskLeases
  PROVE  TypeOK' /\ Frames'
<1>1. /\ phase' \in {"serving", "draining", "http", "websockets", "writeBacks", "released"}
      /\ spent' \in 0..Budget /\ forced' \in BOOLEAN
  <2>1. spent \in 0..Budget /\ forced \in BOOLEAN /\ Budget \in Nat
    BY BudgetAssumption DEF TypeOK
  <2>2. \A share \in {DrainDelay, HttpBudget, WsTimeout} : Limit(share) \in 0..Budget
    BY <2>1, BudgetAssumption DEF Limit
  <2>3. forced' \in BOOLEAN /\ phase' \in {"draining", "http", "websockets", "writeBacks", "released"}
    BY <2>1
    DEF beginDraining, CloseListener, HttpDrained, ShutdownDone, ShutdownExpires,
        releaseTaskLeases, Enters
  <2>4. CASE beginDraining \/ CloseListener \/ ShutdownExpires
    BY <2>1, <2>2, <2>4 DEF beginDraining, CloseListener, ShutdownExpires, Enters
  <2>5. CASE HttpDrained \/ ShutdownDone
    <3>1. PICK share \in {HttpBudget, WsTimeout} : spent' \in spent..Limit(share)
      BY <2>5 DEF HttpDrained, ShutdownDone, Enters
    <3>2. Limit(share) \in 0..Budget
      BY <2>2, <3>1
    <3> QED
      BY <2>1, <2>3, <3>1, <3>2
  <2>6. CASE releaseTaskLeases
    BY <2>1, <2>6 DEF releaseTaskLeases, Enters
  <2> QED
    BY <2>3, <2>4, <2>5, <2>6
<1>2. UNCHANGED <<availVars, hubVars>>
  BY DEF beginDraining, CloseListener, HttpDrained, ShutdownDone, ShutdownExpires,
         releaseTaskLeases, Enters
<1> QED
  BY <1>1, <1>2 DEF TypeOK, Frames, availVars, hubVars, tabs

LEMMA Types ==
  ASSUME TypeOK, Frames, [Next]_vars
  PROVE  TypeOK' /\ Frames'
<1>1. CASE UNCHANGED vars
  BY <1>1 DEF vars, availVars, hubVars, tabs, downVars, TypeOK, Frames
<1>2. CASE Probe \/ Outage
  BY <1>2, ProbeTypes DEF Frames, Probe, Outage
<1> QED
  BY <1>1, <1>2, ConnectionTypes, TabTypes, WatcherTypes, PhaseTypes DEF Next

-----------------------------------------------------------------------------
(* The hub *)

(* A connection leaves the list before, or with, its goroutine: every step  *)
(* that closes one for good removes it.                                     *)
LEMMA StepRegistered ==
  ASSUME TypeOK, Registered, [Next]_vars
  PROVE  Registered'
<1> USE DEF Registered
<1>0. /\ conn \in [Conn -> {"none", "request", "upgrading", "accepted", "open", "broken", "closed"}]
      /\ connections \subseteq Conn /\ watching \in BOOLEAN
  BY DEF TypeOK
<1> HIDE DEF TypeOK
<1>1. CASE UNCHANGED <<conn, connections, sends, watching>>
  BY <1>1
<1>2. ASSUME NEW k \in Conn, Authorize(k) \/ Refused(k) \/ Accept(k)
      PROVE  Registered'
  <2>1. k \notin connections
    <3>1. conn[k] \in {"request", "upgrading"}
      BY <1>0, <1>2 DEF Authorize, Refused, Accept
    <3> QED
      BY <3>1
  <2>2. UNCHANGED <<connections, sends, watching>> /\ \A c \in Conn \ {k} : conn'[c] = conn[c]
    BY <1>0, <1>2 DEF Authorize, Refused, Accept
  <2>3. \A c \in connections : conn'[c] = conn[c]
    BY <1>0, <2>1, <2>2
  <2> QED
    BY <2>2, <2>3
<1>3. ASSUME NEW k \in Conn, Register(k) \/ Break(k)
      PROVE  Registered'
  <2>1. \A c \in Conn \ {k} : conn'[c] = conn[c]
    BY <1>0, <1>3 DEF Register, Break
  <2>2. conn'[k] \in {"open", "broken"}
    BY <1>0, <1>3 DEF Register, Break
  <2>3. connections' \subseteq connections \cup {k} /\ UNCHANGED <<sends, watching>>
    BY <1>3 DEF Register, Break
  <2> QED
    BY <1>0, <2>1, <2>2, <2>3
<1>4. ASSUME NEW k \in Conn, HeartbeatFails(k) \/ GoAway(k)
      PROVE  Registered'
  BY <1>0, <1>4 DEF HeartbeatFails, GoAway
<1>5. ASSUME NEW k \in Conn, NEW v \in SUBSET Subsystem, Write(k, v)
      PROVE  Registered'
  BY <1>0, <1>5 DEF Write
<1>6. ASSUME NEW k \in Conn, NEW t \in Tab, Connect(t, k)
      PROVE  Registered'
  BY <1>0, <1>6 DEF Connect
<1>7. CASE watchArgoTransitions
  BY <1>0, <1>7 DEF watchArgoTransitions
<1>8. CASE WatcherStops
  BY <1>0, <1>8 DEF WatcherStops
<1>9. CASE \/ Probe \/ Outage
           \/ \E t \in Tab : reachability(t) \/ Fetched(t) \/ SeesClose(t)
           \/ \E t \in Tab, k \in Conn : Deliver(t, k)
           \/ beginDraining \/ CloseListener \/ HttpDrained
           \/ ShutdownDone \/ ShutdownExpires \/ releaseTaskLeases
  BY <1>1, <1>9
  DEF Probe, Outage, hubVars, reachability, Fetched, SeesClose, Deliver, beginDraining,
      CloseListener, HttpDrained, ShutdownDone, ShutdownExpires, releaseTaskLeases, Enters
<1>10. CASE UNCHANGED vars
  BY <1>1, <1>10 DEF vars, hubVars
<1> QED
  BY <1>2, <1>3, <1>4, <1>5, <1>6, <1>7, <1>8, <1>9, <1>10 DEF Next

(* Nothing connects once the listener is closed.                            *)
LEMMA StepNoRequest ==
  ASSUME TypeOK, NoRequest, [Next]_vars
  PROVE  NoRequest'
<1> USE DEF NoRequest, TypeOK
<1>1. CASE UNCHANGED <<conn, phase, forced>>
  BY <1>1
<1>2. ASSUME NEW k \in Conn,
             \/ Authorize(k) \/ Refused(k) \/ Accept(k) \/ Register(k)
             \/ Break(k) \/ HeartbeatFails(k) \/ GoAway(k)
             \/ \E v \in SUBSET Subsystem : Write(k, v)
      PROVE  NoRequest'
  BY <1>2
  DEF Authorize, Refused, Accept, Register, Break, HeartbeatFails, GoAway, Write, downVars
<1>3. ASSUME NEW k \in Conn, NEW t \in Tab, Connect(t, k)
      PROVE  NoRequest'
  BY <1>3 DEF Connect, listening, downVars
<1>4. CASE \/ Probe \/ Outage
           \/ watchArgoTransitions \/ WatcherStops
           \/ \E t \in Tab : reachability(t) \/ Fetched(t) \/ SeesClose(t)
           \/ \E t \in Tab, k \in Conn : Deliver(t, k)
  BY <1>1, <1>4
  DEF Probe, Outage, hubVars, downVars, watchArgoTransitions, WatcherStops, reachability,
      Fetched, SeesClose, Deliver
<1>5. CASE HttpDrained
  BY <1>5 DEF HttpDrained, Requests, Enters, hubVars
<1>6. CASE \/ beginDraining \/ CloseListener \/ ShutdownDone \/ ShutdownExpires
           \/ releaseTaskLeases
  BY <1>6
  DEF beginDraining, CloseListener, ShutdownDone, ShutdownExpires, releaseTaskLeases,
      Enters, hubVars
<1>7. CASE UNCHANGED vars
  BY <1>1, <1>7 DEF vars, hubVars, downVars
<1> QED
  BY <1>2, <1>3, <1>4, <1>5, <1>6, <1>7 DEF Next

(* The phases add up their shares.                                          *)
LEMMA StepShares ==
  ASSUME TypeOK, Shares, [Next]_vars
  PROVE  Shares'
<1> USE DEF Shares, TypeOK
<1>1. CASE UNCHANGED <<phase, spent>>
  BY <1>1
<1>2. CASE \/ beginDraining \/ CloseListener \/ HttpDrained
           \/ ShutdownDone \/ ShutdownExpires \/ releaseTaskLeases
  BY <1>2, BudgetAssumption
  DEF beginDraining, CloseListener, HttpDrained, ShutdownDone, ShutdownExpires,
      releaseTaskLeases, Enters, Limit
<1>3. ASSUME NEW k \in Conn,
             \/ Authorize(k) \/ Refused(k) \/ Accept(k) \/ Register(k)
             \/ Break(k) \/ HeartbeatFails(k) \/ GoAway(k)
             \/ \E v \in SUBSET Subsystem : Write(k, v)
             \/ \E t \in Tab : Connect(t, k) \/ Deliver(t, k)
      PROVE  Shares'
  BY <1>1, <1>3
  DEF Authorize, Refused, Accept, Register, Break, HeartbeatFails, GoAway, Write, Connect, Deliver,
      downVars
<1>4. CASE \/ Probe \/ Outage \/ watchArgoTransitions \/ WatcherStops
           \/ \E t \in Tab : reachability(t) \/ Fetched(t) \/ SeesClose(t)
           \/ UNCHANGED vars
  BY <1>1, <1>4
  DEF Probe, Outage, downVars, watchArgoTransitions, WatcherStops, reachability, Fetched,
      SeesClose, vars
<1> QED
  BY <1>2, <1>3, <1>4 DEF Next

LEMMA StepServerInv == ServerInv /\ [Next]_vars => ServerInv'
BY Types, StepRegistered, StepNoRequest, StepShares DEF ServerInv

-----------------------------------------------------------------------------
(* The banner *)

(* Frames are told over open, registered connections, and a connection      *)
(* belongs to one tab; nothing is told over one that is not yet registered. *)
Wires ==
  /\ \A k \in Conn : conn[k] = "open" => k \in connections
  /\ \A k \in Conn : \A v \in SUBSET Subsystem : <<k, v>> \in sends => v = lastReason
  /\ \A t \in Tab : \A u \in Tab : tab[t].sock \in Conn /\ tab[u].sock = tab[t].sock => u = t
  /\ \A k \in Conn : conn[k] \in {"request", "upgrading", "accepted", "open"} \/ inbox[k] # <<>> =>
       \E t \in Tab : tab[t].sock = k
  /\ \A k \in Conn : conn[k] \in {"request", "upgrading", "accepted"} =>
       inbox[k] = <<>> /\ \A v \in SUBSET Subsystem : <<k, v>> \notin sends

LastFrame(k) == inbox[k][Len(inbox[k])]

(* What a tab holds is the reason, unless the watcher will tell it another  *)
(* or nobody has told it.                                                   *)
Shows(t) == reason = lastReason /\ tab[t].fetch # "sent" => Holds(t) = reason \/ t \in untold

(* What a tab will show in the end is the last of what is on its way to it: *)
(* a write under way, the last frame, the answer of its fetch.              *)
FollowsOn(t, k) ==
  \/ <<k, lastReason>> \in sends
  \/ inbox[k] # <<>> /\ LastFrame(k) = lastReason
  \/ inbox[k] = <<>> /\ Shows(t)

Follows ==
  \A t \in Tab : \A k \in Conn :
    tab[t].sock = k /\ conn[k] \in {"accepted", "open"} => FollowsOn(t, k)

(* A tab whose connection stands, and to which nothing is on its way, shows *)
(* the cached reason, unless the watcher has yet to tell it: a banner is    *)
(* not left stale by a fetch that a frame overtook or by an older           *)
(* connection (wsStatusService.ts).  It is left stale by a change that came *)
(* back between two samples, or that was told before the tab's connection   *)
(* was registered (Env.watchArgoTransitions, Env.handleWebSocketConnection).*)
BannerCurrent ==
  \A t \in Tab \ untold : \A k \in Conn :
    /\ tab[t].sock = k /\ conn[k] = "open"
    /\ inbox[k] = <<>> /\ tab[t].fetch = "none"
    /\ \A v \in SUBSET Subsystem : <<k, v>> \notin sends
    => reason # lastReason \/ tab[t].shown = reason

BannerInv == ServerInv /\ Wires /\ Follows

LEMMA TailLast ==
  ASSUME NEW S, NEW q \in Seq(S), q # <<>>
  PROVE  IF Tail(q) = <<>> THEN Head(q) = q[Len(q)] ELSE Tail(q)[Len(Tail(q))] = q[Len(q)]
<1>1. Len(q) \in Nat /\ Len(q) > 0 /\ Head(q) = q[1]
  BY EmptySeq, HeadTailProperties, LenProperties
<1>2. /\ Tail(q) \in Seq(S) /\ Len(Tail(q)) = Len(q) - 1
      /\ \A i \in 1..Len(Tail(q)) : Tail(q)[i] = q[i + 1]
  BY <1>1, HeadTailProperties
<1>3. Tail(q) = <<>> <=> Len(Tail(q)) = 0
  BY <1>2, EmptySeq
<1> QED
  BY <1>1, <1>2, <1>3

(* What the proofs below use of the types.                                  *)
HubTypes ==
  /\ conn \in [Conn -> {"none", "request", "upgrading", "accepted", "open", "broken", "closed"}]
  /\ tab \in [Tab -> TabState] /\ inbox \in [Conn -> Seq(SUBSET Subsystem)]
  /\ reason \in SUBSET Subsystem /\ lastReason \in SUBSET Subsystem
  /\ sends \subseteq Conn \X SUBSET Subsystem /\ connections \subseteq Conn
  /\ \A k \in connections : conn[k] \in {"open", "broken"}

LEMMA HubTyped == TypeOK /\ Frames /\ Registered => HubTypes
BY DEF TypeOK, Frames, Registered, HubTypes

(* The steps outside the hub, and those of the watcher and the phases that  *)
(* leave its connections alone.                                             *)
Elsewhere ==
  \/ Outage \/ WatcherStops
  \/ beginDraining \/ CloseListener \/ HttpDrained
  \/ ShutdownDone \/ ShutdownExpires \/ releaseTaskLeases
  \/ UNCHANGED vars

LEMMA ElsewhereSteps ==
  ASSUME Elsewhere
  PROVE  UNCHANGED <<reason, lastReason, sends, conn, connections, inbox, tab, untold>>
<1> USE DEF tabs, hubVars, availVars
<1>1. CASE Outage
  BY <1>1 DEF Outage, GoesDown, ComesUp
<1>2. CASE WatcherStops \/ UNCHANGED vars
  BY <1>2 DEF WatcherStops, vars
<1>3. CASE \/ beginDraining \/ CloseListener \/ HttpDrained
           \/ ShutdownDone \/ ShutdownExpires \/ releaseTaskLeases
  <2>1. UNCHANGED <<availVars, hubVars>>
    BY <1>3
    DEF beginDraining, CloseListener, HttpDrained, ShutdownDone, ShutdownExpires,
        releaseTaskLeases, Enters
  <2> QED
    BY <2>1
<1> QED
  BY <1>1, <1>2, <1>3 DEF Elsewhere

(* A handshake, a lost connection or its removal changes one connection,    *)
(* and opens none.                                                          *)
Ends(c) == Authorize(c) \/ Refused(c) \/ Break(c) \/ HeartbeatFails(c) \/ GoAway(c)

LEMMA EndSteps ==
  ASSUME HubTypes, NEW c \in Conn, Ends(c)
  PROVE  /\ UNCHANGED <<lastReason, reason, sends, inbox, tab, untold>>
         /\ \A k \in Conn \ {c} : conn'[k] = conn[k] /\ (k \in connections => k \in connections')
         /\ conn'[c] \notin {"accepted", "open", "request"} /\ conn[c] # "none"
         /\ conn'[c] = "upgrading" => conn[c] = "request"
<1> USE DEF HubTypes, availVars, tabs
<1>1. CASE Authorize(c) \/ Refused(c)
  BY <1>1 DEF Authorize, Refused
<1>2. CASE Break(c)
  BY <1>2 DEF Break
<1>3. CASE HeartbeatFails(c) \/ GoAway(c)
  BY <1>3 DEF HeartbeatFails, GoAway
<1> QED
  BY <1>1, <1>2, <1>3 DEF Ends

LEMMA StepWires ==
  ASSUME HubTypes, Wires, [Next]_vars
  PROVE  Wires'
<1>0. /\ conn \in [Conn -> {"none", "request", "upgrading", "accepted", "open", "broken", "closed"}]
      /\ tab \in [Tab -> TabState] /\ inbox \in [Conn -> Seq(SUBSET Subsystem)]
      /\ connections \subseteq Conn /\ NoConn \notin Conn
      /\ \A k \in connections : conn[k] \in {"open", "broken"}
  BY BudgetAssumption DEF HubTypes
<1>1. CASE Elsewhere \/ Probe
  <2>1. UNCHANGED <<lastReason, sends, conn, connections, inbox, tab>>
    BY <1>1, ElsewhereSteps DEF Probe
  <2> QED
    BY <2>1 DEF Wires
<1>2. ASSUME NEW c \in Conn, Ends(c) PROVE Wires'
  BY <1>2, EndSteps DEF Wires
<1>3. ASSUME NEW c \in Conn, NEW t \in Tab, Connect(t, c) PROVE Wires'
  <2>1. /\ UNCHANGED <<lastReason, sends, connections, inbox>>
        /\ conn'[c] = "request" /\ \A k \in Conn \ {c} : conn'[k] = conn[k]
        /\ \A u \in Tab : tab[u].sock # c
        /\ \A v \in SUBSET Subsystem : <<c, v>> \notin sends
        /\ \A u \in Tab \ {t} : tab'[u] = tab[u]
    BY <1>0, <1>3 DEF Connect
  <2>2. tab[t].sock = NoConn /\ tab'[t].sock = c
    BY <1>0, <1>3 DEF Connect, TabState
  <2>3. inbox[c] = <<>>
    BY <2>1 DEF Wires
  <2>4. \A u \in Tab : \A w \in Tab : tab'[u].sock \in Conn /\ tab'[w].sock = tab'[u].sock => w = u
    <3>1. \A u \in Tab \ {t} : tab'[u].sock = tab[u].sock /\ tab'[u].sock # c
      BY <2>1
    <3> QED
      BY <2>2, <3>1 DEF Wires
  <2>5. \A k \in Conn \ {c} : \A u \in Tab : tab[u].sock = k => u # t /\ tab'[u].sock = k
    BY <1>0, <2>1, <2>2
  <2>6. \A k \in Conn : conn'[k] \in {"request", "upgrading", "accepted", "open"} \/ inbox'[k] # <<>> =>
          \E u \in Tab : tab'[u].sock = k
    BY <2>1, <2>2, <2>3, <2>5 DEF Wires
  <2> QED
    BY <2>1, <2>3, <2>4, <2>6 DEF Wires
<1>4. ASSUME NEW c \in Conn, Accept(c) PROVE Wires'
  <2>1. /\ UNCHANGED <<lastReason, sends, inbox, connections>>
        /\ conn'[c] = "accepted" /\ \A k \in Conn \ {c} : conn'[k] = conn[k]
    BY <1>0, <1>4 DEF Accept
  <2>2. \A t \in Tab : tab'[t].sock = tab[t].sock
    <3>1. \A t \in Tab : [tab[t] EXCEPT !.fetch = "sent", !.answer = {}].sock = tab[t].sock
      BY <1>0 DEF TabState
    <3> QED
      BY <1>4, <3>1 DEF Accept
  <2>3. conn[c] = "upgrading"
    BY <1>4 DEF Accept
  <2> QED
    BY <2>1, <2>2, <2>3 DEF Wires
<1>5. CASE watchArgoTransitions
  BY <1>0, <1>5 DEF Wires, watchArgoTransitions, notifyWebSocketClients
<1>6. ASSUME NEW c \in Conn, NEW v \in SUBSET Subsystem, Write(c, v) PROVE Wires'
  <2>1. /\ UNCHANGED <<lastReason, tab>> /\ sends' = sends \ {<<c, v>>} /\ <<c, v>> \in sends
    BY <1>6 DEF Write, tabs
  <2>2. CASE conn[c] = "open"
    <3>1. UNCHANGED <<conn, connections>> /\ \A k \in Conn \ {c} : inbox'[k] = inbox[k]
      BY <1>0, <1>6, <2>2 DEF Write
    <3>2. \E t \in Tab : tab[t].sock = c
      BY <2>2 DEF Wires
    <3> QED
      BY <2>1, <2>2, <3>1, <3>2 DEF Wires
  <2>3. CASE conn[c] # "open"
    <3>1. /\ UNCHANGED inbox /\ connections' = connections \ {c}
          /\ \A k \in Conn \ {c} : conn'[k] = conn[k]
          /\ conn'[c] # "open" /\ (conn'[c] \in {"request", "upgrading", "accepted"} => conn'[c] = conn[c])
      BY <1>0, <1>6, <2>3 DEF Write
    <3> QED
      BY <2>1, <3>1 DEF Wires
  <2> QED
    BY <2>2, <2>3
<1>7. ASSUME NEW c \in Conn, NEW t \in Tab, Deliver(t, c) PROVE Wires'
  <2>1. /\ UNCHANGED <<lastReason, sends, conn, connections>>
        /\ inbox[c] # <<>> /\ \A k \in Conn \ {c} : inbox'[k] = inbox[k]
    BY <1>0, <1>7 DEF Deliver
  <2>2. \A u \in Tab : tab'[u].sock = tab[u].sock
    BY <1>0, <1>7 DEF Deliver, TabState
  <2> QED
    BY <2>1, <2>2 DEF Wires
<1>8. ASSUME NEW t \in Tab, reachability(t) \/ Fetched(t) PROVE Wires'
  <2>1. UNCHANGED <<lastReason, sends, conn, connections, inbox>>
    BY <1>8 DEF reachability, Fetched
  <2>2. \A u \in Tab : tab'[u].sock = tab[u].sock
    <3>1. CASE reachability(t)
      BY <1>0, <3>1 DEF reachability, TabState
    <3>2. CASE Fetched(t)
      BY <1>0, <3>2 DEF Fetched, TabState
    <3> QED
      BY <1>8, <3>1, <3>2
  <2> QED
    BY <2>1, <2>2 DEF Wires
<1>9. ASSUME NEW t \in Tab, SeesClose(t) PROVE Wires'
  <2> DEFINE c == tab[t].sock
  <2>1. /\ UNCHANGED <<lastReason, sends, conn, connections>>
        /\ c \in Conn /\ conn[c] \in {"broken", "closed", "none"}
        /\ \A u \in Tab \ {t} : tab'[u] = tab[u]
    BY <1>0, <1>9 DEF SeesClose, TabState
  <2>2. tab'[t].sock = NoConn
    BY <1>0, <1>9 DEF SeesClose, TabState
  <2>3. inbox'[c] = <<>> /\ \A k \in Conn \ {c} : inbox'[k] = inbox[k]
    BY <1>0, <1>9, <2>1 DEF SeesClose
  <2> HIDE DEF c
  <2>4. \A u \in Tab \ {t} : tab[u].sock # c
    BY <2>1 DEF c, Wires
  <2>5. \A k \in Conn \ {c} : (\E u \in Tab : tab[u].sock = k) => \E u \in Tab : tab'[u].sock = k
    BY <2>1 DEF c
  <2> QED
    <3>1. \A u \in Tab : \A w \in Tab : tab'[u].sock \in Conn /\ tab'[w].sock = tab'[u].sock => w = u
      <4>1. tab'[t].sock \notin Conn
        BY <1>0, <2>2
      <4>2. \A u \in Tab \ {t} : tab'[u].sock = tab[u].sock
        BY <2>1
      <4> QED
        BY <4>1, <4>2 DEF Wires
    <3>2. \A k \in Conn : conn'[k] \in {"request", "upgrading", "accepted", "open"} \/ inbox'[k] # <<>> =>
            \E u \in Tab : tab'[u].sock = k
      BY <2>1, <2>3, <2>5 DEF Wires
    <3> QED
      BY <2>1, <2>3, <3>1, <3>2 DEF Wires
<1>10. ASSUME NEW c \in Conn, Register(c) PROVE Wires'
  <2>1. /\ UNCHANGED <<lastReason, sends, inbox, tab>> /\ connections' = connections \cup {c}
        /\ conn'[c] = "open" /\ \A k \in Conn \ {c} : conn'[k] = conn[k]
        /\ conn[c] = "accepted"
    BY <1>0, <1>10 DEF Register, tabs
  <2> QED
    BY <2>1 DEF Wires
<1> QED
  BY <1>1, <1>2, <1>3, <1>4, <1>5, <1>6, <1>7, <1>8, <1>9, <1>10 DEF Next, Elsewhere, Ends

(* Each step leaves the end of what is on its way to a tab, or puts what    *)
(* the watcher tells, or the endpoint answers, in its place.                *)
LEMMA StepFollows ==
  ASSUME HubTypes, Wires, Follows, [Next]_vars
  PROVE  Follows'
<1>0. /\ conn \in [Conn -> {"none", "request", "upgrading", "accepted", "open", "broken", "closed"}]
      /\ tab \in [Tab -> TabState] /\ inbox \in [Conn -> Seq(SUBSET Subsystem)]
      /\ connections \subseteq Conn /\ NoConn \notin Conn
      /\ \A k \in connections : conn[k] \in {"open", "broken"}
      /\ reason \in SUBSET Subsystem /\ lastReason \in SUBSET Subsystem
  BY BudgetAssumption DEF HubTypes
<1> USE DEF Shows, Holds
<1> SUFFICES ASSUME NEW t \in Tab, NEW k \in Conn, tab'[t].sock = k,
                    conn'[k] \in {"accepted", "open"}
             PROVE  FollowsOn(t, k)'
  BY DEF Follows
<1>k. tab[t].sock = k /\ conn[k] \in {"accepted", "open"} => FollowsOn(t, k)
  BY DEF Follows
<1>1. CASE Elsewhere
  BY <1>k, <1>1, ElsewhereSteps DEF FollowsOn, LastFrame
<1>2. ASSUME NEW c \in Conn, Ends(c) PROVE FollowsOn(t, k)'
  <2>1. UNCHANGED <<lastReason, reason, sends, inbox, tab, untold>> /\ conn'[k] = conn[k]
    BY <1>2, EndSteps
  <2> QED
    BY <1>k, <2>1 DEF FollowsOn, LastFrame
<1>3. ASSUME NEW c \in Conn, NEW u \in Tab, Connect(u, c) PROVE FollowsOn(t, k)'
  <2>1. UNCHANGED <<lastReason, reason, sends, inbox, untold>> /\ c # k /\ conn'[k] = conn[k]
    BY <1>0, <1>3 DEF Connect, availVars
  <2>2. t # u
    BY <1>0, <1>3, <2>1 DEF Connect, TabState
  <2>3. tab'[t] = tab[t]
    BY <1>0, <1>3, <2>2 DEF Connect
  <2> QED
    BY <1>k, <2>1, <2>3 DEF FollowsOn, LastFrame
<1>4. ASSUME NEW c \in Conn, Accept(c) PROVE FollowsOn(t, k)'
  <2>1. UNCHANGED <<lastReason, reason, sends, inbox>>
    BY <1>4 DEF Accept, availVars
  <2>2. tab'[t] = IF tab[t].sock = c THEN [tab[t] EXCEPT !.fetch = "sent", !.answer = {}] ELSE tab[t]
    BY <1>4 DEF Accept
  <2>3. tab[t].sock = k
    BY <1>0, <2>2 DEF TabState
  <2>4. CASE c = k
    <3>1. tab'[t].fetch = "sent"
      BY <1>0, <2>2, <2>3, <2>4 DEF TabState
    <3>2. inbox[k] = <<>>
      <4>1. conn[k] = "upgrading"
        BY <1>4, <2>4 DEF Accept
      <4> QED
        BY <4>1 DEF Wires
    <3> QED
      BY <2>1, <3>1, <3>2 DEF FollowsOn
  <2>5. CASE c # k
    <3>1. tab'[t] = tab[t] /\ conn'[k] = conn[k] /\ (t \in untold => t \in untold')
      BY <1>0, <1>4, <2>2, <2>3, <2>5 DEF Accept
    <3> QED
      BY <1>k, <2>1, <3>1 DEF FollowsOn, LastFrame
  <2> QED
    BY <2>4, <2>5
<1>5. CASE watchArgoTransitions
  <2>1. /\ lastReason' = reason /\ sends' = {<<c, reason>> : c \in connections}
        /\ UNCHANGED <<reason, conn, inbox, tab>>
        /\ untold' = untold \cup {u \in Stale(reason) : tab[u].sock \notin connections}
    BY <1>5 DEF watchArgoTransitions, notifyWebSocketClients, availVars
  <2>2. CASE k \in connections
    BY <2>1, <2>2 DEF FollowsOn
  <2>3. CASE k \notin connections
    <3>1. conn[k] = "accepted" /\ inbox[k] = <<>>
      BY <2>1, <2>3 DEF Wires
    <3>2. tab[t].fetch # "sent" => Holds(t) = reason \/ t \in untold'
      BY <2>1, <2>3 DEF Stale
    <3> QED
      BY <2>1, <3>1, <3>2 DEF FollowsOn
  <2> QED
    BY <2>2, <2>3
<1>6. ASSUME NEW c \in Conn, NEW v \in SUBSET Subsystem, Write(c, v) PROVE FollowsOn(t, k)'
  <2>1. /\ UNCHANGED <<lastReason, reason, tab, untold>> /\ sends' = sends \ {<<c, v>>}
        /\ v = lastReason
    BY <1>6 DEF Write, Wires, availVars, tabs
  <2>2. conn'[k] = conn[k]
    BY <1>0, <1>6 DEF Write
  <2>3. CASE c = k
    <3>0. conn[k] = "open"
      BY <1>6, <2>2, <2>3 DEF Write, Wires
    <3>1. inbox'[k] = Append(inbox[k], v)
      BY <1>0, <1>6, <2>3, <3>0 DEF Write
    <3>2. inbox'[k] # <<>> /\ inbox'[k][Len(inbox'[k])] = v
      <4>1. inbox[k] \in Seq(SUBSET Subsystem) /\ v \in SUBSET Subsystem
        BY <1>0
      <4>2. Len(inbox'[k]) = Len(inbox[k]) + 1 /\ inbox'[k][Len(inbox[k]) + 1] = v
        BY <3>1, <4>1, AppendProperties
      <4>3. inbox'[k] \in Seq(SUBSET Subsystem) /\ Len(inbox[k]) \in Nat
        BY <3>1, <4>1, AppendProperties, LenProperties
      <4> QED
        BY <4>2, <4>3, EmptySeq
    <3> QED
      BY <2>1, <3>2 DEF FollowsOn, LastFrame
  <2>4. CASE c # k
    <3>1. inbox'[k] = inbox[k]
      BY <1>0, <1>6, <2>4 DEF Write
    <3>2. <<k, lastReason>> \in sends => <<k, lastReason>> \in sends'
      BY <2>1, <2>4
    <3> QED
      BY <1>k, <2>1, <2>2, <3>1, <3>2 DEF FollowsOn, LastFrame
  <2> QED
    BY <2>3, <2>4
<1>7. ASSUME NEW c \in Conn, NEW u \in Tab, Deliver(u, c) PROVE FollowsOn(t, k)'
  <2>1. /\ UNCHANGED <<lastReason, reason, sends, conn>> /\ tab[u].sock = c /\ inbox[c] # <<>>
        /\ inbox' = [inbox EXCEPT ![c] = Tail(inbox[c])] /\ untold' = untold \ {u}
    BY <1>7 DEF Deliver, availVars
  <2>2. tab[t].sock = k
    BY <1>0, <1>7 DEF Deliver, TabState
  <2>3. CASE u = t
    <3>1. c = k /\ inbox'[k] = Tail(inbox[k]) /\ inbox[k] \in Seq(SUBSET Subsystem)
      BY <1>0, <2>1, <2>2, <2>3
    <3>2. tab'[t].shown = Head(inbox[k]) /\ tab'[t].fetch = "none"
      BY <1>0, <1>7, <2>3, <3>1 DEF Deliver, TabState
    <3>3. <<k, lastReason>> \in sends \/ LastFrame(k) = lastReason
      BY <1>k, <2>1, <2>2, <3>1 DEF FollowsOn
    <3>4. IF Tail(inbox[k]) = <<>> THEN Head(inbox[k]) = LastFrame(k)
                                   ELSE Tail(inbox[k])[Len(Tail(inbox[k]))] = LastFrame(k)
      BY <2>1, <3>1, TailLast DEF LastFrame
    <3> QED
      BY <2>1, <3>1, <3>2, <3>3, <3>4 DEF FollowsOn, LastFrame
  <2>4. CASE u # t
    <3>1. c # k
      BY <2>1, <2>2, <2>4 DEF Wires
    <3>2. inbox'[k] = inbox[k] /\ tab'[t] = tab[t]
      BY <1>0, <1>7, <2>4, <3>1 DEF Deliver
    <3> QED
      BY <1>k, <2>1, <2>2, <3>2 DEF FollowsOn, LastFrame
  <2> QED
    BY <2>3, <2>4
<1>8. ASSUME NEW u \in Tab, reachability(u) \/ Fetched(u) PROVE FollowsOn(t, k)'
  <2>1. UNCHANGED <<lastReason, reason, sends, conn, inbox, untold>>
    BY <1>8 DEF reachability, Fetched, availVars
  <2>2. CASE u # t
    <3>1. tab'[t] = tab[t]
      BY <1>0, <1>8, <2>2 DEF reachability, Fetched
    <3> QED
      BY <1>k, <2>1, <3>1 DEF FollowsOn, LastFrame
  <2>3. CASE u = t /\ reachability(u)
    <3>1. tab'[t].sock = tab[t].sock /\ tab'[t].fetch = "answered" /\ tab'[t].answer = reason
          /\ tab[t].fetch = "sent"
      BY <1>0, <2>3 DEF reachability, TabState
    <3> QED
      BY <1>k, <2>1, <3>1 DEF FollowsOn, LastFrame
  <2>4. CASE u = t /\ Fetched(u)
    <3>1. tab'[t].sock = tab[t].sock /\ tab'[t].fetch = "none" /\ tab'[t].shown = tab[t].answer
          /\ tab[t].fetch = "answered"
      BY <1>0, <2>4 DEF Fetched, TabState
    <3> QED
      BY <1>k, <2>1, <3>1 DEF FollowsOn, LastFrame
  <2> QED
    BY <1>8, <2>2, <2>3, <2>4
<1>9. ASSUME NEW u \in Tab, SeesClose(u) PROVE FollowsOn(t, k)'
  <2>1. UNCHANGED <<lastReason, reason, sends, conn, untold>>
    BY <1>9 DEF SeesClose, availVars
  <2>2. u # t
    BY <1>0, <1>9 DEF SeesClose, TabState
  <2>3. tab'[t] = tab[t] /\ tab[u].sock # k
    BY <1>0, <1>9, <2>2 DEF SeesClose, Wires
  <2>4. inbox'[k] = inbox[k]
    BY <1>0, <1>9, <2>3 DEF SeesClose
  <2> QED
    BY <1>k, <2>1, <2>3, <2>4 DEF FollowsOn, LastFrame
<1>10. CASE Probe
  <2>1. UNCHANGED <<lastReason, sends, conn, inbox, tab>> /\ (t \in untold => t \in untold')
    BY <1>10 DEF Probe
  <2>2. reason' = lastReason /\ reason # lastReason /\ tab[t].fetch # "sent" =>
          Holds(t) = reason' \/ t \in untold'
    BY <1>10 DEF Probe, Stale
  <2> QED
    BY <1>k, <2>1, <2>2 DEF FollowsOn, LastFrame
<1>11. ASSUME NEW c \in Conn, Register(c) PROVE FollowsOn(t, k)'
  <2>1. /\ UNCHANGED <<lastReason, reason, sends, inbox, tab, untold>>
        /\ conn[k] \in {"accepted", "open"}
    BY <1>0, <1>11 DEF Register, availVars, tabs
  <2> QED
    BY <1>k, <2>1 DEF FollowsOn, LastFrame
<1> QED
  BY <1>1, <1>2, <1>3, <1>4, <1>5, <1>6, <1>7, <1>8, <1>9, <1>10, <1>11
  DEF Next, Elsewhere, Ends

LEMMA InitBannerInv == Init => BannerInv
<1> SUFFICES ASSUME Init PROVE Wires /\ Follows
  BY InitServerInv DEF BannerInv
<1>1. /\ \A k \in Conn : conn[k] = "none" /\ inbox[k] = <<>>
      /\ \A t \in Tab : tab[t].sock = NoConn
      /\ sends = {} /\ NoConn \notin Conn
  BY BudgetAssumption DEF Init
<1> QED
  BY <1>1 DEF Wires, Follows

LEMMA StepBannerInv == BannerInv /\ [Next]_vars => BannerInv'
BY StepServerInv, StepWires, StepFollows, HubTyped DEF BannerInv, ServerInv

-----------------------------------------------------------------------------
(* Theorems *)

(* Every variable keeps its type.                                           *)
THEOREM TypeCorrect == Spec => []TypeOK
<1>1. ServerInv => TypeOK
  BY DEF ServerInv
<1> QED
  BY <1>1, InitServerInv, StepServerInv, PTL DEF Spec

(* For any number of tabs and connections: when Env.Shutdown returns in     *)
(* time, no connection is registered, upgrading or being written to.        *)
THEOREM NothingLeft == Spec => []NoneLeft
<1>1. ServerInv => NoneLeft
  BY DEF ServerInv, TypeOK, Registered, NoneLeft, connWg, Watchers
<1> QED
  BY <1>1, InitServerInv, StepServerInv, PTL DEF Spec

(* For any budget larger than the shares of the earlier phases, the drain   *)
(* of the write-backs has time left.                                        *)
THEOREM WriteBacksHaveTime == Spec => []WriteBacksNotStarved
<1>1. ServerInv => WriteBacksNotStarved
  BY BudgetAssumption DEF ServerInv, TypeOK, Shares, WriteBacksNotStarved
<1> QED
  BY <1>1, InitServerInv, StepServerInv, PTL DEF Spec

(* No handler raises the wait group from zero while Env.Shutdown waits for  *)
(* it, unless the HTTP drain gave up on one.                                *)
THEOREM NothingAdded == Spec => NoAddAfterWait
<1> DEFINE Waits == phase = "websockets" /\ ~forced /\ connWg = {}
<1>1. ASSUME ServerInv, [Next]_vars, Waits
      PROVE  connWg' = {}
  <2>1. ~watching /\ \A k \in Conn : conn[k] = "none"
    BY <1>1 DEF ServerInv, TypeOK, NoRequest, connWg, Watchers
  <2>2. watching' = watching
    BY <1>1, <2>1
    DEF Next, Probe, Outage, hubVars, Authorize, Refused, Accept, Register, Break, HeartbeatFails,
        GoAway, Connect, Deliver, Write, watchArgoTransitions, WatcherStops, reachability,
        Fetched, SeesClose, beginDraining, CloseListener, HttpDrained, ShutdownDone,
        ShutdownExpires, releaseTaskLeases, Enters, vars
  <2>3. \A k \in Conn : conn'[k] = "none"
    BY <1>1, <2>1
    DEF ServerInv, TypeOK, Next, Probe, Outage, hubVars, Authorize, Refused, Accept, Register, Break,
        HeartbeatFails, GoAway, Connect, listening, Deliver, Write, watchArgoTransitions,
        WatcherStops, reachability, Fetched, SeesClose, beginDraining, CloseListener,
        HttpDrained, ShutdownDone, ShutdownExpires, releaseTaskLeases, Enters, vars
  <2> QED
    BY <2>1, <2>2, <2>3 DEF connWg, Watchers
<1>2. ServerInv /\ [Next]_vars => [Waits => connWg' = {}]_vars
  BY <1>1
<1> QED
  BY <1>2, InitServerInv, StepServerInv, PTL DEF Spec, NoAddAfterWait

(* For any number of tabs and connections, and whatever fails: a tab whose  *)
(* connection stands shows the reason cached by its replica once nothing is *)
(* on its way to it, unless it is one that nobody told of a change.         *)
THEOREM BannersAreCurrent == Spec => []BannerCurrent
<1>1. BannerInv => BannerCurrent
  <2> SUFFICES ASSUME Wires, Follows, lastReason \in SUBSET Subsystem PROVE BannerCurrent
    BY DEF BannerInv, ServerInv, TypeOK
  <2> QED
    BY DEF Follows, FollowsOn, Shows, Holds, BannerCurrent
<1> QED
  BY <1>1, InitBannerInv, StepBannerInv, PTL DEF Spec
=============================================================================
