----------------------------- MODULE Connection -----------------------------
(***************************************************************************)
(* The life of the connection between one GatewayClient of the TypeScript  *)
(* SDK (client.ts: connect, disconnect, subscribe, heartbeat, reconnect)   *)
(* and the gateway's sessions (server.rs, the inbound half of handle_ws:   *)
(* client messages, heartbeat check, cleanup, connected_clients).  What a  *)
(* session sends is the subject of Session.  autoReconnect and             *)
(* heartbeatTimeout are on, as they are by default.                        *)
(***************************************************************************)
EXTENDS Subscription, FiniteSets

CONSTANTS
  Sockets,      \* bound: sockets in use at the same time
  Channel,      \* options.channel
  Specs,        \* filter specs
  Requests,     \* what the application may subscribe to
  Items,        \* events and metrics to compare subscriptions by
  BaseFilter,   \* base_filter: restricted_filters.json, or none
  MaxAttempts,  \* options.maxReconnectAttempts (Infinity by default)
  MaxInFlight,  \* bound: subscribe messages under way on a socket
  MaxFaults     \* bound: faults of network, peer and gateway

ASSUME ConnectionAssumption ==
  /\ IsFiniteSet(Sockets) /\ Channel \in Channels
  /\ {MaxAttempts, MaxInFlight, MaxFaults} \subseteq Nat
  /\ Requests \subseteq [items : Seq(STRING), filters : Seq(Specs),
                          min_stage : {m \in SUBSET Stages : \A x, y \in m : x = y}]

VARIABLES
  ws,              \* the client's current socket (Option)
  shouldReconnect,
  timer,           \* reconnectTimer is armed
  forgotten,       \* reconnect timers armed and no longer in reconnectTimer
  attempts,        \* reconnectAttempts
  heartbeat,       \* heartbeatTimer is armed
  pending,         \* pendingSubscription (Option)
  sock,            \* the sockets as the client sees them
  link,            \* the network between the two ends of a socket
  toServer,        \* what is under way: requests, or None for a Close frame
  session,         \* the gateway's end of a socket
  connected,       \* connected_clients
  stopping,        \* the shutdown signal was sent
  faults,          \* faults so far
  overlap          \* history: the application called connect while a socket
                   \* was not closed or a reconnect was due

timerVars == <<shouldReconnect, timer, forgotten, attempts>>
clientVars == <<ws, timerVars, heartbeat, pending, sock, overlap>>
serverVars == <<session, connected, stopping>>
vars == <<clientVars, link, toServer, serverVars, faults>>

(* Where handle_ws is, and its subscription. *)
Session(at) == [at |-> at, sub |-> FromChannel(Channel)]
Running == {s \in Sockets : session[s].at \in {"greeting", "running", "flushing"}}

Init ==
  /\ ws = None /\ shouldReconnect = TRUE /\ timer = FALSE /\ forgotten = 0
  /\ attempts = 0 /\ heartbeat = FALSE /\ pending = None
  /\ sock = [s \in Sockets |-> "closed"]
  /\ link = [s \in Sockets |-> "up"]
  /\ toServer = [s \in Sockets |-> <<>>]
  /\ session = [s \in Sockets |-> Session("ended")]
  /\ connected = 0 /\ stopping = FALSE /\ faults = 0 /\ overlap = FALSE
----------------------------------------------------------------------------
(* The client.  A closing socket has sent a Close frame and still          *)
(* receives; a destroyed one does not; the close event of both is to come. *)
Alive == {s \in Sockets : sock[s] # "closed"}
Unused == {s \in Sockets : sock[s] = "closed" /\ session[s].at = "ended"}

(* What the client sends, here to a set of its sockets, is lost when the   *)
(* network is silent or the session has left its loop.                     *)
Send(m, targets) ==
  toServer' = [s \in Sockets |->
    IF s \in targets /\ link[s] # "down" /\ session[s].at \in {"greeting", "running"}
      THEN Append(toServer[s], m) ELSE toServer[s]]

(* connect(): a new socket; the old one, if any, is not looked at. *)
Dial ==
  /\ Unused # {}
  /\ LET s == CHOOSE u \in Unused : TRUE IN
     /\ ws' = Some(s)
     /\ sock' = [sock EXCEPT ![s] = "connecting"]
     /\ session' = [session EXCEPT ![s] = Session("none")]
  /\ shouldReconnect' = TRUE
  /\ UNCHANGED <<attempts, heartbeat, pending, link, toServer, connected, stopping,
                 faults>>

(* Bound: one call of connect that overlaps. *)
Connect ==
  /\ ~overlap /\ Cardinality(Alive) + forgotten < Cardinality(Sockets)
  /\ Dial
  /\ overlap' = (overlap \/ Alive # {} \/ timer \/ forgotten > 0)
  /\ UNCHANGED <<timer, forgotten>>

ReconnectDue ==
  /\ \/ timer /\ timer' = FALSE /\ UNCHANGED forgotten
     \/ forgotten > 0 /\ forgotten' = forgotten - 1 /\ UNCHANGED timer
  /\ Dial
  /\ UNCHANGED overlap

(* Faulty variant: the reconnect timer is left armed. *)
DisconnectKeepsTimer ==
  /\ shouldReconnect' = FALSE /\ heartbeat' = FALSE /\ ws' = None
  /\ sock' = [s \in Sockets |-> IF s \in ws /\ sock[s] # "closed"
                                  THEN "destroyed" ELSE sock[s]]
  /\ UNCHANGED <<timer, forgotten, attempts, pending, overlap, link, toServer,
                 serverVars, faults>>

(* disconnect(): close() sends a Close frame on an open socket and gives   *)
(* up one that is still connecting.                                        *)
Disconnect ==
  /\ shouldReconnect' = FALSE /\ heartbeat' = FALSE /\ timer' = FALSE
  /\ ws' = None
  /\ sock' = [s \in Sockets |->
                CASE s \in ws /\ sock[s] = "open" -> "closing"
                  [] s \in ws /\ sock[s] = "connecting" -> "destroyed"
                  [] OTHER -> sock[s]]
  /\ Send(None, {s \in ws : sock[s] = "open"})
  /\ UNCHANGED <<forgotten, attempts, pending, overlap, link, serverVars, faults>>

Subscribe(r) ==
  /\ \A s \in ws : Len(toServer[s]) < MaxInFlight
  /\ pending' = Some(r)
  /\ Send(Some(r), {s \in ws : sock[s] = "open"})
  /\ UNCHANGED <<ws, timerVars, heartbeat, sock, overlap, link, serverVars, faults>>

(* Faulty variant: the heartbeat is only armed by what is received. *)
OpenedUnwatched(s) ==
  /\ sock[s] = "connecting" /\ session[s].at # "none" /\ link[s] = "up"
  /\ sock' = [sock EXCEPT ![s] = "open"]
  /\ attempts' = 0
  /\ Send(pending, {t \in ws : sock'[t] = "open" /\ pending # None})
  /\ UNCHANGED <<ws, shouldReconnect, timer, forgotten, heartbeat, pending,
                 overlap, link, serverVars, faults>>

(* "open": the subscription is sent on the current socket, if it is open,  *)
(* which need not be the one that opened.                                  *)
Opened(s) ==
  /\ sock[s] = "connecting" /\ session[s].at # "none" /\ link[s] = "up"
  /\ sock' = [sock EXCEPT ![s] = "open"]
  /\ attempts' = 0 /\ heartbeat' = TRUE
  /\ Send(pending, {t \in ws : sock'[t] = "open" /\ pending # None})
  /\ UNCHANGED <<ws, shouldReconnect, timer, forgotten, pending, overlap, link,
                 serverVars, faults>>

(* "message" and "pong", also on a socket that is no longer the current. *)
Received(s) ==
  /\ sock[s] \in {"open", "closing"} /\ link[s] = "up"
  /\ session[s].at \in {"greeting", "running", "flushing"}
  /\ heartbeat' = TRUE
  /\ UNCHANGED <<ws, timerVars, pending, sock, overlap, link, toServer, serverVars, faults>>

(* Nothing received for heartbeatTimeout: the current socket, whichever it *)
(* is by now, is terminated.                                               *)
HeartbeatDue ==
  /\ heartbeat /\ heartbeat' = FALSE
  /\ sock' = [s \in Sockets |-> IF s \in ws /\ sock[s] # "closed"
                                  THEN "destroyed" ELSE sock[s]]
  /\ UNCHANGED <<ws, timerVars, pending, overlap, link, toServer, serverVars, faults>>

(* Faulty variant: maxReconnectAttempts is not looked at. *)
MayAlways == shouldReconnect

MayReconnect == shouldReconnect /\ attempts < MaxAttempts
MaybeReconnect ==
  IF MayReconnect
    THEN /\ timer' = TRUE /\ attempts' = attempts + 1
         /\ forgotten' = IF timer THEN forgotten + 1 ELSE forgotten
    ELSE UNCHANGED <<timer, forgotten, attempts>>

(* Faulty variant: a failed connect schedules a reconnect for its error    *)
(* event and another one for its close event.                              *)
ClosedTwice(s) ==
  /\ sock' = [sock EXCEPT ![s] = "closed"] /\ heartbeat' = FALSE
  /\ IF MayReconnect
       THEN /\ timer' = TRUE /\ attempts' = attempts + 1
            /\ forgotten' = forgotten + (IF timer \/ sock[s] = "connecting" THEN 1 ELSE 0)
       ELSE UNCHANGED <<timer, forgotten, attempts>>
  /\ UNCHANGED <<ws, shouldReconnect, pending, overlap>>

(* Faulty variant: no reconnect after a connect that failed, which is left *)
(* to an error event.                                                      *)
ClosedOnly(s) ==
  /\ sock' = [sock EXCEPT ![s] = "closed"] /\ heartbeat' = FALSE
  /\ IF sock[s] = "connecting" THEN UNCHANGED <<timer, forgotten, attempts>>
                               ELSE MaybeReconnect
  /\ UNCHANGED <<ws, shouldReconnect, pending, overlap>>

(* "close", after which a reconnect may be due. *)
Closed(s) ==
  /\ sock' = [sock EXCEPT ![s] = "closed"] /\ heartbeat' = FALSE
  /\ MaybeReconnect
  /\ UNCHANGED <<ws, shouldReconnect, pending, overlap>>

(* With the socket go a handshake that was not over and what is under way; *)
(* what its session is subscribed to reaches nobody any more.              *)
Forget(s) ==
  /\ session' = [session EXCEPT ![s] =
                   Session(IF @.at = "none" THEN "ended" ELSE @.at)]
  /\ link' = [link EXCEPT ![s] = "up"]
  /\ toServer' = [toServer EXCEPT ![s] = <<>>]
  /\ UNCHANGED <<connected, stopping>>

(* A closing socket is closed at the latest after the library's own        *)
(* timeout; an open one when the gateway has ended its session.            *)
CloseEvent(s) ==
  /\ \/ sock[s] \in {"closing", "destroyed"}
     \/ sock[s] = "open" /\ session[s].at = "ended" /\ link[s] = "up"
  /\ Closed(s) /\ Forget(s) /\ UNCHANGED faults

ConnectFails(s) ==
  /\ sock[s] = "connecting"
  /\ faults < MaxFaults \/ link[s] # "up" \/ stopping
  /\ faults' = IF link[s] = "up" /\ ~stopping THEN faults + 1 ELSE faults
  /\ Closed(s) /\ Forget(s)

Client ==
  \/ Connect \/ ReconnectDue \/ Disconnect \/ HeartbeatDue
  \/ \E r \in Requests : Subscribe(r)
  \/ \E s \in Sockets : Opened(s) \/ Received(s) \/ CloseEvent(s) \/ ConnectFails(s)
----------------------------------------------------------------------------
(* The gateway's end of a socket.  A session that has left its loop reads  *)
(* nothing more; one that has ended leaves nothing.                        *)
Become(s, at) == session' = [session EXCEPT ![s].at = at]
Deaf(s, at) ==
  /\ session' = [session EXCEPT ![s] = Session(at)]
  /\ toServer' = [toServer EXCEPT ![s] = <<>>]
End(s) == Deaf(s, "ended") /\ connected' = connected - 1
Gone(s) == link[s] = "down" \/ sock[s] \in {"destroyed", "closed"}

Accept(s) ==
  /\ session[s].at = "none" /\ sock[s] = "connecting" /\ link[s] = "up" /\ ~stopping
  /\ Become(s, "greeting") /\ connected' = connected + 1
  /\ UNCHANGED <<toServer, stopping>>

(* Hello, Resume and the replay are queued, unless send_task has ended. *)
Greeted(s) ==
  /\ session[s].at = "greeting"
  /\ Become(s, "running")
  /\ UNCHANGED <<toServer, connected, stopping>>

(* Faulty variant: an early return that forgets the counter. *)
GreetingFailsUncounted(s) ==
  /\ session[s].at = "greeting" /\ Gone(s)
  /\ Deaf(s, "ended")
  /\ UNCHANGED <<connected, stopping>>

GreetingFails(s) ==
  /\ session[s].at = "greeting" /\ Gone(s)
  /\ End(s) /\ UNCHANGED stopping

(* A request replaces the subscription, if it is not the same by           *)
(* PartialEq; a Close frame ends the loop.                                 *)
Receive(s) ==
  /\ session[s].at = "running" /\ toServer[s] # <<>>
  /\ IF Head(toServer[s]) = None
       THEN Deaf(s, "flushing")
       ELSE /\ toServer' = [toServer EXCEPT ![s] = Tail(@)]
            /\ session' = [session EXCEPT ![s].sub =
                 IF \E r \in Head(toServer[s]) : ~SameSubscription(Parse(r), @)
                   THEN Parse(CHOOSE r \in Head(toServer[s]) : TRUE) ELSE @]
  /\ UNCHANGED <<connected, stopping>>

(* Faulty variant: a session that was quiet for long stays. *)
TickStays(s) == session[s].at = "running" /\ UNCHANGED <<toServer, serverVars>>

(* heartbeat_interval.tick() finds the last activity of the client longer  *)
(* ago than heartbeat_timeout_secs, which what is under way is not.  The   *)
(* gateway sends no Ping and the SDK nothing but its requests: it happens  *)
(* to a client that listens as to one that is gone.                        *)
Tick(s) ==
  /\ session[s].at = "running" /\ toServer[s] = <<>>
  /\ Deaf(s, "flushing") /\ UNCHANGED <<connected, stopping>>

(* The other ways out of the loop: the stream ended, a message could not   *)
(* be queued (the sender is gone, or too many were dropped), shutdown.     *)
Leave(s) ==
  /\ session[s].at = "running"
  /\ Gone(s) \/ link[s] = "stalled" \/ stopping
  /\ Deaf(s, "flushing") /\ UNCHANGED <<connected, stopping>>

(* Cleanup waits until send_task has sent what is queued and closed the    *)
(* socket, or has failed to: with a peer that does not read it waits.      *)
Flushed(s) ==
  /\ session[s].at = "flushing" /\ (link[s] = "up" \/ Gone(s))
  /\ End(s) /\ UNCHANGED stopping

Gateway ==
  /\ \E s \in Sockets :
       \/ Accept(s) \/ Greeted(s) \/ GreetingFails(s)
       \/ Receive(s) \/ Tick(s) \/ Leave(s) \/ Flushed(s)
  /\ UNCHANGED <<clientVars, link, faults>>
----------------------------------------------------------------------------
(* Faults: a network that falls silent, a peer that does not read for a    *)
(* while, SIGTERM, and the end of the process, after which it runs again.  *)
Fault == faults < MaxFaults /\ faults' = faults + 1

LinkDown(s) ==
  /\ Fault /\ s \in Alive /\ link[s] # "down"
  /\ link' = [link EXCEPT ![s] = "down"]
  /\ toServer' = [toServer EXCEPT ![s] = <<>>]
  /\ UNCHANGED serverVars

Stall(s) ==
  /\ Fault /\ sock[s] = "open" /\ link[s] = "up"
  /\ link' = [link EXCEPT ![s] = "stalled"]
  /\ UNCHANGED <<toServer, serverVars>>

Unstall(s) ==
  /\ link[s] = "stalled" /\ link' = [link EXCEPT ![s] = "up"]
  /\ UNCHANGED <<toServer, serverVars, faults>>

Shutdown ==
  /\ Fault /\ ~stopping /\ stopping' = TRUE
  /\ UNCHANGED <<link, toServer, session, connected>>

Restart ==
  /\ IF stopping THEN UNCHANGED faults ELSE Fault
  /\ session' = [s \in Sockets |-> IF s \in Running THEN Session("ended") ELSE session[s]]
  /\ toServer' = [s \in Sockets |-> <<>>]
  /\ connected' = 0 /\ stopping' = FALSE
  /\ UNCHANGED link

Environment ==
  /\ Shutdown \/ Restart \/ \E s \in Sockets : LinkDown(s) \/ Stall(s) \/ Unstall(s)
  /\ UNCHANGED clientVars

Next == Client \/ Gateway \/ Environment

Spec == Init /\ [][Next]_vars

(* Timers fire, events and frames arrive, tasks run, a stopping process    *)
(* ends.  The application, the faults and the end of a stall are free.     *)
FairSpec ==
  /\ Spec
  /\ WF_vars(ReconnectDue) /\ WF_vars(HeartbeatDue)
  /\ WF_vars(stopping /\ Restart /\ UNCHANGED clientVars)
  /\ \A s \in Sockets :
       /\ WF_vars(Opened(s)) /\ WF_vars(CloseEvent(s))
       /\ WF_vars((link[s] # "up" \/ stopping) /\ ConnectFails(s))
       /\ WF_vars(/\ \/ Accept(s) \/ Greeted(s) \/ Receive(s) \/ Tick(s) \/ Flushed(s)
                  /\ UNCHANGED <<clientVars, link, faults>>)
----------------------------------------------------------------------------
TypeOK ==
  /\ ws \subseteq Sockets /\ \A s, t \in ws : s = t
  /\ {shouldReconnect, timer, heartbeat, stopping, overlap} \subseteq BOOLEAN
  /\ forgotten \in Nat /\ attempts \in 0..MaxAttempts /\ faults \in 0..MaxFaults
  /\ pending \subseteq Requests /\ \A q, r \in pending : q = r
  /\ sock \in [Sockets -> {"connecting", "open", "closing", "destroyed", "closed"}]
  /\ link \in [Sockets -> {"up", "stalled", "down"}]
  /\ toServer \in [Sockets -> Seq({None} \cup {Some(r) : r \in Requests})]
  /\ \A s \in Sockets :
       session[s].at \in {"none", "greeting", "running", "flushing", "ended"}
  /\ connected \in Nat

(* connected_clients, which /v1/status reports, is the number of sessions  *)
(* there are: whichever of its ways out each of them took.                 *)
ClientsCounted == connected = Cardinality(Running)

(* When nothing is under way or lost, the session behind the client's      *)
(* socket passes on what the application last asked for, or what the       *)
(* channel stands for if it never asked: through reconnects, restarts and  *)
(* requests that the session took for the same.                            *)
InForce == IF pending = None THEN {FromChannel(Channel)} ELSE {Parse(r) : r \in pending}
Settled(s) ==
  /\ sock[s] = "open" /\ session[s].at = "running"
  /\ toServer[s] = <<>> /\ link[s] # "down"
SubscriptionInForce ==
  \A s \in ws, sub \in InForce, item \in Items :
    Settled(s) =>
      (PassesOn(session[s].sub, BaseFilter, item) <=> PassesOn(sub, BaseFilter, item))

(* An application that calls connect only when nothing is left of the      *)
(* connection before it has one connection, or one reconnect is due, never *)
(* two of them.                                                            *)
Due == (IF timer THEN 1 ELSE 0) + forgotten
SingleConnection == ~overlap => Cardinality(Alive) + Due =< 1

(* ... and after disconnect() no connection is opened or left open.        *)
DisconnectStays ==
  ~overlap /\ ~shouldReconnect =>
    Due = 0 /\ \A s \in Sockets : sock[s] \in {"closing", "destroyed", "closed"}

(* A client whose connection has fallen silent notices.                    *)
DeadLink == \E s \in Sockets : sock[s] = "open" /\ link[s] = "down"
DeadLinkNoticed == DeadLink ~> ~DeadLink \/ overlap

(* A client that wants to be connected comes back, unless it has run out   *)
(* of attempts.                                                            *)
ComesBack ==
  shouldReconnect /\ Alive # {} ~>
    \/ \E s \in Sockets : sock[s] = "open"
    \/ ~shouldReconnect \/ overlap \/ attempts = MaxAttempts

(* The session of a peer that is gone, or that has left the loop, ends and *)
(* frees its place, unless the peer stays connected without reading.       *)
SessionEnds ==
  \A s \in Sockets :
    (Gone(s) \/ session[s].at = "flushing") /\ s \in Running
      ~> s \notin Running \/ link[s] = "stalled"
=============================================================================
