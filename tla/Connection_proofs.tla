--------------------------- MODULE Connection_proofs --------------------------
(***************************************************************************)
(* Proofs about Connection for any set of sockets, requests, bounds and    *)
(* faults: every client is counted once, the subscription in force is the  *)
(* one asked for, and an application that does not overlap its calls has   *)
(* one connection at most.                                                 *)
(***************************************************************************)
EXTENDS Connection, FiniteSetTheorems, SequenceTheorems, TLAPS

(* A session keeps its subscription when the new one is the same by        *)
(* PartialEq.  That is right: it would pass on the same items, whatever    *)
(* the order and the repetitions in the lists of filters.                  *)
LEMMA EmptyFilter ==
  ASSUME NEW S, NEW f \in Seq(S)
  PROVE  f = <<>> <=> ToSet(f) = {}
<1>1. ASSUME f # <<>> PROVE ToSet(f) # {}
  <2>1. 1 \in DOMAIN f
    BY <1>1
  <2>2. f[1] \in ToSet(f)
    BY <2>1 DEF ToSet
  <2> QED
    BY <2>2
<1>2. ASSUME f = <<>> PROVE ToSet(f) = {}
  BY <1>2 DEF ToSet
<1> QED
  BY <1>1, <1>2

(* Filters that are the same match the same events. *)
LEMMA SameFilterSameMatches ==
  ASSUME NEW S, NEW f \in Seq(S), NEW g \in Seq(S), SameFilter(f, g), NEW e
  PROVE  MatchesEvent(f, e) <=> MatchesEvent(g, e)
<1>1. ToSet(f) = ToSet(g)
  BY DEF SameFilter
<1>2. f = <<>> <=> g = <<>>
  BY <1>1, EmptyFilter
<1> QED
  BY <1>1, <1>2 DEF MatchesEvent, IncludesNativeTransfers

(* What parse_subscribe and from_channel make, for filter specs in S. *)
Subscriptions(S) ==
  {s \in [event_names : SUBSET EventNames, metrics : SUBSET Metrics,
          min_stage : SUBSET Stages, field_filter : SUBSET Seq(S)] :
     \A f, g \in s.field_filter : f = g}

(* PartialEq of ClientSubscription is sound: skipping the update of an     *)
(* equal subscription changes nothing a client could see.                  *)
THEOREM SameSubscriptionSameItems ==
  ASSUME NEW S, NEW a \in Subscriptions(S), NEW b \in Subscriptions(S),
         SameSubscription(a, b), NEW base, NEW item
  PROVE  PassesOn(a, base, item) <=> PassesOn(b, base, item)
<1>1. /\ a.event_names = b.event_names /\ a.metrics = b.metrics
      /\ a.min_stage = b.min_stage
  BY DEF SameSubscription
<1>2. ASSUME NEW e
      PROVE  (\A f \in a.field_filter : MatchesEvent(f, e))
               <=> (\A g \in b.field_filter : MatchesEvent(g, e))
  <2>1. \A f \in a.field_filter, g \in b.field_filter :
          f \in Seq(S) /\ g \in Seq(S) /\ SameFilter(f, g)
    BY DEF SameSubscription, Subscriptions
  <2>2. \A f \in a.field_filter, g \in b.field_filter :
          MatchesEvent(f, e) <=> MatchesEvent(g, e)
    BY <2>1, SameFilterSameMatches
  <2>3. a.field_filter = {} <=> b.field_filter = {}
    BY DEF SameSubscription, None
  <2> QED
    BY <2>2, <2>3
<1>3. \A e, stage : WantsEvent(a, base, e, stage) <=> WantsEvent(b, base, e, stage)
  BY <1>1, <1>2 DEF WantsEvent, ReachedStage
<1> QED
  BY <1>1, <1>3 DEF PassesOn
----------------------------------------------------------------------------

Subs == Subscriptions(Specs)
Places == {"none", "greeting", "running", "flushing", "ended"}
Frames == {None} \cup {Some(r) : r \in Requests}

(* What parse_subscribe and from_channel return are subscriptions. *)
LEMMA ParseSub == ASSUME NEW r \in Requests PROVE Parse(r) \in Subs
<1>1. r \in [items : Seq(STRING), filters : Seq(Specs),
             min_stage : {m \in SUBSET Stages : \A x, y \in m : x = y}]
  BY ConnectionAssumption
<1>2. Parse(r).field_filter \subseteq Seq(Specs)
  BY <1>1 DEF Parse, None, Some
<1>3. \A f, g \in Parse(r).field_filter : f = g
  BY DEF Parse, None, Some
<1>4. Parse(r) \in [event_names : SUBSET EventNames, metrics : SUBSET Metrics,
                    min_stage : SUBSET Stages, field_filter : SUBSET Seq(Specs)]
  BY <1>1, <1>2 DEF Parse
<1> QED
  BY <1>3, <1>4 DEF Subs, Subscriptions

LEMMA ChannelSub == FromChannel(Channel) \in Subs
<1>1. ASSUME NEW names \in SUBSET EventNames, NEW metrics \in SUBSET Metrics
      PROVE  Plain(names, metrics) \in Subs
  BY DEF Plain, Subs, Subscriptions, None
<1>2. /\ {"BlockStart", "BlockEnd", "BlockQC", "BlockFinalized",
          "BlockVerified", "BlockReject"} \subseteq EventNames
      /\ {"TxnHeaderStart", "TxnEvmOutput", "TxnLog", "TxnCallFrame",
          "TxnEnd", "TxnReject", "NativeTransfer"} \subseteq EventNames
      /\ {"TPS", "Lifecycle"} \subseteq Metrics
      /\ {"ContentionData"} \subseteq Metrics /\ {"Lifecycle"} \subseteq Metrics
  BY DEF EventNames, Metrics
<1>3. CASE Channel = "all"
  BY <1>1, <1>3 DEF FromChannel
<1>4. CASE Channel = "blocks"
  BY <1>1, <1>2, <1>4 DEF FromChannel
<1>5. CASE Channel = "txs"
  BY <1>1, <1>2, <1>5 DEF FromChannel
<1>6. CASE Channel = "contention"
  BY <1>1, <1>2, <1>6 DEF FromChannel
<1>7. CASE Channel = "lifecycle"
  BY <1>1, <1>2, <1>7 DEF FromChannel
<1> QED
  BY <1>3, <1>4, <1>5, <1>6, <1>7, ConnectionAssumption DEF Channels
----------------------------------------------------------------------------
(* The types, with the sessions' subscriptions and without the count of    *)
(* sessions, which is a matter of ClientsCounted.                          *)
ClientTypeOK ==
  /\ ws \subseteq Sockets /\ \A s, t \in ws : s = t
  /\ shouldReconnect \in BOOLEAN /\ timer \in BOOLEAN /\ heartbeat \in BOOLEAN
  /\ overlap \in BOOLEAN
  /\ forgotten \in Nat /\ attempts \in 0..MaxAttempts
  /\ pending \subseteq Requests /\ \A q, r \in pending : q = r
  /\ sock \in [Sockets -> {"connecting", "open", "closing", "destroyed", "closed"}]
NetTypeOK ==
  /\ link \in [Sockets -> {"up", "stalled", "down"}]
  /\ toServer \in [Sockets -> Seq(Frames)]
  /\ session \in [Sockets -> [at : Places, sub : Subs]]
  /\ stopping \in BOOLEAN /\ faults \in 0..MaxFaults
ShapeOK == ClientTypeOK /\ NetTypeOK

(* What SingleConnection and DisconnectStays rest on: without overlapping  *)
(* calls a due reconnect is the only trace of the connection before, and   *)
(* the current socket the only one that connects or is open.               *)
OneAtATime ==
  ~overlap =>
    /\ forgotten = 0
    /\ \A s, t \in Alive : s = t
    /\ timer => Alive = {}
    /\ \A s \in Sockets : sock[s] \in {"connecting", "open"} => s \in ws
    /\ ~shouldReconnect =>
         ~timer /\ \A s \in Sockets : sock[s] \notin {"connecting", "open"}

(* What SubscriptionInForce rests on: the session behind the current       *)
(* socket passes on what was asked for, or the last request says so.       *)
Carries(s) == link[s] # "down" /\ session[s].at \in {"greeting", "running"}
Alike(sub) ==
  \A wanted \in InForce, item \in Items :
    PassesOn(sub, BaseFilter, item) <=> PassesOn(wanted, BaseFilter, item)
Agreed(s) ==
  IF toServer[s] = <<>> THEN Alike(session[s].sub)
                        ELSE pending # None /\ Last(toServer[s]) = pending
Fresh(s) == toServer[s] = <<>> /\ session[s].sub = FromChannel(Channel)
Following ==
  \A s \in Sockets :
    /\ sock[s] = "connecting" => Fresh(s)
    /\ sock[s] = "closed" => toServer[s] = <<>>
    /\ sock[s] = "open" => session[s].at # "none"
    /\ s \in ws /\ sock[s] = "open" /\ Carries(s) => Agreed(s)

CInv == ShapeOK /\ ClientsCounted /\ OneAtATime /\ Following
----------------------------------------------------------------------------
LEMMA FreshSession ==
  ASSUME NEW at \in Places PROVE Session(at) \in [at : Places, sub : Subs]
BY ChannelSub DEF Session

(* What Send, Deaf and Become do to the sockets they name and to others.   *)
LEMMA SendEffect ==
  ASSUME NetTypeOK, NEW m \in Frames, NEW targets, Send(m, targets)
  PROVE  /\ toServer' \in [Sockets -> Seq(Frames)]
         /\ \A s \in Sockets :
              toServer'[s] = IF s \in targets /\ Carries(s)
                               THEN Append(toServer[s], m) ELSE toServer[s]
<1>1. \A s \in Sockets : toServer[s] \in Seq(Frames)
  BY DEF NetTypeOK
<1>2. \A s \in Sockets : Append(toServer[s], m) \in Seq(Frames)
  BY <1>1
<1>3. \A s \in Sockets :
        toServer'[s] = IF s \in targets /\ Carries(s)
                         THEN Append(toServer[s], m) ELSE toServer[s]
  BY DEF Send, Carries
<1>4. toServer' = [s \in Sockets |-> toServer'[s]]
  BY DEF Send
<1>5. \A s \in Sockets : toServer'[s] \in Seq(Frames)
  BY <1>1, <1>2, <1>3
<1> QED
  BY <1>3, <1>4, <1>5

LEMMA DeafEffect ==
  ASSUME NetTypeOK, NEW s \in Sockets, NEW at \in Places, Deaf(s, at)
  PROVE  /\ toServer' \in [Sockets -> Seq(Frames)]
         /\ session' \in [Sockets -> [at : Places, sub : Subs]]
         /\ toServer'[s] = <<>> /\ session'[s] = Session(at)
         /\ \A u \in Sockets \ {s} :
              toServer'[u] = toServer[u] /\ session'[u] = session[u]
BY FreshSession DEF Deaf, NetTypeOK

LEMMA BecomeEffect ==
  ASSUME NetTypeOK, NEW s \in Sockets, NEW at \in Places, Become(s, at)
  PROVE  /\ session' \in [Sockets -> [at : Places, sub : Subs]]
         /\ session'[s].at = at /\ session'[s].sub = session[s].sub
         /\ \A u \in Sockets \ {s} : session'[u] = session[u]
BY DEF Become, NetTypeOK

LEMMA ForgetEffect ==
  ASSUME NetTypeOK, NEW s \in Sockets, Forget(s)
  PROVE  /\ link' \in [Sockets -> {"up", "stalled", "down"}]
         /\ toServer' \in [Sockets -> Seq(Frames)]
         /\ session' \in [Sockets -> [at : Places, sub : Subs]]
         /\ toServer'[s] = <<>>
         /\ session'[s].at = IF session[s].at = "none" THEN "ended" ELSE session[s].at
         /\ \A u \in Sockets \ {s} :
              /\ toServer'[u] = toServer[u] /\ session'[u] = session[u]
              /\ link'[u] = link[u]
<1> DEFINE at == IF session[s].at = "none" THEN "ended" ELSE session[s].at
<1>1. at \in Places
  BY DEF NetTypeOK, Places
<1>2. Session(at) \in [at : Places, sub : Subs] /\ Session(at).at = at
  BY <1>1, FreshSession DEF Session
<1>3. session' = [session EXCEPT ![s] = Session(at)]
  BY DEF Forget
<1> HIDE DEF at
<1>4. /\ session' \in [Sockets -> [at : Places, sub : Subs]] /\ session'[s].at = at
      /\ \A u \in Sockets \ {s} : session'[u] = session[u]
  BY <1>2, <1>3 DEF NetTypeOK
<1>5. /\ link' \in [Sockets -> {"up", "stalled", "down"}]
      /\ toServer' \in [Sockets -> Seq(Frames)]
      /\ toServer'[s] = <<>>
      /\ \A u \in Sockets \ {s} : toServer'[u] = toServer[u] /\ link'[u] = link[u]
  BY DEF Forget, NetTypeOK
<1> QED
  BY <1>4, <1>5 DEF at

(* The dialled socket is one that nothing is left of.                      *)
LEMMA DialEffect ==
  ASSUME NetTypeOK, Dial
  PROVE  \E s \in Unused :
           /\ s \in Sockets /\ ws' = {s}
           /\ sock' = [sock EXCEPT ![s] = "connecting"]
           /\ session' = [session EXCEPT ![s] = Session("none")]
           /\ session' \in [Sockets -> [at : Places, sub : Subs]]
<1> DEFINE s == CHOOSE u \in Unused : TRUE
<1>1. s \in Unused
  BY DEF Dial
<1>2. s \in Sockets
  BY <1>1 DEF Unused
<1>3. /\ ws' = {s} /\ sock' = [sock EXCEPT ![s] = "connecting"]
      /\ session' = [session EXCEPT ![s] = Session("none")]
  BY DEF Dial, Some
<1>4. Session("none") \in [at : Places, sub : Subs]
  BY FreshSession DEF Places
<1>5. session' \in [Sockets -> [at : Places, sub : Subs]]
  BY <1>3, <1>4 DEF NetTypeOK
<1> QED
  BY <1>1, <1>2, <1>3, <1>5
----------------------------------------------------------------------------
LEMMA ShapeInit == Init => ShapeOK
<1> SUFFICES ASSUME Init PROVE ShapeOK
  OBVIOUS
<1>1. ClientTypeOK
  <2>1. 0 \in 0..MaxAttempts
    BY ConnectionAssumption
  <2>2. sock \in [Sockets -> {"connecting", "open", "closing", "destroyed", "closed"}]
    BY DEF Init
  <2> QED
    BY <2>1, <2>2 DEF Init, ClientTypeOK, None
<1>2. Session("ended") \in [at : Places, sub : Subs]
  BY FreshSession DEF Places
<1>3. NetTypeOK
  <2>1. 0 \in 0..MaxFaults /\ <<>> \in Seq(Frames)
    BY ConnectionAssumption
  <2>2. /\ link \in [Sockets -> {"up", "stalled", "down"}]
        /\ toServer \in [Sockets -> Seq(Frames)]
    BY <2>1 DEF Init
  <2> QED
    BY <1>2, <2>1, <2>2 DEF Init, NetTypeOK
<1> QED
  BY <1>1, <1>3 DEF ShapeOK

LEMMA ClosedShape ==
  ASSUME ShapeOK, NEW s \in Sockets, Closed(s), Forget(s), faults' \in 0..MaxFaults
  PROVE  ShapeOK'
<1>1. NetTypeOK'
  BY ForgetEffect DEF ShapeOK, NetTypeOK, Forget
<1>2. timer' \in BOOLEAN /\ forgotten' \in Nat /\ attempts' \in 0..MaxAttempts
  <2>1. timer \in BOOLEAN /\ forgotten \in Nat /\ attempts \in 0..MaxAttempts
    BY DEF ShapeOK, ClientTypeOK
  <2>2. MaxAttempts \in Nat
    BY ConnectionAssumption
  <2>3. CASE MayReconnect
    <3>1. /\ timer' = TRUE /\ attempts' = attempts + 1
          /\ forgotten' = forgotten \/ forgotten' = forgotten + 1
      BY <2>3 DEF Closed, MaybeReconnect
    <3>2. attempts < MaxAttempts
      BY <2>3 DEF MayReconnect
    <3> QED
      BY <2>1, <2>2, <3>1, <3>2
  <2>4. CASE ~MayReconnect
    BY <2>1, <2>4 DEF Closed, MaybeReconnect
  <2> QED
    BY <2>3, <2>4
<1>3. ClientTypeOK'
  BY <1>2 DEF ShapeOK, ClientTypeOK, Closed
<1> QED
  BY <1>1, <1>3 DEF ShapeOK

LEMMA DialShape ==
  ASSUME ShapeOK, Dial, timer' \in BOOLEAN, forgotten' \in Nat, overlap' \in BOOLEAN
  PROVE  ShapeOK'
<1>1. PICK s \in Unused :
        /\ s \in Sockets /\ ws' = {s}
        /\ sock' = [sock EXCEPT ![s] = "connecting"]
        /\ session' \in [Sockets -> [at : Places, sub : Subs]]
  BY DialEffect DEF ShapeOK
<1>2. ClientTypeOK'
  BY <1>1 DEF ShapeOK, ClientTypeOK, Dial
<1>3. NetTypeOK'
  BY <1>1 DEF ShapeOK, NetTypeOK, Dial
<1> QED
  BY <1>2, <1>3 DEF ShapeOK

LEMMA ClientShape == ShapeOK /\ Client => ShapeOK'
<1> SUFFICES ASSUME ShapeOK, Client PROVE ShapeOK'
  OBVIOUS
<1> USE DEF ShapeOK
<1>1. CASE Connect
  <2>1. overlap' \in BOOLEAN /\ timer' \in BOOLEAN /\ forgotten' \in Nat
    BY <1>1 DEF Connect, ClientTypeOK
  <2> QED
    BY <1>1, <2>1, DialShape DEF Connect
<1>2. CASE ReconnectDue
  <2>1. overlap' \in BOOLEAN /\ timer' \in BOOLEAN /\ forgotten' \in Nat
    <3>1. timer \in BOOLEAN /\ overlap \in BOOLEAN /\ forgotten \in Nat
      BY DEF ClientTypeOK
    <3>2. CASE timer' = FALSE /\ UNCHANGED forgotten
      BY <1>2, <3>1, <3>2 DEF ReconnectDue
    <3>3. CASE forgotten > 0 /\ forgotten' = forgotten - 1 /\ UNCHANGED timer
      <4>1. forgotten' \in Nat
        BY <3>1, <3>3
      <4> QED
        BY <1>2, <3>1, <3>3, <4>1 DEF ReconnectDue
    <3> QED
      BY <1>2, <3>2, <3>3 DEF ReconnectDue
  <2> QED
    BY <1>2, <2>1, DialShape DEF ReconnectDue
<1>3. CASE Disconnect
  <2>1. None \in Frames
    BY DEF Frames
  <2>2. toServer' \in [Sockets -> Seq(Frames)]
    BY <1>3, <2>1, SendEffect DEF Disconnect
  <2>3. NetTypeOK'
    BY <1>3, <2>2 DEF Disconnect, NetTypeOK, serverVars
  <2>4. sock' \in [Sockets -> {"connecting", "open", "closing", "destroyed", "closed"}]
    BY <1>3 DEF Disconnect, ClientTypeOK
  <2> QED
    BY <1>3, <2>3, <2>4 DEF Disconnect, ClientTypeOK, None
<1>4. CASE HeartbeatDue
  <2>1. NetTypeOK'
    BY <1>4 DEF HeartbeatDue, NetTypeOK, serverVars
  <2>2. sock' \in [Sockets -> {"connecting", "open", "closing", "destroyed", "closed"}]
    BY <1>4 DEF HeartbeatDue, ClientTypeOK
  <2> QED
    BY <1>4, <2>1, <2>2 DEF HeartbeatDue, ClientTypeOK, timerVars
<1>5. ASSUME NEW r \in Requests, Subscribe(r) PROVE ShapeOK'
  <2>1. Some(r) \in Frames
    BY DEF Frames
  <2>2. toServer' \in [Sockets -> Seq(Frames)]
    BY <1>5, <2>1, SendEffect DEF Subscribe
  <2>3. NetTypeOK'
    BY <1>5, <2>2 DEF Subscribe, NetTypeOK, serverVars
  <2> QED
    BY <1>5, <2>3 DEF Subscribe, ClientTypeOK, timerVars, Some
<1>6. ASSUME NEW s \in Sockets, Opened(s) PROVE ShapeOK'
  <2>1. pending \in Frames
    <3>1. CASE pending = None
      BY <3>1 DEF Frames
    <3>2. CASE pending # None
      <4>1. PICK r : r \in pending
        BY <3>2 DEF None
      <4>2. pending = Some(r) /\ r \in Requests
        BY <4>1 DEF ClientTypeOK, Some
      <4> QED
        BY <4>2 DEF Frames
    <3> QED
      BY <3>1, <3>2
  <2>2. toServer' \in [Sockets -> Seq(Frames)]
    BY <1>6, <2>1, SendEffect DEF Opened
  <2>3. NetTypeOK'
    BY <1>6, <2>2 DEF Opened, NetTypeOK, serverVars
  <2> QED
    BY <1>6, <2>3, ConnectionAssumption DEF Opened, ClientTypeOK
<1>7. ASSUME NEW s \in Sockets, Received(s) PROVE ShapeOK'
  BY <1>7 DEF Received, ClientTypeOK, NetTypeOK, timerVars, serverVars
<1>8. ASSUME NEW s \in Sockets, CloseEvent(s) PROVE ShapeOK'
  BY <1>8, ClosedShape DEF CloseEvent, NetTypeOK
<1>9. ASSUME NEW s \in Sockets, ConnectFails(s) PROVE ShapeOK'
  <2>1. link[s] \in {"up", "stalled", "down"} /\ faults \in 0..MaxFaults
    BY DEF NetTypeOK
  <2>2. faults' \in 0..MaxFaults
    BY <1>9, <2>1, ConnectionAssumption DEF ConnectFails
  <2> QED
    BY <1>9, <2>2, ClosedShape DEF ConnectFails
<1> QED
  BY <1>1, <1>2, <1>3, <1>4, <1>5, <1>6, <1>7, <1>8, <1>9 DEF Client

(* A request received is in force as it was parsed, or the one before it   *)
(* is, which counts as the same.                                           *)
LEMMA ReceiveEffect ==
  ASSUME NetTypeOK, NEW s \in Sockets, Receive(s), Head(toServer[s]) # None
  PROVE  /\ toServer' = [toServer EXCEPT ![s] = Tail(@)]
         /\ toServer' \in [Sockets -> Seq(Frames)]
         /\ session' \in [Sockets -> [at : Places, sub : Subs]]
         /\ session'[s].at = session[s].at
         /\ \A u \in Sockets \ {s} : session'[u] = session[u]
         /\ \A r \in Head(toServer[s]) :
              \/ session'[s].sub = Parse(r)
              \/ session'[s].sub = session[s].sub /\ SameSubscription(Parse(r), session[s].sub)
<1>1. toServer[s] \in Seq(Frames) /\ toServer[s] # <<>>
  BY DEF NetTypeOK, Receive
<1>2. Head(toServer[s]) \in Frames /\ Tail(toServer[s]) \in Seq(Frames)
  BY <1>1
<1>3. PICK q \in Requests : Head(toServer[s]) = {q}
  BY <1>2 DEF Frames, Some
<1>4. (CHOOSE r \in Head(toServer[s]) : TRUE) = q
  BY <1>3
<1> DEFINE same == SameSubscription(Parse(q), session[s].sub)
           new == IF same THEN session[s].sub ELSE Parse(q)
<1>5. session' = [session EXCEPT ![s].sub = new]
  BY <1>3, <1>4 DEF Receive
<1>6. session[s] \in [at : Places, sub : Subs] /\ Parse(q) \in Subs
  BY ParseSub DEF NetTypeOK
<1>7. new \in Subs
  BY <1>6
<1>8. new = Parse(q) \/ (new = session[s].sub /\ same)
  OBVIOUS
<1> HIDE DEF new, same
<1>9. /\ session' \in [Sockets -> [at : Places, sub : Subs]]
      /\ session'[s].at = session[s].at /\ session'[s].sub = new
      /\ \A u \in Sockets \ {s} : session'[u] = session[u]
  BY <1>5, <1>7 DEF NetTypeOK
<1>10. toServer' = [toServer EXCEPT ![s] = Tail(@)]
  BY DEF Receive
<1>11. toServer' \in [Sockets -> Seq(Frames)]
  BY <1>2, <1>10 DEF NetTypeOK
<1> QED
  BY <1>3, <1>8, <1>9, <1>10, <1>11 DEF same

LEMMA GatewayShape == ShapeOK /\ Gateway => ShapeOK'
<1> SUFFICES ASSUME ShapeOK, Gateway PROVE ShapeOK'
  OBVIOUS
<1>1. ClientTypeOK'
  BY DEF ShapeOK, ClientTypeOK, Gateway, clientVars, timerVars
<1> SUFFICES ASSUME NEW s \in Sockets,
                    \/ Accept(s) \/ Greeted(s) \/ GreetingFails(s)
                    \/ Receive(s) \/ Tick(s) \/ Leave(s) \/ Flushed(s)
             PROVE  /\ toServer' \in [Sockets -> Seq(Frames)]
                    /\ session' \in [Sockets -> [at : Places, sub : Subs]]
                    /\ stopping' \in BOOLEAN
  BY <1>1 DEF ShapeOK, NetTypeOK, Gateway
<1>2. NetTypeOK /\ {"greeting", "running", "flushing", "ended"} \subseteq Places
  BY DEF ShapeOK, Places
<1>3. stopping' \in BOOLEAN
  BY <1>2 DEF NetTypeOK, Accept, Greeted, GreetingFails, Receive, Tick, Leave, Flushed
<1>4. CASE Accept(s) \/ Greeted(s)
  <2>1. toServer' = toServer /\ (Become(s, "greeting") \/ Become(s, "running"))
    BY <1>4 DEF Accept, Greeted
  <2> QED
    BY <1>2, <1>3, <2>1, BecomeEffect DEF NetTypeOK
<1>5. CASE Receive(s) /\ Head(toServer[s]) # None
  BY <1>2, <1>3, <1>5, ReceiveEffect
<1>6. CASE \/ GreetingFails(s) \/ Tick(s) \/ Leave(s) \/ Flushed(s)
           \/ Receive(s) /\ Head(toServer[s]) = None
  <2>1. Deaf(s, "flushing") \/ Deaf(s, "ended")
    BY <1>6 DEF GreetingFails, Tick, Leave, Flushed, Receive, End
  <2> QED
    BY <1>2, <1>3, <2>1, DeafEffect
<1> QED
  BY <1>4, <1>5, <1>6

LEMMA EnvironmentShape == ShapeOK /\ Environment => ShapeOK'
<1> SUFFICES ASSUME ShapeOK, Environment PROVE ShapeOK'
  OBVIOUS
<1>1. ClientTypeOK'
  BY DEF ShapeOK, ClientTypeOK, Environment, clientVars, timerVars
<1>2. faults + 1 \in 0..MaxFaults \/ ~(faults < MaxFaults)
  BY ConnectionAssumption DEF ShapeOK, NetTypeOK
<1>3. CASE Shutdown
  BY <1>1, <1>2, <1>3 DEF Shutdown, Fault, ShapeOK, NetTypeOK
<1>4. CASE Restart
  <2>1. Session("ended") \in [at : Places, sub : Subs]
    BY FreshSession DEF Places
  <2>2. session' \in [Sockets -> [at : Places, sub : Subs]]
    BY <1>4, <2>1 DEF Restart, ShapeOK, NetTypeOK
  <2>3. toServer' \in [Sockets -> Seq(Frames)]
    BY <1>4 DEF Restart
  <2> QED
    BY <1>1, <1>2, <1>4, <2>2, <2>3 DEF Restart, Fault, ShapeOK, NetTypeOK
<1>5. ASSUME NEW s \in Sockets, LinkDown(s) \/ Stall(s) \/ Unstall(s) PROVE ShapeOK'
  <2>1. link' \in [Sockets -> {"up", "stalled", "down"}]
    BY <1>5 DEF LinkDown, Stall, Unstall, ShapeOK, NetTypeOK
  <2>2. toServer' \in [Sockets -> Seq(Frames)]
    <3>1. <<>> \in Seq(Frames) /\ toServer \in [Sockets -> Seq(Frames)]
      BY DEF ShapeOK, NetTypeOK
    <3>2. toServer' = [toServer EXCEPT ![s] = <<>>] \/ toServer' = toServer
      BY <1>5 DEF LinkDown, Stall, Unstall
    <3> QED
      BY <3>1, <3>2
  <2>3. faults' \in 0..MaxFaults
    BY <1>2, <1>5 DEF LinkDown, Stall, Unstall, Fault, ShapeOK, NetTypeOK
  <2> QED
    BY <1>1, <1>5, <2>1, <2>2, <2>3
       DEF LinkDown, Stall, Unstall, serverVars, ShapeOK, NetTypeOK
<1> QED
  BY <1>3, <1>4, <1>5 DEF Environment

LEMMA ShapeStep == ShapeOK /\ [Next]_vars => ShapeOK'
<1>1. ShapeOK /\ UNCHANGED vars => ShapeOK'
  BY DEF ShapeOK, ClientTypeOK, NetTypeOK, vars, clientVars, timerVars, serverVars
<1> QED
  BY <1>1, ClientShape, GatewayShape, EnvironmentShape DEF Next
----------------------------------------------------------------------------
(* The sessions there are, by the places they are at.                      *)
LEMMA SamePlaces ==
  ASSUME \A u \in Sockets : session'[u].at \in {"greeting", "running", "flushing"}
                              <=> session[u].at \in {"greeting", "running", "flushing"},
         UNCHANGED connected, ClientsCounted
  PROVE  ClientsCounted'
<1>1. Running' = Running
  BY DEF Running
<1> QED
  BY <1>1 DEF ClientsCounted

LEMMA RunningFinite == IsFiniteSet(Running) /\ Cardinality(Running) \in Nat
<1>1. IsFiniteSet(Running)
  BY ConnectionAssumption, FS_Subset DEF Running
<1> QED
  BY <1>1, FS_CardinalityType

LEMMA EndedOnce ==
  ASSUME NetTypeOK, ClientsCounted, NEW s \in Running, End(s)
  PROVE  ClientsCounted'
<1>1. s \in Sockets /\ "ended" \in Places
  BY DEF Running, Places
<1>2. session'[s].at = "ended" /\ \A u \in Sockets \ {s} : session'[u] = session[u]
  <2>1. Deaf(s, "ended")
    BY DEF End
  <2>2. session'[s] = Session("ended") /\ \A u \in Sockets \ {s} : session'[u] = session[u]
    BY <1>1, <2>1, DeafEffect
  <2> QED
    BY <2>2 DEF Session
<1>3. Running' = Running \ {s}
  BY <1>1, <1>2 DEF Running
<1>4. Cardinality(Running') = Cardinality(Running) - 1
  BY <1>3, RunningFinite, FS_RemoveElement
<1> QED
  BY <1>4 DEF ClientsCounted, End

LEMMA CountedStep == ShapeOK /\ ClientsCounted /\ [Next]_vars => ClientsCounted'
<1> SUFFICES ASSUME ShapeOK, ClientsCounted, [Next]_vars PROVE ClientsCounted'
  OBVIOUS
<1>1. NetTypeOK
  BY DEF ShapeOK
<1>2. CASE UNCHANGED vars
  BY <1>2, SamePlaces DEF vars, serverVars
<1>3. CASE Connect \/ ReconnectDue
  <2>1. Dial
    BY <1>3 DEF Connect, ReconnectDue
  <2>2. PICK s \in Unused :
          s \in Sockets /\ session' = [session EXCEPT ![s] = Session("none")]
    BY <1>1, <2>1, DialEffect
  <2>3. session'[s].at = "none" /\ \A u \in Sockets \ {s} : session'[u] = session[u]
    BY <1>1, <2>2 DEF Session, NetTypeOK
  <2>4. session[s].at = "ended"
    BY <2>2 DEF Unused
  <2> QED
    BY <2>1, <2>2, <2>3, <2>4, SamePlaces DEF Dial
<1>4. CASE \/ Disconnect \/ HeartbeatDue \/ \E r \in Requests : Subscribe(r)
           \/ \E s \in Sockets : Opened(s) \/ Received(s)
  <2>1. UNCHANGED <<session, connected>>
    BY <1>4 DEF Disconnect, HeartbeatDue, Subscribe, Opened, Received, serverVars
  <2> QED
    BY <2>1, SamePlaces
<1>5. ASSUME NEW s \in Sockets, CloseEvent(s) \/ ConnectFails(s) PROVE ClientsCounted'
  <2>1. Forget(s)
    BY <1>5 DEF CloseEvent, ConnectFails
  <2> QED
    BY <1>1, <2>1, ForgetEffect, SamePlaces DEF Forget
<1>6. ASSUME NEW s \in Sockets, Accept(s) PROVE ClientsCounted'
  <2>1. session'[s].at = "greeting" /\ \A u \in Sockets \ {s} : session'[u] = session[u]
    BY <1>1, <1>6, BecomeEffect DEF Accept, Places
  <2>2. s \notin Running /\ Running' = Running \cup {s}
    BY <1>6, <2>1 DEF Running, Accept
  <2>3. Cardinality(Running') = Cardinality(Running) + 1
    BY <2>2, RunningFinite, FS_AddElement
  <2> QED
    BY <1>6, <2>3 DEF ClientsCounted, Accept
<1>7. ASSUME NEW s \in Sockets, Greeted(s) PROVE ClientsCounted'
  <2>1. session'[s].at = "running" /\ \A u \in Sockets \ {s} : session'[u] = session[u]
    BY <1>1, <1>7, BecomeEffect DEF Greeted, Places
  <2> QED
    BY <1>7, <2>1, SamePlaces DEF Greeted
<1>8. ASSUME NEW s \in Sockets, GreetingFails(s) \/ Flushed(s) PROVE ClientsCounted'
  <2>1. s \in Running /\ End(s)
    BY <1>8 DEF GreetingFails, Flushed, Running
  <2> QED
    BY <1>1, <2>1, EndedOnce
<1>9. ASSUME NEW s \in Sockets,
             Tick(s) \/ Leave(s) \/ (Receive(s) /\ Head(toServer[s]) = None)
      PROVE  ClientsCounted'
  <2>1. session[s].at = "running" /\ Deaf(s, "flushing") /\ UNCHANGED connected
    BY <1>9 DEF Tick, Leave, Receive
  <2>2. session'[s].at = "flushing" /\ \A u \in Sockets \ {s} : session'[u] = session[u]
    BY <1>1, <2>1, DeafEffect DEF Places, Session
  <2> QED
    BY <2>1, <2>2, SamePlaces
<1>10. ASSUME NEW s \in Sockets, Receive(s), Head(toServer[s]) # None PROVE ClientsCounted'
  BY <1>1, <1>10, ReceiveEffect, SamePlaces DEF Receive
<1>11. CASE \/ Shutdown /\ UNCHANGED clientVars
            \/ \E s \in Sockets : LinkDown(s) \/ Stall(s) \/ Unstall(s)
  <2>1. UNCHANGED <<session, connected>>
    BY <1>11 DEF Shutdown, LinkDown, Stall, Unstall, serverVars
  <2> QED
    BY <2>1, SamePlaces
<1>12. CASE Restart
  <2>1. Running' = {}
    BY <1>12 DEF Restart, Running, Session
  <2> QED
    BY <1>12, <2>1, FS_EmptySet DEF Restart, ClientsCounted
<1> QED
  BY <1>2, <1>3, <1>4, <1>5, <1>6, <1>7, <1>8, <1>9, <1>10, <1>11, <1>12
     DEF Next, Client, Gateway, Environment
----------------------------------------------------------------------------
(* The connection closed is the only one, and no reconnect is due.         *)
LEMMA ClosedAlone ==
  ASSUME ShapeOK, OneAtATime, NEW s \in Alive, Closed(s)
  PROVE  OneAtATime'
<1> SUFFICES ASSUME ~overlap PROVE OneAtATime'
  BY DEF OneAtATime, Closed
<1>1. /\ forgotten = 0 /\ ~timer /\ \A t \in Alive : t = s
      /\ sock \in [Sockets -> {"connecting", "open", "closing", "destroyed", "closed"}]
  BY DEF OneAtATime, ShapeOK, ClientTypeOK
<1>2. sock' = [sock EXCEPT ![s] = "closed"]
  BY DEF Closed
<1>3. \A t \in Sockets : sock'[t] = "closed"
  BY <1>1, <1>2 DEF Alive
<1>4. Alive' = {}
  BY <1>3 DEF Alive
<1>5. forgotten' = 0 /\ (timer' => shouldReconnect) /\ shouldReconnect' = shouldReconnect
  BY <1>1 DEF Closed, MaybeReconnect, MayReconnect
<1> QED
  BY <1>3, <1>4, <1>5 DEF OneAtATime

LEMMA DialledAlone ==
  ASSUME ShapeOK, Dial, ~overlap => Alive = {} /\ ~timer' /\ forgotten' = 0,
         overlap' = overlap
  PROVE  OneAtATime'
<1>1. PICK s \in Sockets : ws' = {s} /\ sock' = [sock EXCEPT ![s] = "connecting"]
  BY DialEffect DEF ShapeOK
<1>2. Alive = {} => Alive' = {s}
  BY <1>1 DEF Alive, ShapeOK, ClientTypeOK
<1>3. Alive = {} => \A t \in Sockets : sock'[t] \in {"connecting", "open"} => t \in ws'
  BY <1>1, <1>2 DEF Alive
<1>4. shouldReconnect' = TRUE
  BY DEF Dial
<1> QED
  BY <1>2, <1>3, <1>4 DEF OneAtATime

LEMMA OneStep == ShapeOK /\ OneAtATime /\ [Next]_vars => OneAtATime'
<1> SUFFICES ASSUME ShapeOK, OneAtATime, [Next]_vars PROVE OneAtATime'
  OBVIOUS
<1>1. /\ sock \in [Sockets -> {"connecting", "open", "closing", "destroyed", "closed"}]
      /\ timer \in BOOLEAN /\ overlap \in BOOLEAN /\ forgotten \in Nat
  BY DEF ShapeOK, ClientTypeOK
<1>2. CASE UNCHANGED clientVars
  BY <1>2 DEF clientVars, timerVars, OneAtATime, Alive
<1>3. CASE Connect
  <2>1. CASE overlap'
    BY <2>1 DEF OneAtATime
  <2>2. CASE ~overlap'
    <3>1. ~overlap /\ Alive = {} /\ ~timer /\ ~(forgotten > 0)
      BY <1>3, <2>2 DEF Connect
    <3>2. ~timer' /\ forgotten' = 0 /\ Dial
      BY <1>1, <1>3, <3>1 DEF Connect
    <3>3. overlap' = overlap
      BY <1>1, <1>3, <3>1 DEF Connect
    <3> QED
      BY <3>1, <3>2, <3>3, DialledAlone
  <2> QED
    BY <2>1, <2>2
<1>4. CASE ReconnectDue
  <2>1. ~overlap => forgotten = 0
    BY DEF OneAtATime
  <2>2. ~overlap => timer /\ ~timer' /\ forgotten' = 0
    BY <1>1, <1>4, <2>1 DEF ReconnectDue
  <2>3. ~overlap => Alive = {}
    BY <2>2 DEF OneAtATime
  <2> QED
    BY <1>4, <2>2, <2>3, DialledAlone DEF ReconnectDue
<1>5. CASE Disconnect
  <2> SUFFICES ASSUME ~overlap PROVE OneAtATime'
    BY <1>5 DEF Disconnect, OneAtATime
  <2>1. \A s \in Sockets : sock[s] \in {"connecting", "open"} => s \in ws
    BY DEF OneAtATime
  <2>2. \A s \in Sockets : sock'[s] \notin {"connecting", "open"}
    BY <1>1, <1>5, <2>1 DEF Disconnect
  <2>3. Alive' \subseteq Alive
    BY <1>1, <1>5 DEF Disconnect, Alive
  <2>4. ~timer' /\ forgotten' = forgotten
    BY <1>5 DEF Disconnect
  <2> QED
    BY <2>2, <2>3, <2>4 DEF OneAtATime
<1>6. CASE HeartbeatDue
  <2>1. \A s \in Sockets : \/ sock'[s] = sock[s]
                           \/ sock'[s] = "destroyed" /\ sock[s] # "closed"
    BY <1>1, <1>6 DEF HeartbeatDue
  <2>2. Alive' \subseteq Alive
    BY <2>1 DEF Alive
  <2>3. UNCHANGED <<ws, timerVars, overlap>>
    BY <1>6 DEF HeartbeatDue
  <2> QED
    BY <2>1, <2>2, <2>3 DEF OneAtATime, timerVars
<1>7. ASSUME NEW s \in Sockets, Opened(s) PROVE OneAtATime'
  <2>1. /\ \A t \in Sockets : sock'[t] # sock[t] => sock[t] = "connecting"
        /\ \A t \in Sockets : sock[t] = "closed" => sock'[t] = "closed"
    BY <1>1, <1>7 DEF Opened
  <2>2. Alive' \subseteq Alive
    BY <2>1 DEF Alive
  <2>3. UNCHANGED <<ws, shouldReconnect, timer, forgotten, overlap>>
    BY <1>7 DEF Opened
  <2>4. ~overlap => shouldReconnect
    BY <1>7 DEF Opened, OneAtATime
  <2> QED
    BY <2>1, <2>2, <2>3, <2>4 DEF OneAtATime
<1>8. CASE (\E r \in Requests : Subscribe(r)) \/ \E s \in Sockets : Received(s)
  <2>1. UNCHANGED <<ws, timerVars, sock, overlap>>
    BY <1>8 DEF Subscribe, Received
  <2> QED
    BY <2>1 DEF OneAtATime, timerVars, Alive
<1>9. ASSUME NEW s \in Sockets, CloseEvent(s) \/ ConnectFails(s) PROVE OneAtATime'
  <2>1. s \in Alive /\ Closed(s)
    BY <1>9 DEF CloseEvent, ConnectFails, Alive
  <2> QED
    BY <2>1, ClosedAlone
<1> QED
  BY <1>2, <1>3, <1>4, <1>5, <1>6, <1>7, <1>8, <1>9
     DEF Next, Client, Gateway, Environment, vars
----------------------------------------------------------------------------
(* A step that leaves a socket alone, and what is asked for, keeps what    *)
(* Following says of it.                                                   *)
FollowingOf(s) ==
  /\ sock[s] = "connecting" => Fresh(s)
  /\ sock[s] = "closed" => toServer[s] = <<>>
  /\ sock[s] = "open" => session[s].at # "none"
  /\ s \in ws /\ sock[s] = "open" /\ Carries(s) => Agreed(s)

LEMMA FollowingParts == Following <=> \A s \in Sockets : FollowingOf(s)
BY DEF Following, FollowingOf

LEMMA LeftAlone ==
  ASSUME NEW s \in Sockets, FollowingOf(s), ws' = ws, pending' = pending,
         sock'[s] = sock[s], link'[s] = link[s], toServer'[s] = toServer[s],
         session'[s] = session[s]
  PROVE  FollowingOf(s)'
BY DEF FollowingOf, Fresh, Carries, Agreed, Alike, InForce

LEMMA ClosedFollows ==
  ASSUME ShapeOK, Following, NEW s \in Sockets, Closed(s), Forget(s)
  PROVE  Following'
<1>1. /\ sock'[s] = "closed" /\ toServer'[s] = <<>>
      /\ ws' = ws /\ pending' = pending
      /\ \A u \in Sockets \ {s} :
           /\ sock'[u] = sock[u] /\ link'[u] = link[u]
           /\ toServer'[u] = toServer[u] /\ session'[u] = session[u]
  BY ForgetEffect DEF Closed, ShapeOK, ClientTypeOK
<1>2. FollowingOf(s)'
  BY <1>1 DEF FollowingOf
<1>3. ASSUME NEW u \in Sockets \ {s} PROVE FollowingOf(u)'
  BY <1>1, FollowingParts, LeftAlone
<1> QED
  BY <1>2, <1>3, FollowingParts DEF Following, FollowingOf

LEMMA DialFollows ==
  ASSUME ShapeOK, Following, Dial PROVE Following'
<1>1. PICK s \in Unused :
        /\ s \in Sockets /\ ws' = {s}
        /\ sock' = [sock EXCEPT ![s] = "connecting"]
        /\ session' = [session EXCEPT ![s] = Session("none")]
  BY DialEffect DEF ShapeOK
<1>2. link' = link /\ toServer' = toServer
  BY DEF Dial
<1>3. /\ sock'[s] = "connecting" /\ session'[s] = Session("none")
      /\ \A u \in Sockets \ {s} : sock'[u] = sock[u] /\ session'[u] = session[u]
  BY <1>1 DEF ShapeOK, ClientTypeOK, NetTypeOK
<1>4. FollowingOf(s)'
  <2>1. toServer[s] = <<>>
    BY <1>1 DEF Following, Unused
  <2> QED
    BY <1>2, <1>3, <2>1 DEF FollowingOf, Fresh, Session
<1>5. ASSUME NEW u \in Sockets \ {s} PROVE FollowingOf(u)'
  <2>1. FollowingOf(u)
    BY FollowingParts
  <2> QED
    BY <1>1, <1>2, <1>3, <2>1 DEF FollowingOf, Fresh
<1> QED
  BY <1>4, <1>5 DEF Following, FollowingOf

(* What is sent last is what the last message under way says.              *)
LEMMA AppendedLast ==
  ASSUME NEW s \in Seq(Frames), NEW m \in Frames
  PROVE  Append(s, m) # <<>> /\ Last(Append(s, m)) = m
BY DEF Last

LEMMA SubscribeFollows ==
  ASSUME ShapeOK, Following, NEW r \in Requests, Subscribe(r) PROVE Following'
<1>1. Some(r) \in Frames /\ Some(r) # None /\ pending' = Some(r)
  BY DEF Frames, Some, None, Subscribe
<1>2. UNCHANGED <<ws, sock, link, session>>
  BY DEF Subscribe, serverVars
<1>3. \A s \in Sockets : toServer[s] \in Seq(Frames)
  BY DEF ShapeOK, NetTypeOK
<1>4. \A s \in Sockets :
        toServer'[s] = IF s \in ws /\ sock[s] = "open" /\ Carries(s)
                         THEN Append(toServer[s], Some(r)) ELSE toServer[s]
  BY <1>1, SendEffect DEF Subscribe, ShapeOK
<1> SUFFICES ASSUME NEW s \in Sockets PROVE FollowingOf(s)'
  BY DEF Following, FollowingOf
<1>5. FollowingOf(s)
  BY FollowingParts
<1>6. CASE s \in ws /\ sock[s] = "open" /\ Carries(s)
  <2>1. toServer'[s] # <<>> /\ Last(toServer'[s]) = Some(r)
    BY <1>1, <1>3, <1>4, <1>6, AppendedLast
  <2>2. Agreed(s)'
    BY <1>1, <2>1 DEF Agreed
  <2> QED
    BY <1>2, <1>5, <1>6, <2>2 DEF FollowingOf
<1>7. CASE ~(s \in ws /\ sock[s] = "open" /\ Carries(s))
  <2>1. toServer'[s] = toServer[s]
    BY <1>4, <1>7
  <2> QED
    BY <1>2, <1>5, <1>7, <2>1 DEF FollowingOf, Fresh, Carries
<1> QED
  BY <1>6, <1>7

LEMMA PendingFrame == ASSUME ShapeOK PROVE pending \in Frames
<1>1. CASE pending = None
  BY <1>1 DEF Frames
<1>2. CASE pending # None
  <2>1. PICK r : r \in pending
    BY <1>2 DEF None
  <2>2. pending = Some(r) /\ r \in Requests
    BY <2>1 DEF ShapeOK, ClientTypeOK, Some
  <2> QED
    BY <2>2 DEF Frames
<1> QED
  BY <1>1, <1>2

LEMMA OpenedFollows ==
  ASSUME ShapeOK, Following, NEW o \in Sockets, Opened(o) PROVE Following'
<1>1. /\ sock[o] = "connecting" /\ session[o].at # "none" /\ sock'[o] = "open"
      /\ \A s \in Sockets \ {o} : sock'[s] = sock[s]
      /\ UNCHANGED <<ws, pending, link, session>>
  BY DEF Opened, serverVars, ShapeOK, ClientTypeOK
<1>2. \A s \in Sockets : toServer[s] \in Seq(Frames)
  BY DEF ShapeOK, NetTypeOK
<1>3. \A s \in Sockets :
        toServer'[s] = IF s \in ws /\ sock'[s] = "open" /\ pending # None /\ Carries(s)
                         THEN Append(toServer[s], pending) ELSE toServer[s]
  BY PendingFrame, SendEffect DEF Opened, ShapeOK
<1> SUFFICES ASSUME NEW s \in Sockets PROVE FollowingOf(s)'
  BY DEF Following, FollowingOf
<1>4. FollowingOf(s)
  BY FollowingParts
<1>5. CASE s \in ws /\ sock'[s] = "open" /\ pending # None /\ Carries(s)
  <2>1. toServer'[s] # <<>> /\ Last(toServer'[s]) = pending
    BY <1>2, <1>3, <1>5, AppendedLast, PendingFrame
  <2>2. Agreed(s)'
    BY <1>1, <1>5, <2>1 DEF Agreed
  <2>3. session'[s].at # "none"
    BY <1>1, <1>5 DEF Carries
  <2> QED
    BY <1>5, <2>2, <2>3 DEF FollowingOf
<1>6. CASE ~(s \in ws /\ sock'[s] = "open" /\ pending # None /\ Carries(s))
  <2>1. toServer'[s] = toServer[s]
    BY <1>3, <1>6
  <2>2. CASE s # o
    BY <1>1, <1>4, <2>1, <2>2, LeftAlone
  <2>3. CASE s = o /\ pending = None
    <3>1. toServer[s] = <<>> /\ session[s].sub = FromChannel(Channel)
      BY <1>1, <1>4, <2>3 DEF FollowingOf, Fresh
    <3>2. InForce' = {FromChannel(Channel)}
      BY <1>1, <2>3 DEF InForce
    <3>3. Agreed(s)'
      BY <1>1, <2>1, <3>1, <3>2 DEF Agreed, Alike
    <3> QED
      BY <1>1, <2>3, <3>3 DEF FollowingOf
  <2>4. CASE s = o /\ pending # None
    <3>1. ~(s \in ws /\ Carries(s)')
      BY <1>1, <1>6, <2>4 DEF Carries
    <3> QED
      BY <1>1, <2>4, <3>1 DEF FollowingOf
  <2> QED
    BY <2>2, <2>3, <2>4
<1> QED
  BY <1>5, <1>6

(* The last message under way brings the subscription asked for into force. *)
LEMMA LastRequest ==
  ASSUME ShapeOK, NEW r \in Requests, pending = Some(r), NEW sub \in Subs,
         SameSubscription(Parse(r), sub) \/ sub = Parse(r)
  PROVE  Alike(sub)
<1>1. InForce = {Parse(r)}
  BY DEF InForce, Some, None
<1>2. \A item \in Items : PassesOn(sub, BaseFilter, item) <=> PassesOn(Parse(r), BaseFilter, item)
  BY ParseSub, SameSubscriptionSameItems DEF Subs
<1> QED
  BY <1>1, <1>2 DEF Alike

LEMMA ReceiveFollows ==
  ASSUME ShapeOK, Following, NEW s \in Sockets, Receive(s), Head(toServer[s]) # None,
         UNCHANGED <<clientVars, link>>
  PROVE  Following'
<1>1. /\ UNCHANGED <<ws, sock, pending, link>>
      /\ toServer[s] \in Seq(Frames) /\ toServer[s] # <<>> /\ session[s].at = "running"
      /\ session[s].sub \in Subs
  BY DEF clientVars, Receive, ShapeOK, NetTypeOK
<1>2. /\ toServer' = [toServer EXCEPT ![s] = Tail(@)]
      /\ session' \in [Sockets -> [at : Places, sub : Subs]]
      /\ session'[s].at = session[s].at
      /\ \A u \in Sockets \ {s} : session'[u] = session[u]
      /\ \A r \in Head(toServer[s]) :
           \/ session'[s].sub = Parse(r)
           \/ session'[s].sub = session[s].sub /\ SameSubscription(Parse(r), session[s].sub)
  BY ReceiveEffect DEF ShapeOK
<1>3. /\ toServer'[s] = Tail(toServer[s])
      /\ \A u \in Sockets \ {s} : toServer'[u] = toServer[u]
  BY <1>2 DEF ShapeOK, NetTypeOK
<1>4. ASSUME NEW u \in Sockets \ {s} PROVE FollowingOf(u)'
  BY <1>1, <1>2, <1>3, FollowingParts, LeftAlone
<1>5. FollowingOf(s)
  BY FollowingParts
<1>6. sock[s] \notin {"connecting", "closed"}
  BY <1>1, <1>5 DEF FollowingOf, Fresh
<1>7. ASSUME s \in ws, sock[s] = "open", Carries(s) PROVE Agreed(s)'
  <2>1. pending # None /\ Last(toServer[s]) = pending
    BY <1>1, <1>5, <1>7 DEF FollowingOf, Agreed
  <2>2. PICK r \in Requests : pending = Some(r)
    <3>1. PICK q : q \in pending
      BY <2>1 DEF None
    <3> QED
      BY <3>1 DEF ShapeOK, ClientTypeOK, Some
  <2>3. CASE Tail(toServer[s]) # <<>>
    <3>1. Last(Tail(toServer[s])) = Last(toServer[s])
      BY <1>1, <2>3 DEF Last
    <3> QED
      BY <1>1, <1>3, <2>1, <2>3, <3>1 DEF Agreed
  <2>4. CASE Tail(toServer[s]) = <<>>
    <3>1. Head(toServer[s]) = Last(toServer[s])
      BY <1>1, <2>4 DEF Last
    <3>2. r \in Head(toServer[s])
      BY <2>1, <2>2, <3>1 DEF Some
    <3>3. session'[s].sub \in Subs
      BY <1>2
    <3>4. Alike(session'[s].sub)
      BY <1>2, <2>2, <3>2, <3>3, LastRequest
    <3>5. InForce' = InForce
      BY <1>1 DEF InForce
    <3> QED
      BY <1>3, <2>4, <3>4, <3>5 DEF Agreed, Alike
  <2> QED
    BY <2>3, <2>4
<1>8. FollowingOf(s)'
  BY <1>1, <1>2, <1>6, <1>7 DEF FollowingOf, Carries
<1> QED
  BY <1>4, <1>8 DEF Following, FollowingOf

LEMMA DeafFollows ==
  ASSUME ShapeOK, Following, NEW s \in Sockets, NEW at \in {"flushing", "ended"},
         Deaf(s, at), UNCHANGED <<clientVars, link>>
  PROVE  Following'
<1>1. UNCHANGED <<ws, sock, pending, link>>
  BY DEF clientVars
<1>2. at \in Places
  BY DEF Places
<1>3. /\ toServer'[s] = <<>> /\ session'[s] = Session(at)
      /\ \A u \in Sockets \ {s} : toServer'[u] = toServer[u] /\ session'[u] = session[u]
  BY <1>2, DeafEffect DEF ShapeOK
<1>4. ASSUME NEW u \in Sockets \ {s} PROVE FollowingOf(u)'
  BY <1>1, <1>3, FollowingParts, LeftAlone
<1>5. FollowingOf(s)'
  BY <1>3 DEF FollowingOf, Fresh, Carries, Session
<1> QED
  BY <1>4, <1>5 DEF Following, FollowingOf

LEMMA BecomeFollows ==
  ASSUME ShapeOK, Following, NEW s \in Sockets,
         \/ Become(s, "greeting") /\ sock[s] # "open"
         \/ Become(s, "running") /\ session[s].at = "greeting",
         UNCHANGED <<clientVars, link, toServer>>
  PROVE  Following'
<1>1. UNCHANGED <<ws, sock, pending, link, toServer>>
  BY DEF clientVars
<1>2. /\ session'[s].sub = session[s].sub
      /\ session'[s].at \in {"greeting", "running"}
      /\ sock[s] # "open" \/ session[s].at = "greeting"
      /\ \A u \in Sockets \ {s} : session'[u] = session[u]
  BY BecomeEffect DEF ShapeOK, Places
<1>3. ASSUME NEW u \in Sockets \ {s} PROVE FollowingOf(u)'
  BY <1>1, <1>2, FollowingParts, LeftAlone
<1>4. FollowingOf(s)
  BY FollowingParts
<1>5. FollowingOf(s)'
  <2>1. s \in ws /\ sock[s] = "open" /\ Carries(s)' => Agreed(s)
    BY <1>1, <1>2, <1>4 DEF FollowingOf, Carries
  <2>2. Agreed(s) => Agreed(s)'
    BY <1>1, <1>2 DEF Agreed, Alike, InForce
  <2> QED
    BY <1>1, <1>2, <1>4, <2>1, <2>2 DEF FollowingOf, Fresh
<1> QED
  BY <1>3, <1>5 DEF Following, FollowingOf

LEMMA FollowingStep == ShapeOK /\ Following /\ [Next]_vars => Following'
<1> SUFFICES ASSUME ShapeOK, Following, [Next]_vars PROVE Following'
  OBVIOUS
<1>1. CASE UNCHANGED <<ws, pending, sock, link, toServer, session>>
  BY <1>1, FollowingParts, LeftAlone DEF Following, FollowingOf
<1>2. CASE Connect \/ ReconnectDue
  BY <1>2, DialFollows DEF Connect, ReconnectDue
<1>3. CASE Disconnect
  <2>1. /\ ws' = {} /\ UNCHANGED <<link, session>>
        /\ \A s \in Sockets :
             /\ sock'[s] = "connecting" => sock[s] = "connecting"
             /\ sock'[s] = "closed" => sock[s] = "closed"
             /\ sock'[s] = "open" => sock[s] = "open"
    BY <1>3 DEF Disconnect, None, serverVars
  <2>2. None \in Frames
    BY DEF Frames
  <2>3. \A s \in Sockets : sock[s] # "open" => toServer'[s] = toServer[s]
    BY <1>3, <2>2, SendEffect DEF Disconnect, ShapeOK
  <2> QED
    BY <2>1, <2>3 DEF Following, Fresh
<1>4. CASE HeartbeatDue
  <2>1. UNCHANGED <<ws, link, session, toServer>>
    BY <1>4 DEF HeartbeatDue, serverVars
  <2>2. \A s \in Sockets : \/ sock'[s] = sock[s] /\ s \notin ws
                           \/ sock'[s] = "destroyed"
                           \/ sock'[s] = sock[s] /\ sock[s] = "closed"
    BY <1>4 DEF HeartbeatDue
  <2> QED
    BY <2>1, <2>2 DEF Following, Fresh
<1>5. ASSUME NEW r \in Requests, Subscribe(r) PROVE Following'
  BY <1>5, SubscribeFollows
<1>6. ASSUME NEW s \in Sockets, Opened(s) PROVE Following'
  BY <1>6, OpenedFollows
<1>7. ASSUME NEW s \in Sockets, Received(s) PROVE Following'
  BY <1>1, <1>7 DEF Received, serverVars
<1>8. ASSUME NEW s \in Sockets, CloseEvent(s) \/ ConnectFails(s) PROVE Following'
  BY <1>8, ClosedFollows DEF CloseEvent, ConnectFails
<1>9. ASSUME NEW s \in Sockets, UNCHANGED <<clientVars, link>>,
             Accept(s) \/ Greeted(s) PROVE Following'
  <2>1. UNCHANGED toServer
    BY <1>9 DEF Accept, Greeted
  <2> QED
    BY <1>9, <2>1, BecomeFollows DEF Accept, Greeted
<1>10. ASSUME NEW s \in Sockets, UNCHANGED <<clientVars, link>>,
              Receive(s), Head(toServer[s]) # None PROVE Following'
  BY <1>10, ReceiveFollows
<1>11. ASSUME NEW s \in Sockets, UNCHANGED <<clientVars, link>>,
              \/ GreetingFails(s) \/ Tick(s) \/ Leave(s) \/ Flushed(s)
              \/ Receive(s) /\ Head(toServer[s]) = None
       PROVE  Following'
  <2>1. Deaf(s, "flushing") \/ Deaf(s, "ended")
    BY <1>11 DEF GreetingFails, Tick, Leave, Flushed, Receive, End
  <2> QED
    BY <1>11, <2>1, DeafFollows
<1>12. ASSUME NEW s \in Sockets, UNCHANGED clientVars,
              LinkDown(s) \/ Stall(s) \/ Unstall(s) PROVE Following'
  <2>1. UNCHANGED <<ws, sock, pending, session>>
    BY <1>12 DEF clientVars, LinkDown, Stall, Unstall, serverVars
  <2>2. \A u \in Sockets \ {s} : link'[u] = link[u] /\ toServer'[u] = toServer[u]
    BY <1>12 DEF LinkDown, Stall, Unstall, ShapeOK, NetTypeOK
  <2>3. \/ link'[s] = "down" /\ toServer'[s] = <<>>
        \/ link[s] # "down" /\ toServer'[s] = toServer[s]
    BY <1>12 DEF LinkDown, Stall, Unstall, ShapeOK, NetTypeOK
  <2>4. ASSUME NEW u \in Sockets \ {s} PROVE FollowingOf(u)'
    BY <2>1, <2>2, FollowingParts, LeftAlone
  <2>5. FollowingOf(s)
    BY FollowingParts
  <2>6. FollowingOf(s)'
    BY <2>1, <2>3, <2>5 DEF FollowingOf, Fresh, Carries, Agreed, Alike, InForce
  <2> QED
    BY <2>4, <2>6 DEF Following, FollowingOf
<1>13. CASE Shutdown /\ UNCHANGED clientVars
  BY <1>1, <1>13 DEF Shutdown, clientVars
<1>14. CASE Restart /\ UNCHANGED clientVars
  <2>1. UNCHANGED <<ws, sock, pending, link>>
    BY <1>14 DEF Restart, clientVars
  <2>2. \A s \in Sockets :
          /\ toServer'[s] = <<>>
          /\ session'[s] = session[s] \/ session'[s] = Session("ended")
          /\ session'[s].at \notin {"greeting", "running"}
    BY <1>14 DEF Restart, Running, Session
  <2> QED
    BY <2>1, <2>2 DEF Following, Fresh, Carries, Session
<1> QED
  BY <1>1, <1>2, <1>3, <1>4, <1>5, <1>6, <1>7, <1>8, <1>9, <1>10, <1>11, <1>12,
     <1>13, <1>14
     DEF Next, Client, Gateway, Environment, vars, clientVars, serverVars
----------------------------------------------------------------------------
LEMMA CInvAlways == Spec => []CInv
<1>1. Init => CInv
  <2> SUFFICES ASSUME Init PROVE CInv
    OBVIOUS
  <2>1. ShapeOK
    BY ShapeInit
  <2>2. Running = {}
    BY DEF Init, Running, Session
  <2>3. ClientsCounted
    BY <2>2, FS_EmptySet DEF Init, ClientsCounted
  <2>4. OneAtATime /\ Following
    BY DEF Init, OneAtATime, Alive, Following, None
  <2> QED
    BY <2>1, <2>3, <2>4 DEF CInv
<1>2. CInv /\ [Next]_vars => CInv'
  BY ShapeStep, CountedStep, OneStep, FollowingStep DEF CInv
<1> QED
  BY <1>1, <1>2, PTL DEF Spec

(* Whatever client, gateway and network do, the connection's state is well *)
(* formed and the reconnect attempts are limited.                          *)
THEOREM TypeCorrect == Spec => []TypeOK
<1>1. CInv => TypeOK
  <2> SUFFICES ASSUME CInv PROVE TypeOK
    OBVIOUS
  <2>1. ClientTypeOK /\ NetTypeOK
    BY DEF CInv, ShapeOK
  <2>2. connected \in Nat
    BY RunningFinite DEF CInv, ClientsCounted
  <2>3. toServer \in [Sockets -> Seq({None} \cup {Some(r) : r \in Requests})]
    BY <2>1 DEF NetTypeOK, Frames
  <2>4. {shouldReconnect, timer, heartbeat, stopping, overlap} \subseteq BOOLEAN
    BY <2>1 DEF ClientTypeOK, NetTypeOK
  <2>5. \A s \in Sockets :
          session[s].at \in {"none", "greeting", "running", "flushing", "ended"}
    BY <2>1 DEF NetTypeOK, Places
  <2> QED
    BY <2>1, <2>2, <2>3, <2>4, <2>5 DEF TypeOK, ClientTypeOK, NetTypeOK
<1> QED
  BY CInvAlways, <1>1, PTL

(* connected_clients is the number of sessions, whichever way each of them *)
(* ends.                                                                   *)
THEOREM ConnectionsCounted == Spec => []ClientsCounted
<1>1. CInv => ClientsCounted
  BY DEF CInv
<1> QED
  BY CInvAlways, <1>1, PTL

(* The session passes on what the application last asked for, whatever     *)
(* requests, reconnects and restarts came before.                          *)
THEOREM RequestInForce == Spec => []SubscriptionInForce
<1>1. CInv => SubscriptionInForce
  <2> SUFFICES ASSUME CInv, NEW s \in ws, Settled(s) PROVE Alike(session[s].sub)
    BY DEF SubscriptionInForce, Alike
  <2>1. s \in Sockets
    BY DEF CInv, ShapeOK, ClientTypeOK
  <2>2. Carries(s) /\ sock[s] = "open" /\ toServer[s] = <<>>
    BY DEF Settled, Carries
  <2> QED
    BY <2>1, <2>2 DEF CInv, Following, Agreed
<1> QED
  BY CInvAlways, <1>1, PTL

(* One connection, or one reconnect that is due, at a time.                *)
THEOREM OneConnection == Spec => []SingleConnection
<1>1. CInv => SingleConnection
  <2> SUFFICES ASSUME CInv, ~overlap PROVE Cardinality(Alive) + Due =< 1
    BY DEF SingleConnection
  <2>1. forgotten = 0 /\ (\A s, t \in Alive : s = t) /\ (timer => Alive = {})
    BY DEF CInv, OneAtATime
  <2>2. timer \in BOOLEAN
    BY DEF CInv, ShapeOK, ClientTypeOK
  <2>3. CASE Alive = {}
    BY <2>1, <2>2, <2>3, FS_EmptySet DEF Due
  <2>4. CASE Alive # {}
    <3>1. PICK s : Alive = {s}
      BY <2>1, <2>4
    <3>2. Cardinality(Alive) = 1
      BY <3>1, FS_Singleton
    <3> QED
      BY <2>1, <2>4, <3>2 DEF Due
  <2> QED
    BY <2>3, <2>4
<1> QED
  BY CInvAlways, <1>1, PTL

(* After disconnect() nothing connects again.                              *)
THEOREM DisconnectedStays == Spec => []DisconnectStays
<1>1. CInv => DisconnectStays
  BY DEF CInv, OneAtATime, ShapeOK, ClientTypeOK, DisconnectStays, Due
<1> QED
  BY CInvAlways, <1>1, PTL
=============================================================================
