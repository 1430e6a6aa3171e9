----------------------------- MODULE HubLinkProofs -----------------------------
(***************************************************************************)
(* What holds of the hub link for any connections, any number of frames,   *)
(* saves, stops and power losses.                                          *)
(***************************************************************************)
EXTENDS HubLink, HubServerProofs

Sessions == [state : {"closed", "await_hello", "await_auth", "verified"},
             hellos : Nat, oks : Nat, judged : {"none", "ours", "theirs"}]
Places == {"idle", "load_id", "load_secret", "introspect", "mint"}

ServerTypes ==
  raced \in BOOLEAN /\ on \in BOOLEAN /\ stopping \in BOOLEAN /\ moves \in Nat
ConnTypes == conn \in [Conns -> Sessions]
HandlerTypes ==
  /\ at \in Places /\ serving \in Conns /\ id \in Nat /\ secret \in Nat
  /\ overlap \in BOOLEAN
StoreTypes ==
  /\ nvs \in Stored /\ flash \in Stored
  /\ saver \in {"idle", "id", "secret", "commit"} /\ pair \in Nat /\ torn \in BOOLEAN

\* A connection waits for an auth only with a challenge that is open, and
\* keeps doing so while the server works on that auth.
ConnInv ==
  /\ \A c \in Conns :
       /\ conn[c].oks <= conn[c].hellos
       /\ conn[c].state = "await_auth" => conn[c].oks < conn[c].hellos
       /\ conn[c].state = "verified" => conn[c].judged = "ours" /\ conn[c].oks > 0
  /\ at # "idle" => conn[serving].state = "await_auth"

\* What is torn says so, and so does a load that a save overlaps.
StoreInv ==
  /\ ~torn => nvs = flash /\ nvs.id = nvs.secret
  /\ saver \in {"secret", "commit"} => torn /\ nvs.id = pair
  /\ saver = "commit" => nvs.secret = pair
LoadInv ==
  /\ at # "idle" /\ saver # "idle" => overlap
  /\ at = "load_secret" => id = nvs.id \/ overlap \/ torn
  /\ at \in {"introspect", "mint"} => id = secret \/ overlap \/ torn

IInv == TypeOK /\ ConnInv /\ StoreInv /\ LoadInv /\ Announced

LEMMA TypeParts ==
  TypeOK <=> HubTypeOK /\ ServerTypes /\ ConnTypes /\ HandlerTypes /\ StoreTypes
  BY DEF TypeOK, ServerTypes, ConnTypes, HandlerTypes, StoreTypes, Sessions, Places

LEMMA ClosedType ==
  /\ Closed \in Sessions
  /\ Closed.state = "closed" /\ Closed.hellos = 0 /\ Closed.oks = 0
  BY DEF Closed, Sessions

LEMMA InitIInv == Init => IInv
PROOF
  <1> SUFFICES ASSUME Init PROVE IInv
    OBVIOUS
  <1>1. HubTypeOK
    BY OffType DEF Init
  <1>2. ServerTypes /\ HandlerTypes /\ StoreTypes
    BY HubAssumption DEF Init, ServerTypes, HandlerTypes, Places, StoreTypes, Stored, NoPair
  <1>3. ConnTypes /\ ConnInv
    BY ClosedType DEF Init, ConnTypes, ConnInv
  <1>4. StoreInv /\ LoadInv
    BY DEF Init, StoreInv, LoadInv, NoPair
  <1>5. Announced
    BY DEF Init, HubOff, Announced
  <1> QED
    BY <1>1, <1>2, <1>3, <1>4, <1>5, TypeParts DEF IInv

-----------------------------------------------------------------------------
(* The server on and off *)

\* A start that says ok has a beacon that nobody asked to leave.
LEMMA StartAnnounces ==
  ASSUME HubTypeOK, Announced, UNCHANGED stopping,
         NEW o \in StartOutcomes, hub_link_start(o)
  PROVE  HubTypeOK' /\ Announced'
PROOF
  <1>1. CASE s_server
    <2>1. UNCHANGED hubVars
      BY <1>1 DEF hub_link_start
    <2> QED
      BY <2>1, StandsType DEF hubVars, beaconVars, Announced
  <1>2. CASE ~s_server
    <2>1. CASE o = "fails"
      BY <1>2, <2>1, StartType DEF hub_link_start, Announced
    <2>2. CASE o = "ok"
      <3>1. beaconing' = beaconing + 1 /\ s_beacon_stop_requested' = FALSE
        BY <1>2, <2>2 DEF hub_link_start
      <3> QED
        BY <3>1, StartType DEF Announced, HubTypeOK
    <2>3. CASE o \notin {"fails", "ok"}
      <3>1. last_start' = o
        BY <1>2 DEF hub_link_start
      <3> QED
        BY <2>3, <3>1, StartType DEF Announced
    <2> QED
      BY <2>1, <2>2, <2>3
  <1> QED
    BY <1>1, <1>2

\* What a step of the server alone has to show.
LEMMA OnlyServer ==
  ASSUME IInv, UNCHANGED <<conn, handler, store>>, HubTypeOK', ServerTypes', Announced'
  PROVE  IInv'
PROOF
  <1>1. ConnTypes' /\ HandlerTypes' /\ StoreTypes'
    BY TypeParts DEF IInv, ConnTypes, HandlerTypes, StoreTypes, handler, store
  <1>2. TypeOK'
    BY <1>1 DEF TypeOK, ServerTypes, ConnTypes, HandlerTypes, StoreTypes, Sessions, Places
  <1>3. ConnInv' /\ StoreInv' /\ LoadInv'
    BY DEF IInv, ConnInv, StoreInv, LoadInv, handler, store
  <1> QED
    BY <1>2, <1>3 DEF IInv

LEMMA StartsIInv ==
  ASSUME IInv, app_main \/ StartAgain
  PROVE  IInv'
PROOF
  <1>1. \E o \in StartOutcomes : hub_link_start(o)
    BY DEF app_main, StartAgain, Starts
  <1>2. UNCHANGED <<conn, handler, stopping, store, moves>> /\ on' \in BOOLEAN
    BY TypeParts DEF IInv, ServerTypes, app_main, StartAgain
  <1>3. HubTypeOK' /\ Announced'
    BY <1>1, <1>2, StartAnnounces, TypeParts DEF IInv
  <1>4. raced' = (IF ~s_server /\ s_server' THEN Crosses ELSE raced)
    BY DEF app_main, StartAgain, Starts
  <1>5. raced' \in BOOLEAN
    <2>1. CASE ~s_server /\ s_server'
      <3>1. raced' = Crosses
        BY <1>4, <2>1
      <3> QED
        BY <3>1, Zenon DEF Crosses
    <2>2. CASE ~(~s_server /\ s_server')
      BY <1>4, <2>2, TypeParts DEF IInv, ServerTypes
    <2> QED
      BY <2>1, <2>2
  <1>6. ServerTypes'
    BY <1>2, <1>5, TypeParts DEF IInv, ServerTypes
  <1> QED
    BY <1>2, <1>3, <1>6, OnlyServer

LEMMA StopAsksIInv ==
  ASSUME IInv, StopAsks
  PROVE  IInv'
PROOF
  <1>1. HubTypeOK' /\ ServerTypes'
    BY StopType, TypeParts DEF IInv, StopAsks, Move, ServerTypes
  <1>2. Announced'
    BY DEF StopAsks, Announced
  <1> QED
    BY <1>1, <1>2, OnlyServer DEF StopAsks

LEMMA StopEndsIInv ==
  ASSUME IInv, StopEnds
  PROVE  IInv'
PROOF
  <1>1. /\ at = "idle" /\ hub_link_stop_ends /\ stopping' = FALSE
        /\ conn' = [c \in Conns |-> Closed]
        /\ UNCHANGED <<raced, on, handler, store, moves>>
    BY DEF StopEnds
  <1>2. HubTypeOK'
    BY <1>1, StopType, TypeParts DEF IInv
  <1>3. ServerTypes' /\ HandlerTypes' /\ StoreTypes'
    BY <1>1, TypeParts DEF IInv, ServerTypes, HandlerTypes, StoreTypes, handler, store
  <1>4. ConnTypes' /\ ConnInv'
    BY <1>1, ClosedType DEF ConnTypes, ConnInv, handler
  <1>5. StoreInv' /\ LoadInv'
    BY <1>1 DEF IInv, StoreInv, LoadInv, handler, store
  <1>6. Announced'
    BY <1>1 DEF hub_link_stop_ends, Announced
  <1>7. TypeOK'
    BY <1>2, <1>3, <1>4 DEF TypeOK, ServerTypes, ConnTypes, HandlerTypes, StoreTypes,
       Sessions, Places
  <1> QED
    BY <1>4, <1>5, <1>6, <1>7 DEF IInv

LEMMA StopFailsIInv ==
  ASSUME IInv, StopFails
  PROVE  IInv'
PROOF
  <1>1. /\ hub_link_stop_fails /\ stopping' = FALSE
        /\ UNCHANGED <<raced, on, conn, handler, store, moves>>
    BY DEF StopFails
  <1>2. HubTypeOK' /\ ServerTypes'
    BY <1>1, StopType, TypeParts DEF IInv, ServerTypes
  <1>3. Announced'
    BY <1>1 DEF hub_link_stop_fails, Announced
  <1> QED
    BY <1>1, <1>2, <1>3, OnlyServer

LEMMA BeaconsIInv ==
  ASSUME IInv, Beacons
  PROVE  IInv'
PROOF
  <1>1. HubTypeOK' /\ ServerTypes'
    BY BeaconType, TypeParts DEF IInv, Beacons, ServerTypes
  <1>2. UNCHANGED <<s_server, s_beacon_stop_requested, last_start, stopping>>
    BY DEF Beacons, BeaconLooks, BeaconLeaves
  <1>3. Announced'
    <2>1. CASE BeaconLooks
      BY <1>2, <2>1 DEF IInv, Announced, BeaconLooks
    <2>2. CASE BeaconLeaves
      BY <1>2, <2>2 DEF IInv, Announced, BeaconLeaves
    <2> QED
      BY <2>1, <2>2 DEF Beacons
  <1> QED
    BY <1>1, <1>3, OnlyServer DEF Beacons

-----------------------------------------------------------------------------
(* The connections *)

\* What a step on one connection has to show: what that connection becomes,
\* and what the handler does.
LEMMA OnlyConn ==
  ASSUME IInv, UNCHANGED offConn, NEW c \in Conns, NEW v \in Sessions, Sets(c, v),
         v.oks <= v.hellos,
         v.state = "await_auth" => v.oks < v.hellos,
         v.state = "verified" => v.judged = "ours" /\ v.oks > 0,
         HandlerTypes', LoadInv',
         at' # "idle" => serving' = c /\ v.state = "await_auth"
  PROVE  IInv'
PROOF
  <1>1. HubTypeOK' /\ ServerTypes' /\ StoreTypes'
    BY StandsType, TypeParts DEF IInv, offConn, ServerTypes, StoreTypes, store
  <1>2. ConnTypes' /\ conn'[c] = v /\ \A d \in Conns : d # c => conn'[d] = conn[d]
    BY TypeParts DEF IInv, Sets, ConnTypes
  <1>3. TypeOK'
    BY <1>1, <1>2 DEF TypeOK, ServerTypes, ConnTypes, HandlerTypes, StoreTypes,
       Sessions, Places
  <1>4. ConnInv'
    BY <1>2 DEF IInv, ConnInv
  <1>5. StoreInv'
    BY DEF IInv, StoreInv, offConn, store
  <1>6. Announced'
    BY DEF IInv, Announced, offConn, hubVars, beaconVars
  <1> QED
    BY <1>3, <1>4, <1>5, <1>6 DEF IInv

\* A connection that is closed, with the server idle after it.
LEMMA ClosesIInv ==
  ASSUME IInv, UNCHANGED offConn, NEW c \in Conns, Sets(c, Closed),
         HandlerTypes', at' = "idle"
  PROVE  IInv'
PROOF
  <1>1. LoadInv'
    BY DEF LoadInv
  <1> QED
    BY <1>1, ClosedType, OnlyConn

LEMMA HelloIInv ==
  ASSUME IInv, NEW c \in Conns, Connects(c) \/ Disconnects(c) \/ handle_hello(c)
  PROVE  IInv'
PROOF
  <1>1. UNCHANGED <<offConn, handler>> /\ at' = "idle"
    BY DEF Connects, Disconnects, handle_hello, Serves, handler
  <1>2. HandlerTypes' /\ LoadInv'
    BY <1>1, TypeParts DEF IInv, HandlerTypes, LoadInv, handler
  <1>3. CASE Sets(c, Closed)
    BY <1>1, <1>2, <1>3, ClosesIInv
  <1>4. CASE Connects(c)
    <2> DEFINE v == [Closed EXCEPT !.state = "await_hello"]
    <2>1. v \in Sessions /\ v.state = "await_hello" /\ v.oks = 0 /\ v.hellos = 0
      BY DEF Closed, Sessions
    <2>2. Sets(c, v)
      BY <1>4 DEF Connects
    <2> HIDE DEF v
    <2> QED
      BY <1>1, <1>2, <2>1, <2>2, OnlyConn
  <1>5. CASE Sets(c, [state |-> "await_auth", hellos |-> conn[c].hellos + 1,
                      oks |-> conn[c].oks, judged |-> "none"])
    <2> DEFINE v == [state |-> "await_auth", hellos |-> conn[c].hellos + 1,
                     oks |-> conn[c].oks, judged |-> "none"]
    <2>1. conn[c].hellos \in Nat /\ conn[c].oks \in Nat /\ conn[c].oks <= conn[c].hellos
      BY TypeParts DEF IInv, ConnTypes, Sessions, ConnInv
    <2>2. v \in Sessions /\ v.state = "await_auth" /\ v.oks < v.hellos /\ v.oks <= v.hellos
      BY <2>1 DEF Sessions
    <2> HIDE DEF v
    <2>3. Sets(c, v)
      BY <1>5 DEF v
    <2> QED
      BY <1>1, <1>2, <2>2, <2>3, OnlyConn
  <1> QED
    BY <1>3, <1>4, <1>5 DEF Disconnects, handle_hello

\* A step of the handler that leaves the connections as they are.
LEMMA OnlyHandler ==
  ASSUME IInv, UNCHANGED <<offConn, conn>>, HandlerTypes', LoadInv',
         conn[serving'].state = "await_auth"
  PROVE  IInv'
PROOF
  <1>1. HubTypeOK' /\ ServerTypes' /\ StoreTypes' /\ ConnTypes'
    BY StandsType, TypeParts DEF IInv, offConn, ServerTypes, StoreTypes, store, ConnTypes
  <1>2. TypeOK'
    BY <1>1 DEF TypeOK, ServerTypes, ConnTypes, HandlerTypes, StoreTypes, Sessions, Places
  <1>3. ConnInv'
    BY DEF IInv, ConnInv
  <1>4. StoreInv' /\ Announced'
    BY DEF IInv, StoreInv, Announced, offConn, store, hubVars, beaconVars
  <1> QED
    BY <1>2, <1>3, <1>4 DEF IInv

LEMMA AuthBeginsIInv ==
  ASSUME IInv, NEW c \in Conns, AuthBegins(c)
  PROVE  IInv'
PROOF
  <1>1. /\ at' = "load_id" /\ serving' = c /\ overlap' = (saver # "idle")
        /\ UNCHANGED <<offConn, conn, id, secret>> /\ conn[c].state = "await_auth"
    BY DEF AuthBegins
  <1>2. HandlerTypes'
    <2>1. overlap' \in BOOLEAN
      BY <1>1
    <2> QED
      BY <1>1, <2>1, TypeParts DEF IInv, HandlerTypes, Places
  <1>3. LoadInv'
    BY <1>1 DEF LoadInv, offConn, store
  <1> QED
    BY <1>1, <1>2, <1>3, OnlyHandler

LEMMA LoadIInv ==
  ASSUME IInv, LoadId \/ LoadSecret
  PROVE  IInv'
PROOF
  <1>1. UNCHANGED <<offConn, serving, overlap>> /\ UNCHANGED <<nvs, saver, torn>>
    BY DEF LoadId, LoadSecret, offConn, store
  <1>2. nvs.id \in Nat /\ nvs.secret \in Nat
    BY TypeParts DEF IInv, StoreTypes, Stored
  <1>3. serving \in Conns /\ (at # "idle" => conn[serving].state = "await_auth")
    BY TypeParts DEF IInv, HandlerTypes, ConnInv
  <1>4. CASE LoadId
    <2>1. HandlerTypes'
      BY <1>1, <1>2, <1>4, TypeParts DEF IInv, HandlerTypes, LoadId, Places
    <2>2. LoadInv'
      BY <1>1, <1>4 DEF IInv, LoadInv, LoadId
    <2> QED
      BY <1>1, <1>3, <1>4, <2>1, <2>2, OnlyHandler DEF LoadId
  <1>5. CASE LoadSecret
    <2>1. at = "load_secret" /\ secret' = nvs.secret /\ UNCHANGED id
      BY <1>5 DEF LoadSecret
    <2>2. at' \in {"idle", "introspect"}
      BY <1>5 DEF LoadSecret, Fails
    <2>3. HandlerTypes'
      BY <1>1, <1>2, <2>1, <2>2, TypeParts DEF IInv, HandlerTypes, Places
    <2>4. CASE Fails
      BY <1>1, <1>3, <2>3, <2>4, ClosesIInv DEF Fails
    <2>5. CASE at' = "introspect" /\ UNCHANGED conn
      <3>1. id = secret' \/ overlap \/ torn
        BY <2>1 DEF IInv, LoadInv, StoreInv
      <3>2. LoadInv'
        BY <1>1, <2>1, <2>5, <3>1 DEF IInv, LoadInv
      <3> QED
        BY <1>1, <1>3, <2>1, <2>3, <2>5, <3>2, OnlyHandler
    <2> QED
      BY <1>5, <2>4, <2>5 DEF LoadSecret
  <1> QED
    BY <1>4, <1>5

LEMMA AnswersIInv ==
  ASSUME IInv, Introspects \/ Mints
  PROVE  IInv'
PROOF
  <1>1. UNCHANGED <<offConn, serving, id, secret, overlap>> /\ UNCHANGED <<nvs, saver, torn>>
    BY DEF Introspects, Mints, offConn, store
  <1>2. /\ serving \in Conns /\ conn[serving].state = "await_auth"
        /\ conn[serving].oks < conn[serving].hellos
    BY TypeParts DEF IInv, HandlerTypes, ConnInv, Introspects, Mints
  <1>3. conn[serving] \in Sessions
    BY <1>2, TypeParts DEF IInv, ConnTypes
  <1>4. at' \in {"idle", "mint"}
    BY DEF Introspects, Mints, Fails
  <1>5. HandlerTypes'
    BY <1>1, <1>4, TypeParts DEF IInv, HandlerTypes, Places
  <1>6. CASE Fails
    BY <1>1, <1>2, <1>5, <1>6, ClosesIInv DEF Fails
  <1>7. CASE /\ at = "introspect" /\ at' = "mint"
             /\ \E site \in {"ours", "theirs"} :
                  Sets(serving, [conn[serving] EXCEPT !.judged = site])
    <2>1. PICK site \in {"ours", "theirs"} :
            Sets(serving, [conn[serving] EXCEPT !.judged = site])
      BY <1>7
    <2> DEFINE v == [conn[serving] EXCEPT !.judged = site]
    <2>2. v \in Sessions /\ v.state = "await_auth" /\ v.oks < v.hellos /\ v.oks <= v.hellos
      BY <1>2, <1>3 DEF Sessions
    <2>3. LoadInv'
      BY <1>1, <1>7 DEF IInv, LoadInv
    <2>4. Sets(serving, v)
      BY <2>1
    <2> HIDE DEF v
    <2> QED
      BY <1>1, <1>2, <1>5, <2>2, <2>3, <2>4, OnlyConn
  <1>8. CASE /\ at' = "idle" /\ conn[serving].judged = "ours"
             /\ Sets(serving, [conn[serving] EXCEPT !.state = "verified", !.oks = @ + 1])
    <2> DEFINE v == [conn[serving] EXCEPT !.state = "verified", !.oks = @ + 1]
    <2>1. conn[serving].oks \in Nat /\ conn[serving].hellos \in Nat
      BY <1>3 DEF Sessions
    <2>2. /\ v.oks = conn[serving].oks + 1 /\ v.hellos = conn[serving].hellos
          /\ v.state = "verified" /\ v.judged = "ours"
      BY <1>3, <1>8 DEF Sessions
    <2>3. v \in Sessions
      <3>1. conn[serving].oks + 1 \in Nat
        BY <2>1
      <3> QED
        BY <1>3, <3>1 DEF Sessions
    <2>4. /\ v \in Sessions /\ v.state = "verified" /\ v.oks <= v.hellos
          /\ v.judged = "ours" /\ v.oks > 0
      BY <1>2, <2>1, <2>2, <2>3
    <2>5. LoadInv'
      BY <1>8 DEF LoadInv
    <2>6. Sets(serving, v)
      BY <1>8
    <2> HIDE DEF v
    <2> QED
      BY <1>1, <1>2, <1>5, <1>8, <2>4, <2>5, <2>6, OnlyConn
  <1> QED
    BY <1>6, <1>7, <1>8 DEF Introspects, Mints

-----------------------------------------------------------------------------
(* The credential, and a power loss *)

LEMMA ConsoleIInv ==
  ASSUME IInv, Console
  PROVE  IInv'
PROOF
  <1>1. UNCHANGED offStore
    BY DEF Console, SaveBegins, SaveId, SaveSecret, SaveCommits
  <1>2. HubTypeOK' /\ ConnTypes' /\ Announced' /\ ConnInv'
    BY <1>1, StandsType, TypeParts DEF IInv, offStore, ConnTypes, Announced, ConnInv,
       hubVars, beaconVars
  <1>3. ServerTypes'
    BY <1>1, TypeParts DEF IInv, ServerTypes, offStore, Console, SaveBegins, SaveId,
       SaveSecret, SaveCommits, Move
  <1>4. HandlerTypes'
    BY <1>1, TypeParts DEF IInv, HandlerTypes, offStore, Console, SaveBegins, SaveId,
       SaveSecret, SaveCommits
  <1>5. nvs.id \in Nat /\ nvs.secret \in Nat /\ pair \in Nat
    BY TypeParts DEF IInv, StoreTypes, Stored
  <1>6. [nvs EXCEPT !.id = pair] \in Stored /\ [nvs EXCEPT !.secret = pair] \in Stored
    BY <1>5, TypeParts DEF IInv, StoreTypes, Stored
  <1>7. StoreTypes /\ StoreInv /\ LoadInv
    BY TypeParts DEF IInv
  <1>8. UNCHANGED <<at, id, secret>>
    BY <1>1 DEF offStore
  <1>9. StoreTypes' /\ StoreInv' /\ LoadInv'
    <2>1. CASE SaveBegins
      BY <1>7, <1>8, <2>1 DEF SaveBegins, StoreTypes, StoreInv, LoadInv
    <2>2. CASE SaveId
      <3>1. nvs' \in Stored /\ (saver' = "secret" => nvs'.id = pair)
        BY <1>6, <1>7, <2>2 DEF SaveId, StoreTypes, Stored
      <3> QED
        BY <1>7, <1>8, <2>2, <3>1 DEF SaveId, StoreTypes, StoreInv, LoadInv
    <2>3. CASE SaveSecret
      <3>1. /\ nvs' \in Stored /\ nvs'.id = nvs.id
            /\ (saver' = "commit" => nvs'.secret = pair)
        BY <1>6, <1>7, <2>3 DEF SaveSecret, StoreTypes, Stored
      <3> QED
        BY <1>7, <1>8, <2>3, <3>1 DEF SaveSecret, StoreTypes, StoreInv, LoadInv
    <2>4. CASE SaveCommits
      BY <1>7, <1>8, <2>4 DEF SaveCommits, StoreTypes, StoreInv, LoadInv
    <2> QED
      BY <2>1, <2>2, <2>3, <2>4 DEF Console
  <1>10. TypeOK'
    BY <1>2, <1>3, <1>4, <1>9 DEF TypeOK, ServerTypes, ConnTypes, HandlerTypes, StoreTypes,
       Sessions, Places
  <1> QED
    BY <1>2, <1>9, <1>10 DEF IInv

LEMMA OutageIInv ==
  ASSUME IInv, Outage
  PROVE  IInv'
PROOF
  <1>1. /\ HubLost /\ conn' = [c \in Conns |-> Closed] /\ at' = "idle"
        /\ saver' = "idle" /\ UNCHANGED <<serving, pair, torn>>
    BY DEF Outage
  <1>2. HubTypeOK' /\ Announced'
    BY <1>1, LostType DEF HubLost, Announced
  <1>3. ServerTypes' /\ HandlerTypes'
    <2>1. moves' \in Nat
      BY TypeParts DEF IInv, Outage, Move, ServerTypes
    <2>2. ServerTypes'
      BY <2>1 DEF Outage, ServerTypes
    <2>3. serving' \in Conns
      BY <1>1, TypeParts DEF IInv, HandlerTypes
    <2>4. HandlerTypes'
      BY <2>3 DEF Outage, HandlerTypes, Places
    <2> QED
      BY <2>2, <2>4
  <1>4. ConnTypes' /\ ConnInv'
    BY <1>1, ClosedType DEF ConnTypes, ConnInv
  <1>5. PICK i \in {nvs.id, flash.id}, s \in {nvs.secret, flash.secret} :
          nvs' = [id |-> i, secret |-> s] /\ flash' = nvs'
    BY DEF Outage
  <1>6. nvs \in Stored /\ flash \in Stored
    BY TypeParts DEF IInv, StoreTypes
  <1>7. StoreTypes'
    BY <1>1, <1>5, <1>6, TypeParts DEF IInv, StoreTypes, Stored
  <1>8. StoreInv'
    BY <1>1, <1>5, <1>6 DEF IInv, StoreInv, Stored
  <1>9. LoadInv'
    BY <1>1 DEF LoadInv
  <1>10. TypeOK'
    BY <1>2, <1>3, <1>4, <1>7 DEF TypeOK, ServerTypes, ConnTypes, HandlerTypes, StoreTypes,
       Sessions, Places
  <1> QED
    BY <1>2, <1>4, <1>8, <1>9, <1>10 DEF IInv

-----------------------------------------------------------------------------
(* All steps together *)

LEMMA NextIInv == IInv /\ [Next]_vars => IInv'
PROOF
  <1> SUFFICES ASSUME IInv, [Next]_vars PROVE IInv'
    OBVIOUS
  <1>1. CASE UNCHANGED vars
    <2>1. HubTypeOK' /\ ServerTypes' /\ Announced'
      BY <1>1, StandsType, TypeParts DEF IInv, vars, ServerTypes, Announced, hubVars,
         beaconVars
    <2> QED
      BY <1>1, <2>1, OnlyServer DEF vars
  <1> QED
    BY <1>1, StartsIInv, StopAsksIInv, StopEndsIInv, StopFailsIInv, BeaconsIInv,
       HelloIInv, AuthBeginsIInv, LoadIInv, AnswersIInv, ConsoleIInv, OutageIInv DEF Next

LEMMA AlwaysIInv == Spec => []IInv
  BY InitIInv, NextIInv, PTL DEF Spec

-----------------------------------------------------------------------------
(* Theorems *)

(* Server, connections, handler and store are of their types.              *)
THEOREM HubTypes == Spec => []TypeOK
  BY AlwaysIInv, PTL DEF IInv

(* Whatever the peer sends, in whatever order: a challenge is answered     *)
(* once, and verified is only who the auth-worker put on the same site     *)
(* (handle_hello, handle_auth).                                            *)
THEOREM HandshakeIsKept == Spec => []HandshakeHolds
PROOF
  <1>1. IInv => HandshakeHolds
    BY DEF IInv, ConnInv, HandshakeHolds
  <1> QED
    BY <1>1, AlwaysIInv, PTL

(* An auth never mixes the id of one pair with the secret of another,      *)
(* unless a save overlaps it or was cut short (credential_load).           *)
THEOREM PairIsWhole == Spec => []PairHolds
PROOF
  <1>1. IInv => PairHolds
    BY DEF IInv, LoadInv, PairHolds
  <1> QED
    BY <1>1, AlwaysIInv, PTL

(* A server that came up with its beacon is announced until it is stopped, *)
(* also when it was stopped and started faster than a beacon task looks    *)
(* (hub_link_start withdraws the request).                                 *)
THEOREM RunningIsAnnounced == Spec => []Announced
  BY AlwaysIInv, PTL DEF IInv

-----------------------------------------------------------------------------
(* The beacons of a server that was stopped *)

\* As long as no start crossed an older beacon, the handle is that of the beacon
\* that nobody has asked yet, and httpd_stop is called when it has been.
AskedInv ==
  /\ stopping => s_server
  /\ beaconing > 0 /\ ~raced => s_beacon_stop_requested \/ (s_beacon_task /\ leaving = 0)
  /\ (stopping \/ ~s_server) /\ beaconing > 0 /\ ~raced => s_beacon_stop_requested

LEMMA StartAsked ==
  ASSUME HubTypeOK, AskedInv, UNCHANGED stopping, ~s_server,
         NEW o \in StartOutcomes, hub_link_start(o),
         raced' = IF ~s_server /\ s_server' THEN Crosses ELSE raced
  PROVE  AskedInv'
PROOF
  <1>1. CASE o = "fails"
    BY <1>1 DEF hub_link_start, AskedInv
  <1>2. CASE o # "fails"
    <2>1. /\ s_server' = TRUE /\ s_beacon_task' = (o # "no_task")
          /\ beaconing' = beaconing + (IF o = "ok" THEN 1 ELSE 0)
          /\ leaving' = leaving + (IF o = "no_socket" THEN 1 ELSE 0)
          /\ last_start' = o
      BY <1>2 DEF hub_link_start
    <2>2. beaconing \in Nat /\ leaving \in Nat
      BY DEF HubTypeOK
    <2>3. ~stopping' /\ s_server'
      BY <2>1 DEF AskedInv
    <2>4. ASSUME beaconing' > 0, ~raced'
          PROVE  s_beacon_task' /\ leaving' = 0
      <3>1. ~(leaving > 0 \/ (beaconing > 0 /\ (raced \/ o # "ok")))
        BY <2>1, <2>4 DEF Crosses
      <3>2. ~(leaving > 0) /\ (beaconing > 0 => o = "ok")
        BY <3>1, Zenon
      <3>3. o = "ok"
        BY <2>1, <2>2, <2>4, <3>2
      <3>4. s_beacon_task' = TRUE
        BY <2>1, <3>3
      <3>5. leaving' = leaving + 0
        BY <2>1, <3>3
      <3> QED
        BY <2>2, <3>2, <3>4, <3>5
    <2> QED
      BY <2>3, <2>4 DEF AskedInv
  <1> QED
    BY <1>1, <1>2

\* What is left alone of the hub server leaves AskedInv alone.
LEMMA SameAsked ==
  ASSUME AskedInv, UNCHANGED <<hubVars, raced, stopping>>
  PROVE  AskedInv'
  BY DEF AskedInv, hubVars, beaconVars

LEMMA NextAsked == IInv /\ AskedInv /\ [Next]_vars => AskedInv'
PROOF
  <1> SUFFICES ASSUME IInv, AskedInv, [Next]_vars PROVE AskedInv'
    OBVIOUS
  <1>1. HubTypeOK
    BY TypeParts DEF IInv
  <1>2. CASE app_main \/ StartAgain
    <2>1. PICK o \in StartOutcomes : hub_link_start(o)
      BY <1>2 DEF app_main, StartAgain, Starts
    <2>2. /\ UNCHANGED stopping
          /\ raced' = IF ~s_server /\ s_server' THEN Crosses ELSE raced
      BY <1>2 DEF app_main, StartAgain, Starts
    <2>3. CASE s_server
      BY <2>1, <2>2, <2>3, SameAsked DEF hub_link_start
    <2>4. CASE ~s_server
      BY <1>1, <2>1, <2>2, <2>4, StartAsked
    <2> QED
      BY <2>3, <2>4
  <1>3. CASE StopAsks
    <2>1. s_server /\ UNCHANGED <<s_server, beaconing, leaving, raced, s_beacon_task>>
      BY <1>3 DEF StopAsks, hub_link_stop_asks
    <2>2. s_beacon_stop_requested' = (s_beacon_stop_requested \/ s_beacon_task)
      BY <1>3, Zenon DEF StopAsks, hub_link_stop_asks
    <2>3. s_beacon_stop_requested \/ s_beacon_task => s_beacon_stop_requested'
      BY <2>2, Zenon
    <2>4. beaconing > 0 /\ ~raced => s_beacon_stop_requested'
      BY <2>3, Zenon DEF AskedInv
    <2> QED
      BY <2>1, <2>4, Zenon DEF AskedInv
  <1>4. CASE StopEnds \/ StopFails
    <2>1. stopping /\ ~stopping' /\ UNCHANGED <<beaconVars, raced>>
      BY <1>4 DEF StopEnds, StopFails, hub_link_stop_ends, hub_link_stop_fails
    <2> QED
      BY <2>1 DEF AskedInv, beaconVars
  <1>5. CASE Beacons
    <2>1. UNCHANGED <<s_server, stopping, raced>>
      BY <1>5 DEF Beacons, BeaconLooks, BeaconLeaves
    <2>2. CASE BeaconLooks
      <3>1. s_beacon_stop_requested'
        BY <2>2 DEF BeaconLooks
      <3> QED
        BY <2>1, <3>1, Zenon DEF AskedInv
    <2>3. CASE BeaconLeaves
      BY <1>1, <2>1, <2>3 DEF BeaconLeaves, AskedInv, HubTypeOK
    <2> QED
      BY <1>5, <2>2, <2>3 DEF Beacons
  <1>6. CASE \E c \in Conns : Connects(c) \/ Disconnects(c) \/ handle_hello(c) \/ AuthBegins(c)
    BY <1>6, SameAsked DEF Connects, Disconnects, handle_hello, AuthBegins, offConn
  <1>7. CASE LoadId \/ LoadSecret \/ Introspects \/ Mints
    BY <1>7, SameAsked DEF LoadId, LoadSecret, Introspects, Mints, offConn
  <1>8. CASE Console
    BY <1>8, SameAsked DEF Console, SaveBegins, SaveId, SaveSecret, SaveCommits, offStore
  <1>9. CASE Outage
    BY <1>9 DEF Outage, HubLost, AskedInv
  <1>10. CASE UNCHANGED vars
    BY <1>10, SameAsked DEF vars
  <1> QED
    BY <1>2, <1>3, <1>4, <1>5, <1>6, <1>7, <1>8, <1>9, <1>10 DEF Next

(* A beacon task left over from a server that was stopped, or that would   *)
(* not stop, sees the request at its next look, however stops, starts and  *)
(* looks follow one another, unless a start crossed an older beacon        *)
(* (hub_link_stop, beacon_task).                                           *)
THEOREM LeftoverIsAsked == Spec => []StoppedIsAsked
PROOF
  <1>1. Init => AskedInv
    BY DEF Init, HubOff, AskedInv
  <1>2. AskedInv => StoppedIsAsked
    BY DEF AskedInv, StoppedIsAsked
  <1> QED
    BY <1>1, <1>2, AlwaysIInv, NextAsked, PTL DEF Spec
=============================================================================
