------------------------------ MODULE HubLink ------------------------------
(***************************************************************************)
(* The hub side of the gateway: main/hub_link.c with the connections of    *)
(* its server (hello, auth, verified), and the device credential of        *)
(* main/credential.c it reads for every auth, which the console writes in  *)
(* a task of its own.  The server has one task: it handles one frame at a  *)
(* time, and an auth blocks it over two requests to the auth-worker.       *)
(*                                                                         *)
(* A credential is a number: the n-th pair that "cred set" was given, 0    *)
(* for none; id and secret are stored apart.  The OTA worker stops and     *)
(* starts the server.  The hub, the auth-worker and the NVS are external.  *)
(***************************************************************************)
EXTENDS HubServer

CONSTANTS Conns,       \* connections
          MaxHellos,   \* bound: hellos on one connection
          MaxMoves     \* bound: saves, stops and outages together

ASSUME HubAssumption == MaxHellos \in Nat /\ MaxMoves \in Nat

VARIABLES
  on,                        \* app_main has run
  conn,                      \* the sess_ctx of each connection, with history:
                             \*   hellos, oks sent, what the answers said
  at, serving, id, secret,   \* the server task: next step, for whom, its pair
  stopping,                  \* hub_link_stop is in httpd_stop
  raced,                     \* history: the last start crossed an older beacon
  nvs, flash,                \* the values written; those a power loss leaves
  saver, pair,               \* credential_save: next step, the pair it writes
  moves,                     \* what is left of the bound
  torn,                      \* history: the last save left a part of a pair,
  overlap                    \*   a save ran while the server loaded

handler == <<at, serving, id, secret, overlap>>
store == <<nvs, flash, saver, pair, torn>>
vars == <<hubVars, raced, on, conn, handler, stopping, store, moves>>

Closed == [state |-> "closed", hellos |-> 0, oks |-> 0, judged |-> "none"]
NoPair == [id |-> 0, secret |-> 0]

Init ==
  /\ HubOff /\ raced = FALSE /\ on = FALSE
  /\ conn = [c \in Conns |-> Closed]
  /\ at = "idle" /\ serving \in Conns /\ id = 0 /\ secret = 0
  /\ stopping = FALSE
  /\ nvs = NoPair /\ flash = NoPair /\ saver = "idle" /\ pair = 0
  /\ moves = MaxMoves /\ torn = FALSE /\ overlap = FALSE

Move == moves > 0 /\ moves' = moves - 1

-----------------------------------------------------------------------------
(* The server on and off *)

\* A start that comes while a beacon task is past its loop, or that leaves one
\* in its loop without a handle.
Crosses == leaving > 0 \/ (beaconing > 0 /\ (raced \/ last_start' # "ok"))

Starts ==
  /\ \E o \in StartOutcomes : hub_link_start(o)
  /\ raced' = IF ~s_server /\ s_server' THEN Crosses ELSE raced

app_main ==
  /\ ~on /\ on' = TRUE
  /\ Starts
  /\ UNCHANGED <<conn, handler, stopping, store, moves>>

StopAsks ==
  /\ on /\ ~stopping /\ stopping' = TRUE
  /\ Move
  /\ hub_link_stop_asks
  /\ UNCHANGED <<raced, on, conn, handler, store>>

\* httpd_stop waits for the task, then closes every connection ...
StopEnds ==
  /\ stopping /\ at = "idle"
  /\ stopping' = FALSE
  /\ hub_link_stop_ends
  /\ conn' = [c \in Conns |-> Closed]
  /\ UNCHANGED <<raced, on, handler, store, moves>>

\* ... or cannot ask it to stop, and leaves all as it is.
StopFails ==
  /\ stopping /\ stopping' = FALSE
  /\ hub_link_stop_fails
  /\ UNCHANGED <<raced, on, conn, handler, store, moves>>

\* The update has failed.
StartAgain ==
  /\ on /\ ~s_server
  /\ Starts
  /\ UNCHANGED <<on, conn, handler, stopping, store, moves>>

Beacons ==
  /\ BeaconLooks \/ BeaconLeaves
  /\ UNCHANGED <<raced, on, conn, handler, stopping, store, moves>>

-----------------------------------------------------------------------------
(* Frames: ws_handler, handle_hello, handle_auth *)

offConn == <<hubVars, raced, on, stopping, store, moves>>

\* The server task runs, with or without a handle.
Listens == s_server \/ leftover
Serves(c) == Listens /\ at = "idle" /\ conn[c].state # "closed"
Sets(c, v) == conn' = [conn EXCEPT ![c] = v]

Connects(c) ==
  /\ Listens /\ at = "idle" /\ conn[c].state = "closed"
  /\ Sets(c, [Closed EXCEPT !.state = "await_hello"])
  /\ UNCHANGED <<offConn, handler>>

\* The peer goes, a frame is too large, an auth has no token, or a receive
\* fails.
Disconnects(c) ==
  /\ Serves(c)
  /\ Sets(c, Closed)
  /\ UNCHANGED <<offConn, handler>>

\* A challenge, in any state: what was verified is so no more.
handle_hello(c) ==
  /\ Serves(c) /\ conn[c].hellos < MaxHellos
  /\ \/ Sets(c, [state |-> "await_auth", hellos |-> conn[c].hellos + 1,
                 oks |-> conn[c].oks, judged |-> "none"])
     \/ Sets(c, Closed)       \* it cannot be sent
  /\ UNCHANGED <<offConn, handler>>

\* Mutant: an auth is taken at any time.
AuthBegins_AnyState(c) ==
  /\ Serves(c)
  /\ at' = "load_id" /\ serving' = c
  /\ overlap' = (saver # "idle")
  /\ UNCHANGED <<offConn, conn, id, secret>>

\* An auth with a token, when one is waited for; any other is ignored.
AuthBegins(c) ==
  /\ Serves(c) /\ conn[c].state = "await_auth"
  /\ at' = "load_id" /\ serving' = c
  /\ overlap' = (saver # "idle")
  /\ UNCHANGED <<offConn, conn, id, secret>>

\* auth_fail, and the connection is closed.
Fails ==
  /\ at' = "idle" /\ Sets(serving, Closed)

\* credential_load: two reads.
LoadId ==
  /\ at = "load_id" /\ at' = "load_secret"
  /\ id' = nvs.id
  /\ UNCHANGED <<offConn, conn, serving, secret, overlap>>

LoadSecret ==
  /\ at = "load_secret"
  /\ secret' = nvs.secret
  /\ IF id = 0 \/ secret' = 0
       THEN Fails
       ELSE at' = "introspect" /\ UNCHANGED conn
  /\ UNCHANGED <<offConn, serving, id, overlap>>

\* The auth-worker knows the pair, and tells what the hub's token is worth.
Introspects ==
  /\ at = "introspect"
  /\ \/ Fails
     \/ /\ id = secret
        /\ \E site \in {"ours", "theirs"} :
             Sets(serving, [conn[serving] EXCEPT !.judged = site])
        /\ at' = "mint"
  /\ UNCHANGED <<offConn, serving, id, secret, overlap>>

\* The own token; both sites are compared before auth_ok is sent.
Mints ==
  /\ at = "mint"
  /\ \/ Fails                 \* no token, another site, too long, not sent
     \/ /\ conn[serving].judged = "ours"
        /\ at' = "idle"
        /\ Sets(serving, [conn[serving] EXCEPT !.state = "verified",
                                               !.oks = @ + 1])
  /\ UNCHANGED <<offConn, serving, id, secret, overlap>>

-----------------------------------------------------------------------------
(* "cred set": credential_save *)

offStore == <<hubVars, raced, on, conn, at, serving, id, secret, stopping>>

SaveBegins ==
  /\ on /\ saver = "idle" /\ saver' = "id"
  /\ Move
  /\ pair' = pair + 1
  /\ overlap' = TRUE
  /\ UNCHANGED <<offStore, nvs, flash, torn>>

\* Mutant: an error of the first write is passed over.
SaveId_ErrorIgnored ==
  /\ saver = "id" /\ saver' = "secret"
  /\ \/ nvs' = [nvs EXCEPT !.id = pair] /\ torn' = TRUE
     \/ UNCHANGED <<nvs, torn>>
  /\ UNCHANGED <<offStore, flash, pair, moves, overlap>>

SaveId ==
  /\ saver = "id"
  /\ \/ saver' = "secret" /\ nvs' = [nvs EXCEPT !.id = pair] /\ torn' = TRUE
     \/ saver' = "idle" /\ UNCHANGED <<nvs, torn>>
  /\ UNCHANGED <<offStore, flash, pair, moves, overlap>>

SaveSecret ==
  /\ saver = "secret"
  /\ \/ saver' = "commit" /\ nvs' = [nvs EXCEPT !.secret = pair]
     \/ saver' = "idle" /\ UNCHANGED nvs
  /\ UNCHANGED <<offStore, flash, pair, torn, moves, overlap>>

\* OK on the console.
SaveCommits ==
  /\ saver = "commit" /\ saver' = "idle"
  /\ \/ flash' = nvs /\ torn' = FALSE
     \/ UNCHANGED <<flash, torn>>
  /\ UNCHANGED <<offStore, nvs, pair, moves, overlap>>

\* A power loss, or a crash: what was not committed may be lost.
Outage ==
  /\ on /\ on' = FALSE
  /\ Move
  /\ HubLost /\ raced' = FALSE
  /\ conn' = [c \in Conns |-> Closed]
  /\ at' = "idle" /\ id' = 0 /\ secret' = 0 /\ overlap' = FALSE
  /\ stopping' = FALSE /\ saver' = "idle"
  /\ \E i \in {nvs.id, flash.id}, s \in {nvs.secret, flash.secret} :
       nvs' = [id |-> i, secret |-> s] /\ flash' = nvs'
  /\ UNCHANGED <<serving, pair, torn>>

Console == SaveBegins \/ SaveId \/ SaveSecret \/ SaveCommits

Next ==
  \/ app_main \/ StopAsks \/ StopEnds \/ StopFails \/ StartAgain \/ Beacons
  \/ \E c \in Conns : \/ Connects(c) \/ Disconnects(c)
                      \/ handle_hello(c) \/ AuthBegins(c)
  \/ LoadId \/ LoadSecret \/ Introspects \/ Mints
  \/ Console \/ Outage

\* The beacon tasks run.
Spec == Init /\ [][Next]_vars /\ WF_vars(Beacons)

-----------------------------------------------------------------------------
(* Properties *)

Stored == [id : Nat, secret : Nat]

TypeOK ==
  /\ HubTypeOK /\ raced \in BOOLEAN /\ on \in BOOLEAN /\ stopping \in BOOLEAN
  /\ conn \in [Conns -> [state : {"closed", "await_hello", "await_auth", "verified"},
                         hellos : Nat, oks : Nat, judged : {"none", "ours", "theirs"}]]
  /\ at \in {"idle", "load_id", "load_secret", "introspect", "mint"}
  /\ serving \in Conns /\ id \in Nat /\ secret \in Nat
  /\ nvs \in Stored /\ flash \in Stored
  /\ saver \in {"idle", "id", "secret", "commit"} /\ pair \in Nat
  /\ moves \in Nat /\ torn \in BOOLEAN /\ overlap \in BOOLEAN

(* A challenge is answered with auth_ok at most once, and a connection is  *)
(* verified only while the last challenge on it was answered with a token  *)
(* of the same site, whatever the peer sends in whatever order             *)
(* (handle_hello, handle_auth).                                            *)
HandshakeHolds ==
  \A c \in Conns :
    /\ conn[c].oks <= conn[c].hellos
    /\ conn[c].state = "verified" => conn[c].judged = "ours" /\ conn[c].oks > 0

(* The id and the secret used for an auth were saved together, unless a    *)
(* save ran during the load, or the last one did not come to its end       *)
(* (credential_load, credential_save).                                     *)
PairHolds ==
  at \in {"introspect", "mint"} => id = secret \/ overlap \/ torn

(* Once the server is stopped its beacon tasks end, or it is started again *)
(* (hub_link.h:27-31).  The one thing that can keep a beacon going for ever *)
(* is a start that crossed an older one: which came while a beacon task    *)
(* was past its loop and had yet to clear the handle, or which left an     *)
(* older one alone without a handle (hub_link.c:289, 326-331, 342).        *)
BeaconStops == ~s_server ~> (beaconing = 0 \/ s_server \/ raced)

(* A server that came up with its beacon is announced until it is stopped, *)
(* however fast it was stopped and started before (hub_link_start).        *)
Announced ==
  s_server /\ ~stopping /\ last_start = "ok" =>
    beaconing > 0 /\ ~s_beacon_stop_requested

(* A beacon that is there without a server has been asked to leave, unless *)
(* a start crossed an older one (hub_link_stop, beacon_task).              *)
StoppedIsAsked ==
  ~s_server /\ beaconing > 0 => s_beacon_stop_requested \/ raced
=============================================================================
