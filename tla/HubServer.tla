----------------------------- MODULE HubServer -----------------------------
(***************************************************************************)
(* The part of main/hub_link.c that others switch on and off: the server   *)
(* s_server and the beacon tasks that announce it.  hub_link_stop only     *)
(* asks the beacon task to leave, which looks once in BEACON_INTERVAL_MS;  *)
(* hub_link_start withdraws the request.  Who calls them is said by the    *)
(* modules that extend this one: Gateway (app_main and the OTA workers)    *)
(* and HubLink (with the connections of the server).                       *)
(***************************************************************************)
EXTENDS Naturals

VARIABLES
  s_server,                  \* s_server # NULL
  leftover,                  \* a server that httpd_stop failed to stop runs on
  s_beacon_task,             \* s_beacon_task # NULL
  s_beacon_stop_requested,
  beaconing,                 \* beacon tasks in their loop
  leaving,                   \* beacon tasks past it, yet to clear the handle
  last_start                 \* history: how the last start ended

beaconVars == <<s_beacon_task, s_beacon_stop_requested, beaconing, leaving,
                last_start>>
hubVars == <<s_server, leftover, beaconVars>>

StartOutcomes == {"fails", "no_task", "no_socket", "ok"}

HubOff ==
  /\ s_server = FALSE /\ leftover = FALSE /\ s_beacon_task = FALSE
  /\ s_beacon_stop_requested = FALSE
  /\ beaconing = 0 /\ leaving = 0 /\ last_start = "ok"

\* A restart takes it all away.
HubLost ==
  /\ s_server' = FALSE /\ leftover' = FALSE /\ s_beacon_task' = FALSE
  /\ s_beacon_stop_requested' = FALSE
  /\ beaconing' = 0 /\ leaving' = 0 /\ last_start' = "ok"

\* Mutant: the request of the last stop is not withdrawn.
hub_link_start_KeepsRequest(outcome) ==
  IF s_server
    THEN UNCHANGED hubVars
    ELSE /\ leftover => outcome = "fails"
         /\ UNCHANGED leftover
         /\ last_start' = outcome
         /\ IF outcome = "fails"
              THEN UNCHANGED <<s_server, s_beacon_task, s_beacon_stop_requested,
                               beaconing, leaving>>
              ELSE /\ s_server' = TRUE
                   /\ UNCHANGED s_beacon_stop_requested
                   /\ s_beacon_task' = (outcome # "no_task")
                   /\ beaconing' = beaconing + (IF outcome = "ok" THEN 1 ELSE 0)
                   /\ leaving' = leaving + (IF outcome = "no_socket" THEN 1 ELSE 0)

\* Nothing when it runs already; the server may come up without a beacon.
\* The port is taken as long as a server that would not stop listens on it.
hub_link_start(outcome) ==
  IF s_server
    THEN UNCHANGED hubVars
    ELSE /\ leftover => outcome = "fails"
         /\ UNCHANGED leftover
         /\ last_start' = outcome
         /\ IF outcome = "fails"
              THEN UNCHANGED <<s_server, s_beacon_task, s_beacon_stop_requested,
                               beaconing, leaving>>
              ELSE /\ s_server' = TRUE
                   /\ s_beacon_stop_requested' = FALSE
                   /\ s_beacon_task' = (outcome # "no_task")
                   /\ beaconing' = beaconing + (IF outcome = "ok" THEN 1 ELSE 0)
                   /\ leaving' = leaving + (IF outcome = "no_socket" THEN 1 ELSE 0)

\* Mutant: the beacon is not told.
hub_link_stop_asks_Nobody ==
  s_server /\ UNCHANGED hubVars

\* hub_link_stop up to the call of httpd_stop, when there is a server.
hub_link_stop_asks ==
  /\ s_server
  /\ s_beacon_stop_requested' = (s_beacon_stop_requested \/ s_beacon_task)
  /\ UNCHANGED <<s_server, leftover, s_beacon_task, beaconing, leaving, last_start>>

\* httpd_stop returns.
hub_link_stop_ends == s_server' = FALSE /\ UNCHANGED <<leftover, beaconVars>>

\* It fails: the server runs on, its handle is dropped all the same.
hub_link_stop_fails ==
  s_server' = FALSE /\ leftover' = TRUE /\ UNCHANGED beaconVars

\* A beacon task looks at the request ...
BeaconLooks ==
  /\ beaconing > 0 /\ s_beacon_stop_requested
  /\ beaconing' = beaconing - 1 /\ leaving' = leaving + 1
  /\ UNCHANGED <<s_server, leftover, s_beacon_task, s_beacon_stop_requested,
                 last_start>>

\* ... and on its way out clears the handle, whose-ever it is by now.
BeaconLeaves ==
  /\ leaving > 0
  /\ leaving' = leaving - 1
  /\ s_beacon_task' = FALSE
  /\ UNCHANGED <<s_server, leftover, s_beacon_stop_requested, beaconing,
                 last_start>>

HubTypeOK ==
  /\ s_server \in BOOLEAN /\ leftover \in BOOLEAN /\ s_beacon_task \in BOOLEAN
  /\ s_beacon_stop_requested \in BOOLEAN
  /\ beaconing \in Nat /\ leaving \in Nat /\ last_start \in StartOutcomes
=============================================================================
