---------------------------- MODULE HubServerProofs ----------------------------
(***************************************************************************)
(* What the operations of the hub server leave alone, for the modules that *)
(* compose it.                                                             *)
(***************************************************************************)
EXTENDS HubServer, TLAPS

\* Off, and off again after a restart.
LEMMA OffType ==
  ASSUME HubOff
  PROVE  HubTypeOK
  BY DEF HubOff, HubTypeOK, StartOutcomes

LEMMA LostType ==
  ASSUME HubLost
  PROVE  HubTypeOK'
  BY DEF HubLost, HubTypeOK, StartOutcomes

LEMMA StandsType ==
  ASSUME HubTypeOK, UNCHANGED hubVars
  PROVE  HubTypeOK'
  BY DEF HubTypeOK, hubVars, beaconVars

\* hub_link_start leaves the types alone.
LEMMA StartType ==
  ASSUME HubTypeOK, NEW o \in StartOutcomes, hub_link_start(o)
  PROVE  HubTypeOK' /\ UNCHANGED leftover
PROOF
  <1>1. CASE s_server
    BY <1>1 DEF hub_link_start, hubVars, beaconVars, HubTypeOK
  <1>2. CASE ~s_server
    <2>1. UNCHANGED leftover /\ leftover' \in BOOLEAN
      BY <1>2, Zenon DEF hub_link_start, HubTypeOK
    <2>2. CASE o = "fails"
      <3>1. UNCHANGED <<s_server, s_beacon_task, s_beacon_stop_requested>>
        BY <1>2, <2>2 DEF hub_link_start
      <3>2. /\ s_server' \in BOOLEAN /\ s_beacon_task' \in BOOLEAN
            /\ s_beacon_stop_requested' \in BOOLEAN
        BY <3>1, Zenon DEF HubTypeOK
      <3>3. UNCHANGED <<beaconing, leaving>> /\ last_start' = o
        BY <1>2, <2>2 DEF hub_link_start
      <3> QED
        BY <2>1, <3>2, <3>3 DEF HubTypeOK
    <2>3. CASE o # "fails"
      <3>1. s_beacon_task' = (o # "no_task")
        BY <1>2, <2>3 DEF hub_link_start
      <3>2. s_beacon_task' \in BOOLEAN
        BY <3>1
      <3>3. beaconing' \in Nat /\ leaving' \in Nat
        BY <1>2, <2>3 DEF hub_link_start, HubTypeOK
      <3>4. s_server' = TRUE /\ s_beacon_stop_requested' = FALSE /\ last_start' = o
        BY <1>2, <2>3 DEF hub_link_start
      <3> QED
        BY <2>1, <3>2, <3>3, <3>4 DEF HubTypeOK
    <2> QED
      BY <2>1, <2>2, <2>3
  <1> QED
    BY <1>1, <1>2

\* So does hub_link_stop, whatever httpd_stop returns.
LEMMA StopType ==
  ASSUME HubTypeOK, hub_link_stop_asks \/ hub_link_stop_ends \/ hub_link_stop_fails
  PROVE  HubTypeOK'
PROOF
  <1>1. CASE hub_link_stop_asks
    BY <1>1 DEF hub_link_stop_asks, HubTypeOK
  <1>2. CASE hub_link_stop_ends \/ hub_link_stop_fails
    <2>1. s_server' = FALSE /\ leftover' \in BOOLEAN
      BY <1>2 DEF hub_link_stop_ends, hub_link_stop_fails, HubTypeOK
    <2>2. UNCHANGED beaconVars
      BY <1>2 DEF hub_link_stop_ends, hub_link_stop_fails
    <2> QED
      BY <2>1, <2>2 DEF HubTypeOK, beaconVars
  <1> QED
    BY <1>1, <1>2

LEMMA BeaconType ==
  ASSUME HubTypeOK, BeaconLooks \/ BeaconLeaves
  PROVE  HubTypeOK' /\ UNCHANGED <<s_server, leftover>>
PROOF
  <1>1. CASE BeaconLooks
    BY <1>1 DEF BeaconLooks, HubTypeOK
  <1>2. CASE BeaconLeaves
    <2>1. leaving' \in Nat
      BY <1>2 DEF BeaconLeaves, HubTypeOK
    <2>2. /\ s_beacon_task' = FALSE
          /\ UNCHANGED <<s_server, leftover, s_beacon_stop_requested, beaconing,
                         last_start>>
      BY <1>2 DEF BeaconLeaves
    <2> QED
      BY <2>1, <2>2 DEF HubTypeOK
  <1> QED
    BY <1>1, <1>2
=============================================================================
