---------------------------- MODULE H264Depacket ----------------------------
(***************************************************************************)
(* components/rtsp_client/src/h264_depacket.c: RTP packets become access   *)
(* units.  One step feeds one packet.  A packet is what the code reads of  *)
(* it: kind of payload, marker, whether it carries an IDR NAL, sequence    *)
(* number.  Its bytes are counted in units, Cap of which fit the buffer.   *)
(*                                                                         *)
(* The camera numbers its packets 1, 2, ...; on the wire the number is     *)
(* taken modulo SeqMod.  On the way a packet may be lost (the camera drops *)
(* it, or the demultiplexer skips it as oversized), doubled or overtaken,  *)
(* but never so far that its number comes round again: see Near.           *)
(***************************************************************************)
EXTENDS Integers, Sequences

CONSTANTS SeqMod,     \* 2^16
          Cap,        \* au_cap, in units
          MaxPackets  \* bound: packets the camera sends

ASSUME DepacketAssumption ==
  SeqMod \in Nat \ {0, 1} /\ Cap \in Nat /\ MaxPackets \in Nat

\* Single NAL, STAP-A, a STAP-A whose lengths do not add up, the parts of a
\* FU-A, no payload, and a NAL type that is not supported.
Kinds == {"nal", "stap", "torn", "start", "middle", "end", "empty", "other"}

\* size: units of the access unit up to this packet, as the camera built it.
Packets == [n : Nat, kind : Kinds, idr : BOOLEAN, marker : BOOLEAN, size : Nat]

NoPacket ==
  [n |-> 0, kind |-> "empty", idr |-> FALSE, marker |-> FALSE, size |-> 0]
NoUnit == [packets |-> <<>>, keyframe |-> FALSE]

VARIABLES au,      \* packets taken since the last access unit ended
          au_len, au_has_idr, fu_active, have_seq, last_seq, discarding,
          out,     \* the access unit this step delivers, or NoUnit
          last,    \* history: number of the packet fed last
          done,    \* history: number of the packet the last unit ended with
          owed,    \* history: "now" if this step owes a unit to the peer,
                   \*   "following" if the next packet in order is to be taken
          sent,    \* the camera: number and size of the packet sent last,
          open,    \*   and the FU-A it is in the middle of
          held     \* a packet that the network still has

depacket == <<au, au_len, au_has_idr, fu_active, have_seq, last_seq, discarding>>
vars == <<depacket, out, last, done, owed, sent, open, held>>

Init ==
  /\ au = <<>> /\ au_len = 0 /\ au_has_idr = FALSE /\ fu_active = FALSE
  /\ have_seq = FALSE /\ last_seq = 0 /\ discarding = FALSE
  /\ out = NoUnit /\ last = 0 /\ done = 0 /\ owed = "no"
  /\ sent = [n |-> 0, size |-> 0] /\ open = "none" /\ held = NoPacket

-----------------------------------------------------------------------------
(* h264_depacket_feed_rtp *)

\* The packet is not the successor of the one before.
Gap(p) == have_seq /\ ((p.n % SeqMod) - last_seq) % SeqMod # 1

\* Mutant: a gap does not reset the access unit.
Kept_Always(p, x, none) == x

\* What a gap leaves of the access unit under construction.
Kept(p, x, none) == IF Gap(p) THEN none ELSE x

\* Of a FU-A only the start can be recovered at.
ContainsIdr(p) == p.idr /\ p.kind \notin {"middle", "end"}

\* Mutant: only a single NAL ends the discarding.
Discards_UntilSingleNal(p) ==
  (discarding \/ Gap(p)) /\ ~(p.idr /\ p.kind = "nal")

Discards(p) == (discarding \/ Gap(p)) /\ ~ContainsIdr(p)

Units(p) == CASE p.kind = "stap" -> 2
              [] p.kind \in {"empty", "other"} -> 0
              [] OTHER -> 1

\* Mutant: a fragment is taken whether or not its start was.
Appends_AnyFragment(p) ==
  p.kind # "torn" /\ Kept(p, au_len, 0) + Units(p) <= Cap

\* Mutant: off by one at the capacity.
Appends_OffByOne(p) ==
  /\ p.kind # "torn"
  /\ p.kind \in {"middle", "end"} => Kept(p, fu_active, FALSE)
  /\ Kept(p, au_len, 0) + Units(p) <= Cap + 1

\* Every append finds room, and a fragment has its start.
Appends(p) ==
  /\ p.kind # "torn"
  /\ p.kind \in {"middle", "end"} => Kept(p, fu_active, FALSE)
  /\ Kept(p, au_len, 0) + Units(p) <= Cap

\* Mutant: the IDR flag outlives its access unit.
reset_au_KeepsFlag ==
  au' = <<>> /\ au_len' = 0 /\ fu_active' = FALSE /\ UNCHANGED au_has_idr

reset_au == au' = <<>> /\ au_len' = 0 /\ au_has_idr' = FALSE /\ fu_active' = FALSE

\* The stream is followed from its first packet on.
Goes(p) == done' = IF have_seq THEN done ELSE p.n - 1

\* Nothing to append: no payload, or still waiting for an IDR.
Ignore(p) ==
  /\ p.kind = "empty" \/ Discards(p)
  /\ discarding' = (discarding \/ Gap(p))
  /\ IF discarding' THEN reset_au
     ELSE au' = Append(au, p) /\ UNCHANGED <<au_len, au_has_idr, fu_active>>
  /\ out' = NoUnit
  /\ Goes(p)

\* Mutant: the next packets go on as if nothing had happened.
GiveUp_GoesOn(p) ==
  /\ p.kind # "empty" /\ ~Discards(p) /\ ~Appends(p)
  /\ discarding' = FALSE
  /\ reset_au
  /\ out' = NoUnit
  /\ Goes(p)

\* Too large or inconsistent: given up until the next IDR.
GiveUp(p) ==
  /\ p.kind # "empty" /\ ~Discards(p) /\ ~Appends(p)
  /\ discarding' = TRUE
  /\ reset_au
  /\ out' = NoUnit
  /\ Goes(p)

HasIdr(p) ==
  Kept(p, au_has_idr, FALSE) \/ (p.idr /\ p.kind \notin {"middle", "end"})

\* flush_au: the callback, unless nothing was appended.
Flush(p) ==
  /\ reset_au
  /\ out' = IF Kept(p, au_len, 0) + Units(p) = 0 THEN NoUnit
            ELSE [packets |-> Append(Kept(p, au, <<>>), p), keyframe |-> HasIdr(p)]
  /\ done' = p.n

Build(p) ==
  /\ au' = Append(Kept(p, au, <<>>), p)
  /\ au_len' = Kept(p, au_len, 0) + Units(p)
  /\ au_has_idr' = HasIdr(p)
  /\ fu_active' = CASE p.kind \in {"start", "middle"} -> TRUE
                    [] p.kind = "end" -> FALSE
                    [] OTHER -> Kept(p, fu_active, FALSE)
  /\ out' = NoUnit
  /\ Goes(p)

\* The packet becomes part of the access unit, and may be its last.
Take(p) ==
  /\ p.kind # "empty" /\ ~Discards(p) /\ Appends(p)
  /\ discarding' = FALSE
  /\ IF p.marker THEN Flush(p) ELSE Build(p)

\* From an IDR on, units are owed as long as all packets come in order, are
\* sound, and leave each unit small enough.
Owed(p) ==
  IF /\ p.kind # "torn" /\ p.size <= Cap
     /\ ContainsIdr(p) \/ (owed # "no" /\ p.n = last + 1)
    THEN IF p.marker /\ p.size > 0 THEN "now" ELSE "following"
    ELSE "no"

feed_rtp(p) ==
  /\ Ignore(p) \/ GiveUp(p) \/ Take(p)
  /\ have_seq' = TRUE
  /\ last_seq' = p.n % SeqMod
  /\ last' = p.n
  /\ owed' = Owed(p)

-----------------------------------------------------------------------------
(* The camera and the network *)

\* A NAL with its IDR flag; a FU-A keeps its own from start to end.  The
\* marker is on the last packet with a payload.
Payload(p) ==
  /\ open = "none" <=> p.kind \notin {"middle", "end"}
  /\ p.idr = CASE p.kind \in {"middle", "end"} -> (open = "idr")
               [] p.kind \in {"empty", "other"} -> FALSE
               [] OTHER -> p.idr
  /\ p.kind \in {"start", "middle", "empty"} => ~p.marker
  /\ open' = CASE p.kind = "start" -> (IF p.idr THEN "idr" ELSE "plain")
               [] p.kind = "middle" -> open
               [] OTHER -> "none"

Sends(p) ==
  /\ p.n = sent.n + 1
  /\ p.size = sent.size + Units(p)
  /\ Payload(p)
  /\ sent' = [n |-> p.n, size |-> IF p.marker THEN 0 ELSE p.size]

\* Fewer than SeqMod packets in a row are lost or overtaken.
Near(p) == have_seq => p.n - last \in (2 - SeqMod)..SeqMod

\* A packet arrives; the network may keep a copy of it.
Arrives(p) ==
  /\ Sends(p) /\ Near(p)
  /\ feed_rtp(p)
  /\ held' \in {held, p}

\* Nothing is fed, hence nothing delivered.
Quiet ==
  /\ out' = NoUnit
  /\ owed' = IF owed = "now" THEN "following" ELSE owed
  /\ UNCHANGED <<depacket, last, done>>

Delayed(p) == Sends(p) /\ held' = p /\ Quiet

Lost(p) == Sends(p) /\ Quiet /\ UNCHANGED held

ArrivesLate ==
  /\ held # NoPacket /\ Near(held)
  /\ feed_rtp(held)
  /\ held' = NoPacket
  /\ UNCHANGED <<sent, open>>

\* The next packet the camera may send.
Offers ==
  [n : {sent.n + 1}, kind : Kinds, idr : BOOLEAN, marker : BOOLEAN,
   size : sent.size .. sent.size + 2]

Next ==
  \/ sent.n < MaxPackets /\ \E p \in Offers : Arrives(p) \/ Delayed(p) \/ Lost(p)
  \/ ArrivesLate

Spec == Init /\ [][Next]_vars

-----------------------------------------------------------------------------
(* Properties *)

Unit == [packets : Seq(Packets), keyframe : BOOLEAN]

DepacketTypes ==
  /\ au \in Seq(Packets) /\ au_len \in 0..Cap
  /\ au_has_idr \in BOOLEAN /\ fu_active \in BOOLEAN
  /\ have_seq \in BOOLEAN /\ last_seq \in 0..SeqMod-1 /\ discarding \in BOOLEAN

WorldTypes ==
  /\ last \in Nat /\ done \in Int /\ owed \in {"no", "following", "now"}
  /\ sent \in [n : Nat, size : Nat] /\ open \in {"none", "idr", "plain"}
  /\ held \in Packets

\* Above all, au_len never exceeds the buffer.
TypeOK == DepacketTypes /\ out \in Unit /\ WorldTypes

Consecutive(s) == \A i \in 1..Len(s)-1 : s[i + 1].n = s[i].n + 1

(* An access unit has no hole, whatever was lost, doubled or overtaken: its *)
(* packets are consecutive ones of the camera (h264_depacket.h:8-10).       *)
NoHole == Consecutive(out.packets)

(* An access unit goes on where the one before ended, or begins with an IDR *)
(* ("次にIDR (type 5) を含むパケットが来るまで以後のデータも破棄する").     *)
KeyAfterLoss ==
  [][out' # NoUnit =>
       LET first == Head(out'.packets)
       IN first.n = done + 1 \/ ContainsIdr(first) \/ ~have_seq]_vars

(* A fragment is only ever delivered behind the start of its NAL.          *)
FragmentsWhole ==
  \A i \in 1..Len(out.packets) :
    out.packets[i].kind \in {"middle", "end"} =>
      \E j \in 1..i-1 : out.packets[j].kind = "start"

(* The keyframe flag tells whether the access unit contains an IDR.        *)
KeyframeFlag ==
  out.keyframe <=> \E i \in 1..Len(out.packets) : ContainsIdr(out.packets[i])

(* Discarding ends with the next IDR: from it on, every unit with anything *)
(* in it is delivered with its marker, as long as packets come in order,   *)
(* are sound and fit au_cap (feed_rtp, discarding).                        *)
Recovers == owed = "now" => out # NoUnit
=============================================================================
