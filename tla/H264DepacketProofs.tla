-------------------------- MODULE H264DepacketProofs --------------------------
(***************************************************************************)
(* What holds of the depacketizer for any buffer, any width of the         *)
(* sequence numbers and any stream that the network cuts, doubles and      *)
(* reorders within Near.                                                   *)
(***************************************************************************)
EXTENDS H264Depacket, TLAPS

-----------------------------------------------------------------------------
(* Sequence numbers *)

LEMMA DivMod ==
  ASSUME NEW n \in Nat, NEW k \in Nat \ {0}
  PROVE  \E q \in Int, r \in Int : n = k * q + r /\ r = n % k
  BY SMTT(30)

LEMMA ModRange ==
  ASSUME NEW n \in Nat, NEW k \in Nat \ {0}
  PROVE  n % k \in 0..k-1
  OBVIOUS

\* Two residues that differ by one, modulo k.
LEMMA SmallDifference ==
  ASSUME NEW k \in Nat \ {0, 1}, NEW d \in Int, -k < d, d < k, d % k = 1
  PROVE  d = 1 \/ d = 1 - k
PROOF
  <1>1. CASE d >= 0
    BY <1>1
  <1>2. CASE d < 0
    <2>1. (d + k) % k = d % k
      OBVIOUS
    <2>2. (d + k) % k = d + k
      BY <1>2
    <2> QED
      BY <2>1, <2>2
  <1> QED
    BY <1>1, <1>2

LEMMA SmallMultiple ==
  ASSUME NEW k \in Nat \ {0}, NEW e \in Int, -k < k * e, k * e < k
  PROVE  e = 0
  OBVIOUS

\* A difference of one modulo k is one, as long as it is not k away.
LEMMA Successor ==
  ASSUME NEW k \in Nat \ {0, 1}, NEW n \in Nat, NEW m \in Nat,
         ((n % k) - (m % k)) % k = 1, n - m \in (2 - k)..k
  PROVE  n = m + 1
PROOF
  <1>1. PICK q1 \in Int, r1 \in Int : n = k * q1 + r1 /\ r1 = n % k
    BY DivMod
  <1>2. PICK q2 \in Int, r2 \in Int : m = k * q2 + r2 /\ r2 = m % k
    BY DivMod
  <1>3. r1 \in 0..k-1 /\ r2 \in 0..k-1
    BY <1>1, <1>2, ModRange
  <1>4. (r1 - r2) % k = 1
    BY <1>1, <1>2
  <1> DEFINE e == q1 - q2
  <1>5. e \in Int /\ k * e = k * q1 - k * q2
    OBVIOUS
  <1>6. n - m = k * e + (r1 - r2)
    BY <1>1, <1>2, <1>5
  <1> HIDE DEF e
  <1>7. r1 - r2 = 1 \/ r1 - r2 = 1 - k
    BY <1>3, <1>4, SmallDifference
  <1>8. CASE r1 - r2 = 1
    <2>1. -k < k * e /\ k * e < k
      BY <1>3, <1>5, <1>6, <1>8
    <2> QED
      BY <1>5, <1>6, <1>8, <2>1, SmallMultiple
  <1>9. CASE r1 - r2 = 1 - k
    <2>1. k * (e - 1) = k * e - k
      BY <1>5
    <2>2. -k < k * (e - 1) /\ k * (e - 1) < k
      BY <1>3, <1>5, <1>6, <1>9, <2>1
    <2>3. e - 1 = 0
      BY <1>5, <2>2, SmallMultiple
    <2> QED
      BY <1>5, <1>6, <1>9, <2>1, <2>3
  <1> QED
    BY <1>7, <1>8, <1>9

\* A quotient and a remainder are the ones of the division.
LEMMA Remainder ==
  ASSUME NEW k \in Nat \ {0}, NEW q \in Int, NEW r \in 0..k-1, NEW n \in Nat, n = k * q + r
  PROVE  n % k = r
PROOF
  <1>1. PICK q1 \in Int, r1 \in Int : n = k * q1 + r1 /\ r1 = n % k
    BY DivMod
  <1>2. r1 \in 0..k-1
    BY <1>1, ModRange
  <1>3. k * (q - q1) = k * q - k * q1
    OBVIOUS
  <1>4. -k < k * (q - q1) /\ k * (q - q1) < k
    BY <1>1, <1>2, <1>3
  <1>5. q - q1 = 0
    BY <1>4, SmallMultiple
  <1>6. q = q1
    BY <1>5
  <1>7. k * q = k * q1
    BY <1>6
  <1>8. n - k * q = r /\ n - k * q1 = r1
    BY <1>1
  <1> QED
    BY <1>1, <1>7, <1>8

\* The successor of a number is one ahead of it, modulo k.
LEMMA OneAhead ==
  ASSUME NEW k \in Nat \ {0, 1}, NEW m \in Nat
  PROVE  (((m + 1) % k) - (m % k)) % k = 1
PROOF
  <1>1. PICK q \in Int, r \in Int : m = k * q + r /\ r = m % k
    BY DivMod
  <1>2. r \in 0..k-1
    BY <1>1, ModRange
  <1>3. CASE r + 1 < k
    <2> DEFINE n == m + 1
               s == r + 1
    <2>1. n \in Nat /\ s \in 0..k-1 /\ n = k * q + s
      BY <1>1, <1>2, <1>3
    <2> HIDE DEF n, s
    <2>2. n % k = s
      BY <2>1, Remainder
    <2>3. 1 % k = 1
      OBVIOUS
    <2>4. s - r = 1
      BY <1>1 DEF s
    <2> QED
      BY <1>1, <2>2, <2>3, <2>4 DEF n
  <1>4. CASE r = k - 1
    <2>1. k * (q + 1) = k * q + k
      OBVIOUS
    <2> DEFINE n == m + 1
               d == q + 1
    <2>2. n \in Nat /\ d \in Int /\ 0 \in 0..k-1 /\ n = k * d + 0
      BY <1>1, <1>4, <2>1
    <2> HIDE DEF n, d
    <2>3. n % k = 0
      BY <2>2, Remainder
    <2>4. (1 - k) % k = (1 - k + k) % k
      OBVIOUS
    <2>5. (1 - k + k) % k = 1
      OBVIOUS
    <2>6. 0 - r = 1 - k
      BY <1>4
    <2> QED
      BY <1>1, <2>3, <2>4, <2>5, <2>6 DEF n
  <1> QED
    BY <1>2, <1>3, <1>4

-----------------------------------------------------------------------------
(* The invariant *)

\* last_seq is what the history says.
SeqInv == last_seq = last % SeqMod

\* An access unit under construction has no hole, ends with the packet fed
\* last, and begins where the one before ended, or with an IDR.
Sound(s) ==
  /\ Consecutive(s)
  /\ s # <<>> =>
       /\ have_seq /\ ~discarding
       /\ s[Len(s)].n = last
       /\ s[1].n = done + 1 \/ ContainsIdr(s[1])
AuInv ==
  /\ Sound(au)
  /\ au = <<>> /\ have_seq /\ ~discarding => done = last

\* Its fragments have their start, its flag tells of an IDR.
Started(s) ==
  \A i \in 1..Len(s) :
    s[i].kind \in {"middle", "end"} => \E j \in 1..i-1 : s[j].kind = "start"
Flagged(s, flag) == flag <=> \E i \in 1..Len(s) : ContainsIdr(s[i])
NalInv ==
  /\ Started(au)
  /\ fu_active => \E j \in 1..Len(au) : au[j].kind = "start"
  /\ Flagged(au, au_has_idr)

\* What the network holds is a packet that the camera sent.
Sane(p) == p \in Packets /\ (p.kind = "empty" => ~p.idr)

IInv ==
  /\ TypeOK /\ SeqInv /\ AuInv /\ NalInv /\ Sane(held)
  /\ NoHole /\ FragmentsWhole /\ KeyframeFlag

LEMMA NoPacketSane == Sane(NoPacket)
  BY DEF Sane, NoPacket, Packets, Kinds

LEMMA EmptyUnit ==
  /\ NoUnit \in Unit /\ NoUnit.packets = <<>> /\ NoUnit.keyframe = FALSE
  BY DEF NoUnit, Unit

LEMMA InitIInv == Init => IInv
PROOF
  <1> SUFFICES ASSUME Init PROVE IInv
    OBVIOUS
  <1>1. DepacketTypes
    <2>1. <<>> \in Seq(Packets) /\ 0 \in 0..Cap /\ 0 \in 0..SeqMod-1
      BY DepacketAssumption
    <2> QED
      BY <2>1 DEF Init, DepacketTypes
  <1>2. WorldTypes
    BY NoPacketSane DEF Init, WorldTypes, Sane
  <1>3. SeqInv
    <2>1. 0 % SeqMod = 0
      BY DepacketAssumption
    <2> QED
      BY <2>1 DEF Init, SeqInv
  <1>4. AuInv /\ NalInv
    BY DEF Init, AuInv, Sound, Consecutive, NalInv, Started, Flagged
  <1>5. out = NoUnit
    BY DEF Init
  <1>6. NoHole /\ FragmentsWhole /\ KeyframeFlag
    BY <1>5, EmptyUnit DEF NoHole, Consecutive, FragmentsWhole, KeyframeFlag
  <1> QED
    BY <1>1, <1>2, <1>3, <1>4, <1>5, <1>6, EmptyUnit, NoPacketSane DEF Init, IInv, TypeOK

-----------------------------------------------------------------------------
(* A packet more *)

LEMMA AppendFacts ==
  ASSUME NEW s \in Seq(Packets), NEW p \in Packets
  PROVE  LET t == Append(s, p)
         IN /\ t \in Seq(Packets) /\ t # <<>>
            /\ Len(s) \in Nat /\ Len(t) = Len(s) + 1
            /\ t[Len(t)] = p
            /\ \A i \in 1..Len(s) : t[i] = s[i]
            /\ s = <<>> <=> Len(s) = 0
  OBVIOUS

LEMMA AppendConsecutive ==
  ASSUME NEW s \in Seq(Packets), NEW p \in Packets, Consecutive(s),
         s # <<>> => p.n = s[Len(s)].n + 1
  PROVE  Consecutive(Append(s, p))
PROOF
  <1> DEFINE t == Append(s, p)
  <1>1. /\ Len(s) \in Nat /\ Len(t) = Len(s) + 1 /\ t[Len(t)] = p
        /\ \A i \in 1..Len(s) : t[i] = s[i]
        /\ s = <<>> <=> Len(s) = 0
    BY AppendFacts
  <1> SUFFICES ASSUME NEW i \in 1..Len(t)-1 PROVE t[i + 1].n = t[i].n + 1
    BY DEF Consecutive
  <1> HIDE DEF t
  <1>2. CASE i < Len(s)
    <2>1. i \in 1..Len(s)-1 /\ i \in 1..Len(s) /\ i + 1 \in 1..Len(s)
      BY <1>1, <1>2
    <2> QED
      BY <1>1, <2>1 DEF Consecutive
  <1>3. CASE i = Len(s)
    <2>1. s # <<>> /\ i \in 1..Len(s) /\ i + 1 = Len(t)
      BY <1>1, <1>3
    <2> QED
      BY <1>1, <1>3, <2>1
  <1> QED
    BY <1>1, <1>2, <1>3

LEMMA AppendStarted ==
  ASSUME NEW s \in Seq(Packets), NEW p \in Packets, Started(s),
         p.kind \in {"middle", "end"} => \E j \in 1..Len(s) : s[j].kind = "start"
  PROVE  /\ Started(Append(s, p))
         /\ (p.kind = "start" \/ \E j \in 1..Len(s) : s[j].kind = "start") =>
              \E j \in 1..Len(Append(s, p)) : Append(s, p)[j].kind = "start"
PROOF
  <1> DEFINE t == Append(s, p)
  <1>1. /\ Len(s) \in Nat /\ Len(t) = Len(s) + 1 /\ t[Len(t)] = p
        /\ \A i \in 1..Len(s) : t[i] = s[i]
    BY AppendFacts
  <1> HIDE DEF t
  <1>2. ASSUME NEW i \in 1..Len(t), t[i].kind \in {"middle", "end"}
        PROVE  \E j \in 1..i-1 : t[j].kind = "start"
    <2>1. CASE i \in 1..Len(s)
      <3>1. PICK j \in 1..i-1 : s[j].kind = "start"
        BY <1>1, <1>2, <2>1 DEF Started
      <3>2. j \in 1..Len(s)
        BY <1>1, <2>1
      <3> QED
        BY <1>1, <3>1, <3>2
    <2>2. CASE i = Len(t)
      <3>1. PICK j \in 1..Len(s) : s[j].kind = "start"
        BY <1>1, <1>2, <2>2
      <3>2. j \in 1..i-1
        BY <1>1, <2>2
      <3> QED
        BY <1>1, <3>1, <3>2
    <2> QED
      BY <1>1, <2>1, <2>2
  <1>3. Started(t)
    BY <1>2 DEF Started
  <1>4. ASSUME p.kind = "start" \/ \E j \in 1..Len(s) : s[j].kind = "start"
        PROVE  \E j \in 1..Len(t) : t[j].kind = "start"
    <2>1. Len(t) \in 1..Len(t) /\ \A j \in 1..Len(s) : j \in 1..Len(t)
      BY <1>1
    <2> QED
      BY <1>1, <1>4, <2>1
  <1> QED
    BY <1>3, <1>4 DEF t

LEMMA AppendFlagged ==
  ASSUME NEW s \in Seq(Packets), NEW p \in Packets, NEW flag, Flagged(s, flag)
  PROVE  Flagged(Append(s, p), flag \/ ContainsIdr(p))
PROOF
  <1> DEFINE t == Append(s, p)
  <1>1. /\ Len(s) \in Nat /\ Len(t) = Len(s) + 1 /\ t[Len(t)] = p
        /\ \A i \in 1..Len(s) : t[i] = s[i]
    BY AppendFacts
  <1>2. Len(t) \in 1..Len(t) /\ \A j \in 1..Len(s) : j \in 1..Len(t)
    BY <1>1
  <1>3. \A j \in 1..Len(t) : j \in 1..Len(s) \/ j = Len(t)
    BY <1>1
  <1> HIDE DEF t
  <1>4. (flag \/ ContainsIdr(p)) => \E i \in 1..Len(t) : ContainsIdr(t[i])
    BY <1>1, <1>2 DEF Flagged
  <1>5. (\E i \in 1..Len(t) : ContainsIdr(t[i])) => (flag \/ ContainsIdr(p))
    BY <1>1, <1>3 DEF Flagged
  <1>6. Flagged(t, flag \/ ContainsIdr(p))
    BY <1>4, <1>5 DEF Flagged
  <1> QED
    BY <1>6 DEF t

\* A packet that shows no gap is the next one.
LEMMA NoGap ==
  ASSUME TypeOK, SeqInv, NEW p \in Packets, Near(p), have_seq, ~Gap(p)
  PROVE  p.n = last + 1
PROOF
  <1>1. p.n \in Nat /\ last \in Nat /\ SeqMod \in Nat \ {0, 1}
    BY DepacketAssumption DEF Packets, TypeOK, WorldTypes
  <1>2. ((p.n % SeqMod) - (last % SeqMod)) % SeqMod = 1
    BY DEF Gap, SeqInv
  <1>3. p.n - last \in (2 - SeqMod)..SeqMod
    BY DEF Near
  <1> QED
    BY <1>1, <1>2, <1>3, Successor

\* What the feed goes on with, and how the packet fits it.
LEMMA KeptUnit ==
  ASSUME IInv, NEW p \in Packets, Near(p), ~Discards(p)
  PROVE  LET k == Kept(p, au, <<>>)
         IN /\ k \in Seq(Packets) /\ Consecutive(k) /\ Started(k)
            /\ k # <<>> => /\ have_seq /\ ~discarding /\ p.n = k[Len(k)].n + 1
                           /\ k[1].n = done + 1 \/ ContainsIdr(k[1])
            /\ k = <<>> => ~have_seq \/ p.n = done + 1 \/ ContainsIdr(p)
            /\ Kept(p, fu_active, FALSE) => \E j \in 1..Len(k) : k[j].kind = "start"
            /\ Flagged(k, Kept(p, au_has_idr, FALSE))
PROOF
  <1>1. CASE Gap(p)
    <2>1. /\ Kept(p, au, <<>>) = <<>> /\ ~Kept(p, fu_active, FALSE)
          /\ Kept(p, au_has_idr, FALSE) = FALSE
      BY <1>1 DEF Kept
    <2>2. ContainsIdr(p)
      BY <1>1 DEF Discards
    <2>3. /\ <<>> \in Seq(Packets) /\ Consecutive(<<>>) /\ Started(<<>>)
          /\ Flagged(<<>>, FALSE)
      BY DEF Consecutive, Started, Flagged
    <2>4. Flagged(Kept(p, au, <<>>), Kept(p, au_has_idr, FALSE))
      BY <2>1, <2>3, Zenon
    <2> QED
      BY <2>1, <2>2, <2>3, <2>4
  <1>2. CASE ~Gap(p)
    <2>1. /\ Kept(p, au, <<>>) = au /\ Kept(p, fu_active, FALSE) = fu_active
          /\ Kept(p, au_has_idr, FALSE) = au_has_idr
      BY <1>2 DEF Kept
    <2>2. au \in Seq(Packets) /\ AuInv /\ NalInv
      BY DEF IInv, TypeOK, DepacketTypes
    <2>6. au \in Seq(Packets) /\ Consecutive(au) /\ NalInv
      BY <2>2 DEF AuInv, Sound
    <2>3. have_seq => p.n = last + 1
      BY <1>2, NoGap DEF IInv
    <2>4. au # <<>> => /\ have_seq /\ ~discarding /\ p.n = au[Len(au)].n + 1
                       /\ au[1].n = done + 1 \/ ContainsIdr(au[1])
      BY <2>2, <2>3 DEF AuInv, Sound
    <2>5. au = <<>> => ~have_seq \/ p.n = done + 1 \/ ContainsIdr(p)
      BY <2>2, <2>3 DEF AuInv, Discards
    <2> QED
      BY <2>1, <2>4, <2>5, <2>6 DEF NalInv
  <1> QED
    BY <1>1, <1>2

\* The access unit with the packet.
LEMMA TakenUnit ==
  ASSUME IInv, NEW p \in Packets, Near(p), ~Discards(p), Appends(p)
  PROVE  LET t == Append(Kept(p, au, <<>>), p)
         IN /\ t \in Seq(Packets) /\ t # <<>> /\ t[Len(t)] = p
            /\ Consecutive(t) /\ Started(t) /\ Flagged(t, HasIdr(p))
            /\ t[1].n = done + 1 \/ ContainsIdr(t[1]) \/ ~have_seq
            /\ ~have_seq => t[1] = p
            /\ (p.kind = "start" \/ Kept(p, fu_active, FALSE)) =>
                 \E j \in 1..Len(t) : t[j].kind = "start"
PROOF
  <1> DEFINE k == Kept(p, au, <<>>)
             t == Append(k, p)
  <1>1. /\ k \in Seq(Packets) /\ Consecutive(k) /\ Started(k)
        /\ k # <<>> => /\ have_seq /\ ~discarding /\ p.n = k[Len(k)].n + 1
                       /\ k[1].n = done + 1 \/ ContainsIdr(k[1])
        /\ k = <<>> => ~have_seq \/ p.n = done + 1 \/ ContainsIdr(p)
        /\ Kept(p, fu_active, FALSE) => \E j \in 1..Len(k) : k[j].kind = "start"
        /\ Flagged(k, Kept(p, au_has_idr, FALSE))
    BY KeptUnit
  <1> HIDE DEF k
  <1>2. /\ t \in Seq(Packets) /\ t # <<>> /\ t[Len(t)] = p
        /\ Len(k) \in Nat /\ Len(t) = Len(k) + 1
        /\ \A i \in 1..Len(k) : t[i] = k[i]
        /\ k = <<>> <=> Len(k) = 0
    BY <1>1, AppendFacts
  <1>3. Consecutive(t)
    BY <1>1, AppendConsecutive
  <1>4. p.kind \in {"middle", "end"} => \E j \in 1..Len(k) : k[j].kind = "start"
    BY <1>1 DEF Appends
  <1>5. /\ Started(t)
        /\ (p.kind = "start" \/ \E j \in 1..Len(k) : k[j].kind = "start") =>
             \E j \in 1..Len(t) : t[j].kind = "start"
    BY <1>1, <1>4, AppendStarted
  <1>6. Flagged(t, Kept(p, au_has_idr, FALSE) \/ ContainsIdr(p))
    BY <1>1, AppendFlagged
  <1>7. Flagged(t, HasIdr(p))
    BY <1>6 DEF HasIdr, ContainsIdr, Flagged
  <1> HIDE DEF t
  <1>8. /\ t[1].n = done + 1 \/ ContainsIdr(t[1]) \/ ~have_seq
        /\ ~have_seq => t[1] = p
    <2>1. CASE k = <<>>
      <3>1. t[1] = p
        BY <1>2, <2>1
      <3> QED
        BY <1>1, <2>1, <3>1
    <2>2. CASE k # <<>>
      <3>1. 1 \in 1..Len(k)
        BY <1>2, <2>2
      <3> QED
        BY <1>1, <1>2, <2>2, <3>1
    <2> QED
      BY <2>1, <2>2
  <1> QED
    BY <1>1, <1>2, <1>3, <1>5, <1>7, <1>8 DEF t, k

\* What a feed does to the depacketizer and its history.
Fed(p) == have_seq' = TRUE /\ last_seq' = p.n % SeqMod /\ last' = p.n

Good ==
  /\ DepacketTypes /\ out \in Unit /\ done \in Int
  /\ AuInv /\ NalInv /\ NoHole /\ FragmentsWhole /\ KeyframeFlag

LEMMA SeqType ==
  ASSUME NEW p \in Packets, Fed(p)
  PROVE  last_seq' \in 0..SeqMod-1 /\ last' \in Nat /\ have_seq' = TRUE /\ SeqInv'
PROOF
  <1>1. p.n \in Nat /\ SeqMod \in Nat \ {0}
    BY DepacketAssumption DEF Packets
  <1>2. p.n % SeqMod \in 0..SeqMod-1
    BY <1>1, ModRange
  <1> QED
    BY <1>1, <1>2 DEF Fed, SeqInv

LEMMA QuietUnit ==
  ASSUME out' = NoUnit
  PROVE  out' \in Unit /\ NoHole' /\ FragmentsWhole' /\ KeyframeFlag'
  BY EmptyUnit DEF NoHole, Consecutive, FragmentsWhole, KeyframeFlag

LEMMA GoesType ==
  ASSUME IInv, NEW p \in Packets, Goes(p)
  PROVE  done' \in Int
  BY DEF IInv, TypeOK, WorldTypes, Packets, Goes

\* Empty again: what follows is looked at from its first packet on.
LEMMA ResetGood ==
  ASSUME reset_au, NEW p \in Packets, Fed(p), discarding' \in BOOLEAN,
         discarding' \/ done' = p.n
  PROVE  DepacketTypes' /\ AuInv' /\ NalInv'
PROOF
  <1>1. /\ au' = <<>> /\ au_len' = 0 /\ au_has_idr' = FALSE /\ fu_active' = FALSE
    BY DEF reset_au
  <1>2. <<>> \in Seq(Packets) /\ 0 \in 0..Cap
    BY DepacketAssumption
  <1>3. DepacketTypes'
    BY <1>1, <1>2, SeqType DEF DepacketTypes
  <1>4. AuInv'
    BY <1>1 DEF AuInv, Sound, Consecutive, Fed
  <1>5. NalInv'
    BY <1>1 DEF NalInv, Started, Flagged
  <1> QED
    BY <1>3, <1>4, <1>5

LEMMA GiveUpGood ==
  ASSUME IInv, NEW p \in Packets, Fed(p), GiveUp(p)
  PROVE  Good'
PROOF
  <1>1. reset_au /\ discarding' = TRUE /\ out' = NoUnit /\ Goes(p)
    BY DEF GiveUp
  <1>2. DepacketTypes' /\ AuInv' /\ NalInv'
    BY <1>1, ResetGood
  <1> QED
    BY <1>1, <1>2, QuietUnit, GoesType DEF Good

LEMMA IgnoreGood ==
  ASSUME IInv, NEW p \in Packets, Near(p), p.kind = "empty" => ~p.idr, Fed(p), Ignore(p)
  PROVE  Good'
PROOF
  <1>1. out' = NoUnit /\ Goes(p) /\ discarding' = (discarding \/ Gap(p))
    BY DEF Ignore
  <1>2. CASE discarding \/ Gap(p)
    <2>1. discarding' = TRUE /\ reset_au
      BY <1>1, <1>2 DEF Ignore
    <2>2. DepacketTypes' /\ AuInv' /\ NalInv'
      BY <2>1, ResetGood
    <2> QED
      BY <1>1, <2>2, QuietUnit, GoesType DEF Good
  <1>3. CASE ~(discarding \/ Gap(p))
    <2>1. /\ discarding' = FALSE /\ ~Discards(p)
          /\ au' = Append(au, p) /\ UNCHANGED <<au_len, au_has_idr, fu_active>>
      BY <1>1, <1>3 DEF Ignore, Discards
    <2>2. p.kind = "empty" /\ ~ContainsIdr(p)
      BY <2>1 DEF Ignore, ContainsIdr
    <2>3. /\ Kept(p, au, <<>>) = au /\ Kept(p, au_has_idr, FALSE) = au_has_idr
          /\ Kept(p, fu_active, FALSE) = fu_active
      BY <1>3 DEF Kept
    <2>4. /\ au \in Seq(Packets) /\ Consecutive(au) /\ Started(au)
          /\ au # <<>> => /\ have_seq /\ ~discarding /\ p.n = au[Len(au)].n + 1
                          /\ au[1].n = done + 1 \/ ContainsIdr(au[1])
          /\ au = <<>> => ~have_seq \/ p.n = done + 1 \/ ContainsIdr(p)
          /\ fu_active => \E j \in 1..Len(au) : au[j].kind = "start"
      BY <2>1, <2>3, KeptUnit
    <2>5. /\ au' \in Seq(Packets) /\ au' # <<>> /\ au'[Len(au')] = p
          /\ Len(au) \in Nat
          /\ \A i \in 1..Len(au) : au'[i] = au[i]
          /\ au = <<>> <=> Len(au) = 0
      BY <2>1, <2>4, AppendFacts
    <2>6. Consecutive(au')
      BY <2>1, <2>4, AppendConsecutive
    <2>7. /\ Started(au')
          /\ (\E j \in 1..Len(au) : au[j].kind = "start") =>
               \E j \in 1..Len(au') : au'[j].kind = "start"
      BY <2>1, <2>2, <2>4, AppendStarted
    <2>8. Flagged(au, au_has_idr)
      BY DEF IInv, NalInv
    <2>9. Flagged(au', au_has_idr \/ ContainsIdr(p))
      BY <2>1, <2>4, <2>8, AppendFlagged
    <2>10. NalInv'
      BY <2>1, <2>2, <2>4, <2>7, <2>9 DEF NalInv, Flagged
    <2>11. au'[1].n = done' + 1 \/ ContainsIdr(au'[1])
      <3>1. CASE have_seq
        BY <1>1, <2>1, <2>4, <2>5, <3>1 DEF Goes
      <3>2. CASE ~have_seq
        <4>1. au'[1] = p
          BY <2>1, <2>4, <3>2
        <4>2. done' = p.n - 1 /\ p.n \in Nat
          BY <1>1, <3>2 DEF Goes, Packets
        <4> QED
          BY <4>1, <4>2
      <3> QED
        BY <3>1, <3>2
    <2>12. AuInv'
      BY <2>1, <2>5, <2>6, <2>11 DEF AuInv, Sound, Fed
    <2>13. DepacketTypes'
      BY <2>1, <2>5, SeqType DEF IInv, TypeOK, DepacketTypes
    <2> QED
      BY <1>1, <2>10, <2>12, <2>13, QuietUnit, GoesType DEF Good
  <1> QED
    BY <1>2, <1>3

LEMMA TakeGood ==
  ASSUME IInv, NEW p \in Packets, Near(p), Fed(p), Take(p)
  PROVE  Good'
PROOF
  <1> DEFINE t == Append(Kept(p, au, <<>>), p)
             len == Kept(p, au_len, 0) + Units(p)
  <1>1. ~Discards(p) /\ Appends(p) /\ discarding' = FALSE
    BY DEF Take
  <1>2. /\ t \in Seq(Packets) /\ t # <<>> /\ t[Len(t)] = p
        /\ Consecutive(t) /\ Started(t) /\ Flagged(t, HasIdr(p))
        /\ t[1].n = done + 1 \/ ContainsIdr(t[1]) \/ ~have_seq
        /\ ~have_seq => t[1] = p
        /\ (p.kind = "start" \/ Kept(p, fu_active, FALSE)) =>
             \E j \in 1..Len(t) : t[j].kind = "start"
    BY <1>1, TakenUnit
  <1>3. len \in 0..Cap
    <2>1. au_len \in Nat
      BY DEF IInv, TypeOK, DepacketTypes
    <2>2. Kept(p, au_len, 0) \in Nat /\ Units(p) \in Nat
      BY <2>1 DEF Kept, Units
    <2> QED
      BY <1>1, <2>2, DepacketAssumption DEF Appends
  <1>4. HasIdr(p) \in BOOLEAN /\ Kept(p, fu_active, FALSE) \in BOOLEAN
    BY DEF IInv, TypeOK, DepacketTypes, HasIdr, Kept
  <1>5. p.n \in Nat
    BY DEF Packets
  <1>6. CASE p.marker
    <2>1. Flush(p)
      BY <1>6 DEF Take
    <2>2. reset_au /\ done' = p.n
      BY <2>1 DEF Flush
    <2>3. DepacketTypes' /\ AuInv' /\ NalInv'
      BY <1>1, <2>2, ResetGood
    <2>4. CASE out' = NoUnit
      BY <1>5, <2>2, <2>3, <2>4, QuietUnit DEF Good
    <2>5. CASE out' = [packets |-> t, keyframe |-> HasIdr(p)]
      <3> HIDE DEF t
      <3>1. out'.packets = t /\ out'.keyframe = HasIdr(p) /\ out' \in Unit
        BY <1>2, <1>4, <2>5 DEF Unit
      <3>2. NoHole' /\ FragmentsWhole'
        BY <1>2, <3>1 DEF NoHole, FragmentsWhole, Started, Consecutive
      <3>3. KeyframeFlag'
        BY <1>2, <3>1 DEF KeyframeFlag, Flagged
      <3> QED
        BY <1>5, <2>2, <2>3, <3>1, <3>2, <3>3 DEF Good
    <2> QED
      BY <2>1, <2>4, <2>5 DEF Flush
  <1>7. CASE ~p.marker
    <2>1. Build(p)
      BY <1>7 DEF Take
    <2>2. /\ au' = t /\ au_len' = len /\ au_has_idr' = HasIdr(p)
          /\ out' = NoUnit /\ Goes(p)
      BY <2>1 DEF Build
    <2>3. fu_active' = CASE p.kind \in {"start", "middle"} -> TRUE
                         [] p.kind = "end" -> FALSE
                         [] OTHER -> Kept(p, fu_active, FALSE)
      BY <2>1 DEF Build
    <2> HIDE DEF t, len
    <2>4. /\ fu_active' \in BOOLEAN
          /\ fu_active' => p.kind = "start" \/ Kept(p, fu_active, FALSE)
      <3>1. CASE p.kind \in {"start", "middle"}
        BY <1>1, <2>3, <3>1 DEF Appends
      <3>2. CASE p.kind = "end"
        BY <2>3, <3>2
      <3>3. CASE p.kind \notin {"start", "middle", "end"}
        <4>1. fu_active' = Kept(p, fu_active, FALSE)
          BY <2>3, <3>3
        <4> QED
          BY <1>4, <4>1
      <3> QED
        BY <3>1, <3>2, <3>3
    <2>5. DepacketTypes'
      BY <1>1, <1>2, <1>3, <1>4, <2>2, <2>4, SeqType DEF DepacketTypes
    <2>6. NalInv'
      BY <1>2, <2>2, <2>4 DEF NalInv
    <2>7. t[1].n = done' + 1 \/ ContainsIdr(t[1])
      <3>1. CASE have_seq
        BY <1>2, <2>2, <3>1 DEF Goes
      <3>2. CASE ~have_seq
        <4>1. done' + 1 = p.n
          BY <1>5, <2>2, <3>2 DEF Goes
        <4> QED
          BY <1>2, <3>2, <4>1
      <3> QED
        BY <3>1, <3>2
    <2>8. AuInv'
      BY <1>1, <1>2, <2>2, <2>7 DEF AuInv, Sound, Fed
    <2> QED
      BY <2>2, <2>5, <2>6, <2>8, QuietUnit, GoesType DEF Good
  <1> QED
    BY <1>6, <1>7

LEMMA FeedGood ==
  ASSUME IInv, NEW p, Sane(p), Near(p), feed_rtp(p)
  PROVE  Good' /\ SeqInv' /\ last' \in Nat /\ owed' \in {"no", "following", "now"}
PROOF
  <1>1. p \in Packets /\ Fed(p)
    BY DEF Sane, feed_rtp, Fed
  <1>2. Good'
    BY <1>1, IgnoreGood, GiveUpGood, TakeGood DEF feed_rtp, Sane
  <1>3. owed' \in {"no", "following", "now"}
    BY DEF feed_rtp, Owed
  <1> QED
    BY <1>1, <1>2, <1>3, SeqType

LEMMA QuietGood ==
  ASSUME IInv, Quiet
  PROVE  Good' /\ SeqInv' /\ last' \in Nat /\ owed' \in {"no", "following", "now"}
PROOF
  <1>1. UNCHANGED <<depacket, last, done>> /\ out' = NoUnit
    BY DEF Quiet
  <1>2. DepacketTypes' /\ AuInv' /\ NalInv' /\ SeqInv'
    BY <1>1 DEF IInv, TypeOK, DepacketTypes, AuInv, Sound, NalInv, SeqInv, depacket
  <1>3. owed' \in {"no", "following", "now"} /\ done' \in Int /\ last' \in Nat
    BY <1>1 DEF IInv, TypeOK, WorldTypes, Quiet
  <1> QED
    BY <1>1, <1>2, <1>3, QuietUnit DEF Good

-----------------------------------------------------------------------------
(* The camera and the network *)

LEMMA SendsType ==
  ASSUME IInv, NEW p \in Offers, Sends(p)
  PROVE  Sane(p) /\ sent' \in [n : Nat, size : Nat] /\ open' \in {"none", "idr", "plain"}
PROOF
  <1>1. sent.n \in Nat /\ sent.size \in Nat
    BY DEF IInv, TypeOK, WorldTypes
  <1>2. p \in Packets
    BY <1>1 DEF Offers, Packets
  <1>3. p.kind = "empty" => ~p.idr
    BY DEF Sends, Payload
  <1>4. sent' \in [n : Nat, size : Nat]
    BY <1>2 DEF Sends, Packets
  <1>5. open' \in {"none", "idr", "plain"}
    BY DEF Sends, Payload, IInv, TypeOK, WorldTypes
  <1> QED
    BY <1>2, <1>3, <1>4, <1>5 DEF Sane

LEMMA StepIInv ==
  ASSUME Good', SeqInv', last' \in Nat, owed' \in {"no", "following", "now"},
         sent' \in [n : Nat, size : Nat], open' \in {"none", "idr", "plain"}, Sane(held)'
  PROVE  IInv'
  BY DEF Good, IInv, TypeOK, WorldTypes, Sane

LEMMA NextIInv == IInv /\ [Next]_vars => IInv'
PROOF
  <1> SUFFICES ASSUME IInv, [Next]_vars PROVE IInv'
    OBVIOUS
  <1>1. /\ Sane(held) /\ sent \in [n : Nat, size : Nat]
        /\ open \in {"none", "idr", "plain"}
    BY DEF IInv, TypeOK, WorldTypes
  <1>2. ASSUME NEW p \in Offers, Arrives(p) \/ Delayed(p) \/ Lost(p) PROVE IInv'
    <2>1. Sends(p) /\ held' \in {held, p}
      BY <1>2 DEF Arrives, Delayed, Lost
    <2>2. Sane(p) /\ sent' \in [n : Nat, size : Nat] /\ open' \in {"none", "idr", "plain"}
      BY <2>1, SendsType
    <2>3. Sane(held)'
      BY <1>1, <2>1, <2>2 DEF Sane
    <2>4. Good' /\ SeqInv' /\ last' \in Nat /\ owed' \in {"no", "following", "now"}
      BY <1>2, <2>2, FeedGood, QuietGood DEF Arrives, Delayed, Lost
    <2> QED
      BY <2>2, <2>3, <2>4, StepIInv
  <1>3. CASE ArrivesLate
    <2>1. Good' /\ SeqInv' /\ last' \in Nat /\ owed' \in {"no", "following", "now"}
      BY <1>1, <1>3, FeedGood DEF ArrivesLate
    <2>2. Sane(held)' /\ UNCHANGED <<sent, open>>
      BY <1>3, NoPacketSane DEF ArrivesLate, Sane
    <2> QED
      BY <1>1, <2>1, <2>2, StepIInv
  <1>4. CASE UNCHANGED vars
    BY <1>4 DEF vars, depacket, IInv, TypeOK, DepacketTypes, WorldTypes, SeqInv, AuInv,
       Sound, NalInv, Sane, NoHole, FragmentsWhole, KeyframeFlag
  <1> QED
    BY <1>2, <1>3, <1>4 DEF Next

LEMMA AlwaysIInv == Spec => []IInv
  BY InitIInv, NextIInv, PTL DEF Spec

-----------------------------------------------------------------------------
(* Recovery *)

\* A packet as the camera builds it.
Built(p) ==
  /\ Sane(p) /\ Units(p) <= p.size
  /\ p.kind = "other" => ~p.idr
  /\ p.kind \in {"start", "middle", "empty"} => ~p.marker

\* The order of the numbers: neither the feed nor the network is ahead of
\* the camera.
NumberInv ==
  /\ last <= sent.n /\ held.n <= sent.n /\ (held # NoPacket => held.n > 0)
  /\ ~have_seq => au_len = 0

\* What is under construction is a part of what the camera built up to the
\* packet fed last, hence fits when the whole does.
SizeInv ==
  /\ last = sent.n => au_len <= sent.size
  /\ held.n = last + 1 => au_len + Units(held) <= held.size
  /\ held.n = sent.n => sent.size = IF held.marker THEN 0 ELSE held.size

\* As long as units are owed, the one under construction is not empty unless
\* that of the camera is.
FillInv ==
  /\ owed # "no" /\ last = sent.n /\ sent.size > 0 => au_len > 0
  /\ owed # "no" /\ held.n = last + 1 /\ held.size > 0 => au_len + Units(held) > 0

\* As long as units are owed, a FU-A that the camera is in the middle of is one
\* that the depacketizer is in the middle of.
FragmentInv ==
  /\ owed # "no" /\ last = sent.n /\ open # "none" => fu_active
  /\ owed # "no" /\ held.n = last + 1 /\ held.kind \in {"middle", "end"} =>
       fu_active
  /\ held.n = sent.n => (open # "none" <=> held.kind \in {"start", "middle"})

\* As long as units are owed, nothing is thrown away.
OwedInv == owed # "no" => ~discarding /\ have_seq

RecInv ==
  /\ NumberInv /\ SizeInv /\ FillInv /\ FragmentInv /\ OwedInv
  /\ Built(held) /\ Recovers

\* The successor shows no gap.
LEMMA NextHasNoGap ==
  ASSUME IInv, NEW p \in Packets, p.n = last + 1
  PROVE  ~Gap(p)
PROOF
  <1>1. last \in Nat /\ last_seq = last % SeqMod /\ SeqMod \in Nat \ {0, 1}
    BY DepacketAssumption DEF IInv, TypeOK, WorldTypes, SeqInv
  <1>2. (((last + 1) % SeqMod) - (last % SeqMod)) % SeqMod = 1
    BY <1>1, OneAhead
  <1> QED
    BY <1>1, <1>2 DEF Gap

\* What is fed fits what is under construction.
Fits(p) ==
  /\ have_seq /\ p.n = last + 1 => au_len + Units(p) <= p.size
  /\ ~have_seq => au_len = 0
  /\ owed # "no" /\ p.n = last + 1 /\ p.size > 0 => au_len + Units(p) > 0
  /\ owed # "no" /\ p.n = last + 1 /\ p.kind \in {"middle", "end"} => fu_active

\* The numbers a feed adds up.
LEMMA KeptLen ==
  ASSUME IInv, NEW p, Built(p), Near(p), Fits(p)
  PROVE  /\ p \in Packets /\ p.n \in Nat /\ p.size \in Nat
         /\ au_len \in Nat /\ last \in Nat /\ Cap \in Nat
         /\ Units(p) \in 0..2
         /\ p.kind \notin {"empty", "other"} => Units(p) > 0
         /\ Kept(p, au_len, 0) \in Nat
         /\ Kept(p, au_len, 0) + Units(p) <= p.size
         /\ ~Gap(p) => au_len + Units(p) <= p.size
PROOF
  <1>1. p \in Packets /\ p.n \in Nat /\ p.size \in Nat
    BY DEF Built, Sane, Packets
  <1>2. au_len \in Nat /\ last \in Nat /\ Cap \in Nat
    BY DepacketAssumption DEF IInv, TypeOK, DepacketTypes, WorldTypes
  <1>3. Units(p) \in 0..2 /\ (p.kind \notin {"empty", "other"} => Units(p) > 0)
    BY DEF Units
  <1>4. ~Gap(p) => au_len + Units(p) <= p.size
    <2>1. CASE have_seq
      BY <1>1, <2>1, NoGap DEF Fits, IInv
    <2>2. CASE ~have_seq
      BY <1>1, <1>3, <2>2 DEF Fits, Built
    <2> QED
      BY <2>1, <2>2
  <1> QED
    BY <1>1, <1>2, <1>3, <1>4 DEF Kept, Built

\* A packet of a unit that is owed is taken, or has no payload.
LEMMA OwedTaken ==
  ASSUME IInv, NEW p, Built(p), Near(p), Fits(p), OwedInv, feed_rtp(p),
         owed' # "no"
  PROVE  \/ Take(p)
         \/ /\ p.kind = "empty" /\ Ignore(p) /\ ~discarding'
            /\ owed # "no" /\ p.n = last + 1 /\ ~p.marker
PROOF
  <1>1. /\ p.kind # "torn" /\ p.size <= Cap
        /\ ContainsIdr(p) \/ (owed # "no" /\ p.n = last + 1)
    BY DEF feed_rtp, Owed
  <1>2. owed # "no" /\ p.n = last + 1 => ~discarding /\ ~Gap(p)
    BY KeptLen, NextHasNoGap DEF OwedInv
  <1>3. ~Discards(p)
    BY <1>1, <1>2 DEF Discards
  <1>4. p.kind \in {"middle", "end"} => Kept(p, fu_active, FALSE)
    <2> SUFFICES ASSUME p.kind \in {"middle", "end"} PROVE Kept(p, fu_active, FALSE)
      OBVIOUS
    <2>1. owed # "no" /\ p.n = last + 1
      BY <1>1 DEF ContainsIdr
    <2>2. fu_active /\ ~Gap(p)
      BY <1>2, <2>1 DEF Fits
    <2> QED
      BY <2>2 DEF Kept
  <1>5. Kept(p, au_len, 0) + Units(p) <= Cap
    BY <1>1, KeptLen
  <1>6. Appends(p)
    BY <1>1, <1>4, <1>5 DEF Appends
  <1>7. CASE p.kind = "empty"
    <2>1. ~ContainsIdr(p)
      BY <1>7 DEF Built, Sane, ContainsIdr
    <2>2. owed # "no" /\ p.n = last + 1
      BY <1>1, <2>1
    <2>3. ~discarding /\ ~Gap(p)
      BY <1>2, <2>2
    <2>4. Ignore(p)
      BY <1>7 DEF feed_rtp, GiveUp, Take
    <2>5. discarding' = (discarding \/ Gap(p))
      BY <2>4 DEF Ignore
    <2> QED
      BY <1>7, <2>2, <2>3, <2>4, <2>5 DEF Built
  <1>8. CASE p.kind # "empty"
    BY <1>3, <1>6, <1>8 DEF feed_rtp, Ignore, GiveUp
  <1> QED
    BY <1>7, <1>8

\* What the feed leaves behind.
FedRec(p) ==
  /\ au_len' <= IF p.marker THEN 0 ELSE p.size
  /\ owed' # "no" /\ ~p.marker /\ p.size > 0 => au_len' > 0
  /\ owed' # "no" /\ p.kind \in {"start", "middle"} => fu_active'
  /\ OwedInv' /\ Recovers'

LEMMA FedLen ==
  ASSUME IInv, NEW p, Built(p), Near(p), Fits(p), feed_rtp(p)
  PROVE  au_len' <= IF p.marker THEN 0 ELSE p.size
PROOF
  <1> USE KeptLen
  <1>1. CASE Ignore(p)
    <2>1. CASE discarding'
      BY <1>1, <2>1 DEF Ignore, reset_au
    <2>2. CASE ~discarding'
      <3>1. ~Gap(p) /\ p.kind = "empty" /\ au_len' = au_len
        BY <1>1, <2>2 DEF Ignore, Discards
      <3> QED
        BY <3>1 DEF Built
    <2> QED
      BY <2>1, <2>2
  <1>2. CASE GiveUp(p)
    BY <1>2 DEF GiveUp, reset_au
  <1>3. CASE Take(p)
    <2>1. CASE p.marker
      BY <1>3, <2>1 DEF Take, Flush, reset_au
    <2>2. CASE ~p.marker
      <3>1. au_len' = Kept(p, au_len, 0) + Units(p)
        BY <1>3, <2>2 DEF Take, Build
      <3> QED
        BY <2>2, <3>1
    <2> QED
      BY <2>1, <2>2
  <1> QED
    BY <1>1, <1>2, <1>3 DEF feed_rtp

LEMMA FeedRec ==
  ASSUME IInv, NEW p, Built(p), Near(p), Fits(p), OwedInv, feed_rtp(p)
  PROVE  FedRec(p)
PROOF
  <1>1. owed' = "now" => p.marker /\ p.size > 0
    BY DEF feed_rtp, Owed
  <1>2. have_seq'
    BY DEF feed_rtp
  <1>3. owed' # "no" =>
          \/ p.kind \notin {"empty", "other"}
          \/ owed # "no" /\ p.n = last + 1
    BY DEF feed_rtp, Owed, Built, Sane, ContainsIdr
  <1>4. owed' # "no" /\ p.size > 0 => Kept(p, au_len, 0) + Units(p) > 0
    <2>1. CASE p.kind \notin {"empty", "other"}
      BY <2>1, KeptLen
    <2>2. CASE owed # "no" /\ p.n = last + 1
      <3>1. ~Gap(p) /\ (p.size > 0 => au_len + Units(p) > 0)
        BY <2>2, KeptLen, NextHasNoGap DEF Fits
      <3> QED
        BY <3>1 DEF Kept
    <2> QED
      BY <1>3, <2>1, <2>2
  <1>5. OwedInv'
    <2> SUFFICES ASSUME owed' # "no" PROVE ~discarding'
      BY <1>2 DEF OwedInv
    <2>1. CASE Take(p)
      BY <2>1 DEF Take
    <2> QED
      BY <2>1, OwedTaken
  <1>6. Recovers'
    <2> SUFFICES ASSUME owed' = "now" PROVE out' # NoUnit
      BY DEF Recovers
    <2>1. Take(p) /\ p.marker /\ p.size > 0
      BY <1>1, OwedTaken
    <2>2. out' = [packets |-> Append(Kept(p, au, <<>>), p), keyframe |-> HasIdr(p)]
      BY <1>4, <2>1, KeptLen DEF Take, Flush
    <2>3. Kept(p, au, <<>>) \in Seq(Packets) /\ p \in Packets
      BY KeptLen DEF Kept, IInv, TypeOK, DepacketTypes
    <2>4. Append(Kept(p, au, <<>>), p) # <<>>
      BY <2>3, AppendFacts
    <2> QED
      BY <2>2, <2>4, EmptyUnit
  <1>7. owed' # "no" /\ ~p.marker /\ p.size > 0 => au_len' > 0
    <2> SUFFICES ASSUME owed' # "no", ~p.marker, p.size > 0 PROVE au_len' > 0
      OBVIOUS
    <2>1. CASE Take(p)
      BY <1>4, <2>1 DEF Take, Build
    <2>2. CASE p.kind = "empty" /\ Ignore(p) /\ ~discarding' /\ owed # "no" /\ p.n = last + 1
      <3>1. au_len' = au_len /\ Units(p) = 0
        BY <2>2 DEF Ignore, Units
      <3> QED
        BY <2>2, <3>1, KeptLen DEF Fits
    <2> QED
      BY <2>1, <2>2, OwedTaken
  <1>8. owed' # "no" /\ p.kind \in {"start", "middle"} => fu_active'
    <2> SUFFICES ASSUME owed' # "no", p.kind \in {"start", "middle"} PROVE fu_active'
      OBVIOUS
    <2>1. ~p.marker
      BY DEF Built
    <2>2. Build(p)
      BY <2>1, OwedTaken DEF Take
    <2> QED
      BY <2>2 DEF Build
  <1> QED
    BY <1>5, <1>6, <1>7, <1>8, FedLen DEF FedRec

\* The packet the camera sends next fits, when it comes at once.
LEMMA SentFits ==
  ASSUME IInv, RecInv, NEW p \in Offers, Sends(p)
  PROVE  /\ Built(p) /\ Fits(p)
         /\ p.n = sent.n + 1 /\ sent'.n = p.n /\ p.n \in Nat
         /\ sent.n \in Nat /\ last \in Nat /\ held.n \in Nat
         /\ sent'.size = (IF p.marker THEN 0 ELSE p.size)
         /\ open' # "none" <=> p.kind \in {"start", "middle"}
PROOF
  <1>1. /\ sent.n \in Nat /\ sent.size \in Nat /\ last \in Nat
        /\ held.n \in Nat /\ au_len \in Nat
    BY DEF IInv, TypeOK, WorldTypes, DepacketTypes, Packets
  <1>2. p \in Packets /\ Sane(p)
    BY SendsType DEF Sane
  <1>3. Units(p) \in 0..2
    BY DEF Units
  <1>4. p.kind = "other" => ~p.idr
    BY DEF Sends, Payload
  <1>5. Built(p)
    BY <1>1, <1>2, <1>3, <1>4 DEF Sends, Payload, Built
  <1>6. p.n = sent.n + 1 /\ p.size = sent.size + Units(p)
    BY DEF Sends
  <1>7. p.kind \in {"middle", "end"} => open # "none"
    BY DEF Sends, Payload
  <1>8. Fits(p)
    BY <1>1, <1>3, <1>6, <1>7 DEF RecInv, NumberInv, SizeInv, FillInv, FragmentInv, Fits
  <1>9. open' # "none" <=> p.kind \in {"start", "middle"}
    BY <1>7 DEF Sends, Payload
  <1> QED
    BY <1>1, <1>5, <1>6, <1>8, <1>9 DEF Sends

LEMMA NoPacketBuilt == Built(NoPacket) /\ NoPacket.n = 0
  BY NoPacketSane DEF Built, NoPacket, Units

\* A feed leaves every part of RecInv, whatever the network then holds.
LEMMA ArrivesRec ==
  ASSUME IInv, RecInv, NEW p \in Offers, Arrives(p)
  PROVE  RecInv'
PROOF
  <1>1. Sends(p) /\ Near(p) /\ feed_rtp(p) /\ held' \in {held, p}
    BY DEF Arrives
  <1>2. /\ Built(p) /\ Fits(p)
        /\ p.n = sent.n + 1 /\ sent'.n = p.n /\ p.n \in Nat
        /\ sent.n \in Nat /\ last \in Nat /\ held.n \in Nat
        /\ sent'.size = (IF p.marker THEN 0 ELSE p.size)
        /\ open' # "none" <=> p.kind \in {"start", "middle"}
    BY <1>1, SentFits
  <1>3. FedRec(p) /\ last' = p.n /\ have_seq' = TRUE
    BY <1>1, <1>2, FeedRec DEF RecInv, feed_rtp
  <1>4. held'.n <= p.n /\ held'.n \in Nat /\ (held'.n = p.n => held' = p)
    BY <1>1, <1>2 DEF RecInv, NumberInv
  <1>5. NumberInv'
    BY <1>1, <1>2, <1>3, <1>4 DEF NumberInv, RecInv
  <1>6. SizeInv'
    BY <1>2, <1>3, <1>4 DEF SizeInv, FedRec
  <1>7. FragmentInv'
    BY <1>2, <1>3, <1>4 DEF FragmentInv, FedRec
  <1>8. Built(held)'
    BY <1>1, <1>2 DEF RecInv, Built, Sane, Units
  <1>9. FillInv'
    BY <1>2, <1>3, <1>4 DEF FillInv, FedRec
  <1> QED
    BY <1>3, <1>5, <1>6, <1>7, <1>8, <1>9 DEF RecInv, FedRec

\* A packet that comes late has waited for its turn, or shows a gap.
LEMMA LateRec ==
  ASSUME IInv, RecInv, ArrivesLate
  PROVE  RecInv'
PROOF
  <1>1. /\ Near(held) /\ feed_rtp(held) /\ held' = NoPacket
        /\ UNCHANGED <<sent, open>>
    BY DEF ArrivesLate
  <1>2. /\ held.n \in Nat /\ sent.n \in Nat /\ last \in Nat /\ au_len \in Nat
        /\ held.n > 0 /\ held.n <= sent.n
    BY DEF IInv, TypeOK, WorldTypes, DepacketTypes, Packets, RecInv, NumberInv, ArrivesLate
  <1>3. Built(held) /\ Fits(held)
    BY DEF RecInv, Fits, NumberInv, SizeInv, FillInv, FragmentInv
  <1>4. FedRec(held) /\ last' = held.n /\ have_seq' = TRUE
    BY <1>1, <1>3, FeedRec DEF RecInv, feed_rtp
  <1>5. held'.n = 0 /\ Built(held)' /\ held'.kind = "empty"
    BY <1>1, NoPacketBuilt DEF Built, Sane, Units, NoPacket
  <1>6. NumberInv'
    BY <1>1, <1>2, <1>4, <1>5 DEF NumberInv, RecInv
  <1>7. SizeInv'
    BY <1>1, <1>2, <1>4, <1>5 DEF SizeInv, FedRec, RecInv, NumberInv
  <1>8. FragmentInv'
    BY <1>1, <1>2, <1>4, <1>5 DEF FragmentInv, FedRec, RecInv, NumberInv
  <1>9. FillInv'
    <2>1. last' = sent'.n => sent'.size = IF held.marker THEN 0 ELSE held.size
      BY <1>1, <1>4 DEF RecInv, SizeInv
    <2> QED
      BY <1>2, <1>4, <1>5, <2>1 DEF FillInv, FedRec
  <1> QED
    BY <1>4, <1>5, <1>6, <1>7, <1>8, <1>9 DEF RecInv, FedRec

\* Nothing is fed.
LEMMA QuietRec ==
  ASSUME IInv, RecInv, NEW p \in Offers, Delayed(p) \/ Lost(p)
  PROVE  RecInv'
PROOF
  <1>1. /\ Sends(p) /\ held' \in {held, p} /\ out' = NoUnit
        /\ owed' = (IF owed = "now" THEN "following" ELSE owed)
        /\ UNCHANGED <<au_len, fu_active, have_seq, discarding, last>>
    BY DEF Delayed, Lost, Quiet, depacket
  <1>2. /\ Built(p) /\ Fits(p)
        /\ p.n = sent.n + 1 /\ sent'.n = p.n /\ p.n \in Nat
        /\ sent.n \in Nat /\ last \in Nat /\ held.n \in Nat
        /\ sent'.size = (IF p.marker THEN 0 ELSE p.size)
        /\ open' # "none" <=> p.kind \in {"start", "middle"}
    BY <1>1, SentFits
  <1>3. held'.n <= p.n /\ held'.n \in Nat /\ (held'.n = p.n => held' = p) /\ last < p.n
    BY <1>1, <1>2 DEF RecInv, NumberInv
  <1>4. NumberInv'
    BY <1>1, <1>2, <1>3 DEF NumberInv, RecInv
  <1>5. SizeInv'
    <2>1. au_len + Units(held)' <= held'.size \/ held'.n # last + 1
      <3>1. CASE held' = p
        BY <1>2, <1>3, <3>1 DEF Fits, Built, Units
      <3>2. CASE held' = held
        BY <3>2 DEF RecInv, SizeInv, Units
      <3> QED
        BY <1>1, <3>1, <3>2
    <2>2. held'.n = sent'.n => sent'.size = IF held'.marker THEN 0 ELSE held'.size
      BY <1>2, <1>3
    <2>3. last' # sent'.n
      BY <1>1, <1>2, <1>3
    <2> QED
      BY <1>1, <2>1, <2>2, <2>3 DEF SizeInv
  <1>6. FragmentInv'
    BY <1>1, <1>2, <1>3 DEF FragmentInv, RecInv, Fits
  <1>7. Built(held)'
    BY <1>1, <1>2 DEF RecInv, Built, Sane, Units
  <1>8. OwedInv' /\ Recovers'
    BY <1>1 DEF RecInv, OwedInv, Recovers
  <1>9. FillInv'
    <2>1. owed' # "no" => owed # "no"
      BY <1>1
    <2>2. CASE held' = p
      BY <1>1, <1>2, <1>3, <2>1, <2>2 DEF Fits, FillInv, Units
    <2>3. CASE held' = held
      BY <1>1, <1>2, <1>3, <2>1, <2>3 DEF RecInv, FillInv, Units
    <2> QED
      BY <1>1, <2>2, <2>3
  <1> QED
    BY <1>4, <1>5, <1>6, <1>7, <1>8, <1>9 DEF RecInv

LEMMA NextRec == IInv /\ RecInv /\ [Next]_vars => RecInv'
PROOF
  <1>1. ASSUME IInv, RecInv, UNCHANGED vars PROVE RecInv'
    BY <1>1 DEF vars, depacket, RecInv, NumberInv, SizeInv, FillInv, FragmentInv,
       OwedInv, Built, Sane, Units, Recovers
  <1> QED
    BY <1>1, ArrivesRec, LateRec, QuietRec DEF Next

LEMMA InitRec == Init => RecInv
PROOF
  <1> SUFFICES ASSUME Init PROVE RecInv
    OBVIOUS
  <1>1. held.kind = "empty" /\ held.n = 0 /\ held.size = 0 /\ ~held.marker /\ Built(held)
    BY NoPacketBuilt DEF Init, NoPacket
  <1> QED
    BY <1>1 DEF Init, RecInv, NumberInv, SizeInv, FillInv, FragmentInv, OwedInv,
       Recovers, Units

LEMMA AlwaysRec == Spec => [](IInv /\ RecInv)
  BY InitIInv, NextIInv, InitRec, NextRec, PTL DEF Spec

-----------------------------------------------------------------------------
(* Theorems *)

(* The access unit under construction never exceeds au_cap, and everything *)
(* else has its type (append_bytes).                                       *)
THEOREM DepacketTypesHold == Spec => []TypeOK
  BY AlwaysIInv, PTL DEF IInv

(* What is delivered has no hole, at any width of the sequence numbers, as *)
(* long as fewer packets than that width are lost in a row (feed_rtp).     *)
THEOREM UnitsHaveNoHole == Spec => []NoHole
  BY AlwaysIInv, PTL DEF IInv

(* A fragment of a FU-A comes behind its start.                            *)
THEOREM FragmentsAreWhole == Spec => []FragmentsWhole
  BY AlwaysIInv, PTL DEF IInv

(* The flag of the callback tells of an IDR in the access unit.            *)
THEOREM FlagTells == Spec => []KeyframeFlag
  BY AlwaysIInv, PTL DEF IInv

(* Discarding ends: from the first packet with an IDR on, every unit with  *)
(* anything in it is handed over with its marker, whatever was lost before,*)
(* as long as packets come in order, are sound and fit au_cap (feed_rtp,   *)
(* discarding).                                                            *)
THEOREM LossIsRecovered == Spec => []Recovers
  BY AlwaysRec, PTL DEF RecInv

(* After a loss nothing is delivered before a picture that begins with an  *)
(* IDR; without one an access unit goes on where the last one ended.       *)
THEOREM KeyComesFirst == Spec => KeyAfterLoss
PROOF
  <1> DEFINE First ==
        out' # NoUnit =>
          LET first == Head(out'.packets)
          IN first.n = done + 1 \/ ContainsIdr(first) \/ ~have_seq
  <1>1. ASSUME IInv, NEW p, Sane(p), Near(p), feed_rtp(p), out' # NoUnit
        PROVE  LET first == Head(out'.packets)
               IN first.n = done + 1 \/ ContainsIdr(first) \/ ~have_seq
    <2> DEFINE t == Append(Kept(p, au, <<>>), p)
    <2>1. Take(p) /\ p \in Packets
      BY <1>1 DEF feed_rtp, Ignore, GiveUp, Sane
    <2>2. ~Discards(p) /\ Appends(p) /\ Flush(p)
      BY <1>1, <2>1 DEF Take, Build
    <2>3. out'.packets = t
      BY <1>1, <2>2 DEF Flush
    <2>4. /\ t \in Seq(Packets) /\ t # <<>>
          /\ t[1].n = done + 1 \/ ContainsIdr(t[1]) \/ (~have_seq /\ t[1] = p)
      BY <1>1, <2>1, <2>2, TakenUnit
    <2> HIDE DEF t
    <2>5. Head(t) = t[1]
      BY <2>4
    <2> QED
      BY <2>3, <2>4, <2>5
  <1>2. IInv /\ [Next]_vars => [First]_vars
    <2> SUFFICES ASSUME IInv, Next, out' # NoUnit
                 PROVE  LET first == Head(out'.packets)
                        IN first.n = done + 1 \/ ContainsIdr(first) \/ ~have_seq
      OBVIOUS
    <2>1. ASSUME NEW p \in Offers, Arrives(p) \/ Delayed(p) \/ Lost(p)
          PROVE  Sane(p) /\ Near(p) /\ feed_rtp(p)
      BY <2>1, SendsType DEF Arrives, Delayed, Lost, Quiet
    <2>2. CASE ArrivesLate
      BY <1>1, <2>2 DEF IInv, ArrivesLate
    <2> QED
      BY <1>1, <2>1, <2>2 DEF Next
  <1>3. Spec => [][First]_vars
    BY <1>2, AlwaysIInv, PTL DEF Spec
  <1> QED
    BY <1>3 DEF KeyAfterLoss
=============================================================================
