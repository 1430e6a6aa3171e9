-------------------------- MODULE RtspDemuxProofs --------------------------
(***************************************************************************)
(* RtspDemux, for every byte width and every buffer capacity: the buffer   *)
(* is never overrun, the machine never loses the frame boundaries, and     *)
(* the callback is given exactly the frames that fit.                      *)
(***************************************************************************)
EXTENDS RtspDemux, TLAPS

USE DEF States, High

\* Two bytes make a length below Base * Base.
LEMMA LengthBound ==
  ASSUME NEW hi \in Byte, NEW lo \in Byte
  PROVE  hi * Base \in 0..(Base * Base - 1) /\ hi * Base + lo \in 0..(Base * Base - 1)
PROOF
  <1>1. Base \in Nat /\ Base >= 2 /\ hi \in Nat /\ lo \in Nat /\ hi <= Base - 1 /\ lo <= Base - 1
    BY DemuxAssumption DEF Byte
  <1>2. hi * Base <= (Base - 1) * Base /\ hi * Base \in Nat
    BY <1>1
  <1>3. (Base - 1) * Base = Base * Base - Base /\ Base * Base \in Nat
    BY <1>1
  <1> HIDE DEF Byte
  <1> QED
    BY <1>1, <1>2, <1>3

\* A length may be 0.
LEMMA ZeroInRange == 0 \in 0..(Base * Base - 1)
PROOF
  <1>1. 0 \in Byte
    BY DemuxAssumption DEF Byte
  <1> QED
    BY <1>1, LengthBound, DemuxAssumption DEF Byte

\* The machine starts between two frames.
LEMMA InitIInv == Init => IInv
PROOF
  <1> SUFFICES ASSUME Init PROVE IInv
    OBVIOUS
  <1> USE DEF Init
  <1>1. 0 \in Byte /\ 0 \in 0..(Base * Base - 1)
    BY DemuxAssumption, ZeroInRange DEF Byte
  <1>2. TypeOK
    BY <1>1 DEF TypeOK, FrameTypes
  <1>3. sent \in Seq(Byte) /\ Len(sent) = 0
    OBVIOUS
  <1> QED
    BY <1>2, <1>3 DEF IInv, NoOverrun, InSync, Between, DeliversFrames, Complete, Header,
       Body, Buffered

\* What a byte does to the frame being sent.
LEMMA SentGrows ==
  ASSUME sent \in Seq(Byte), NEW b \in Byte, SendsWithin(b)
  PROVE  /\ sent' \in Seq(Byte)
         /\ Len(sent') = Len(sent) + 1
         /\ \A i \in 1..Len(sent) : sent'[i] = sent[i]
         /\ sent'[Len(sent) + 1] = b
  BY DEF SendsWithin

\* What has been sent are bytes.
LEMMA ByteSent ==
  ASSUME NEW s \in Seq(Byte), NEW i \in 1..Len(s)
  PROVE  s[i] \in Byte
  OBVIOUS

\* A byte the machine waits for a dollar with.
LEMMA WaitDollarIInv ==
  ASSUME IInv, NEW b \in Byte, WaitDollar(b), SendsBetween(b) \/ SendsWithin(b)
  PROVE  IInv'
PROOF
  <1> USE DEF WaitDollar, EmitNothing
  <1>1. SendsBetween(b)
    BY DEF IInv, InSync, SendsWithin
  <1>2. sent' = IF b = Dollar THEN <<b>> ELSE <<>>
    BY <1>1 DEF SendsBetween
  <1>3. sent' \in Seq(Byte) /\ Len(sent') = (IF b = Dollar THEN 1 ELSE 0)
    BY <1>2
  <1>4. ~Complete(sent)'
    BY <1>3 DEF Complete
  <1>5. TypeOK' /\ NoOverrun'
    BY DEF IInv, TypeOK, FrameTypes, NoOverrun
  <1>6. InSync'
    BY <1>2, <1>3, <1>4 DEF InSync, Between
  <1>7. DeliversFrames'
    BY <1>4 DEF DeliversFrames
  <1>8. Header' /\ Body' /\ Buffered'
    BY <1>2, <1>3 DEF Header, Body, Buffered
  <1> QED
    BY <1>5, <1>6, <1>7, <1>8 DEF IInv

\* A byte within a frame comes after a frame that is not complete.
LEMMA WithinFrame ==
  ASSUME IInv, state # "WAIT_DOLLAR", NEW b \in Byte, SendsBetween(b) \/ SendsWithin(b)
  PROVE  SendsWithin(b) /\ sent \in Seq(Byte)
  BY DEF IInv, InSync, Header, SendsBetween

\* A byte of the header before the last.
LEMMA HeaderIInv ==
  ASSUME IInv, NEW b \in Byte, ReadChannel(b) \/ ReadLenHi(b), SendsBetween(b) \/ SendsWithin(b)
  PROVE  IInv'
PROOF
  <1>1. state # "WAIT_DOLLAR"
    BY DEF ReadChannel, ReadLenHi
  <1>2. SendsWithin(b) /\ sent \in Seq(Byte)
    BY <1>1, WithinFrame
  <1>3. /\ sent' \in Seq(Byte)
        /\ Len(sent') = Len(sent) + 1
        /\ \A i \in 1..Len(sent) : sent'[i] = sent[i]
        /\ sent'[Len(sent) + 1] = b
    BY <1>2, SentGrows
  <1>4. CASE ReadChannel(b)
    <2> USE <1>4 DEF ReadChannel, EmitNothing
    <2>1. Len(sent) = 1
      BY DEF IInv, Header
    <2>2. Len(sent') = 2 /\ sent'[2] = b
      BY <1>3, <2>1
    <2>3. TypeOK' /\ NoOverrun'
      BY DEF IInv, TypeOK, FrameTypes, NoOverrun
    <2>4. ~Complete(sent)' /\ sent' # <<>>
      BY <2>2 DEF Complete
    <2>5. InSync' /\ DeliversFrames'
      BY <2>4 DEF InSync, Between, DeliversFrames
    <2>6. Header' /\ Body' /\ Buffered'
      BY <1>3, <2>2 DEF Header, Body, Buffered
    <2> QED
      BY <2>3, <2>5, <2>6 DEF IInv
  <1>5. CASE ReadLenHi(b)
    <2> USE <1>5 DEF ReadLenHi, EmitNothing
    <2>1. Len(sent) = 2 /\ channel = sent[2]
      BY DEF IInv, Header
    <2>2. Len(sent') = 3 /\ sent'[3] = b /\ sent'[2] = sent[2]
      BY <1>3, <2>1
    <2>3. TypeOK' /\ NoOverrun'
      BY LengthBound DEF IInv, TypeOK, FrameTypes, NoOverrun
    <2>4. ~Complete(sent)' /\ sent' # <<>>
      BY <2>2 DEF Complete
    <2>5. InSync' /\ DeliversFrames'
      BY <2>4 DEF InSync, Between, DeliversFrames
    <2>6. Header' /\ Body' /\ Buffered'
      BY <1>3, <2>1, <2>2 DEF Header, Body, Buffered
    <2> QED
      BY <2>3, <2>5, <2>6 DEF IInv
  <1> QED
    BY <1>4, <1>5

\* The last byte of the header, which decides where the payload goes.
LEMMA ReadLenLoIInv ==
  ASSUME IInv, NEW b \in Byte, ReadLenLo(b), SendsBetween(b) \/ SendsWithin(b)
  PROVE  IInv'
PROOF
  <1> USE DEF ReadLenLo, AfterLength, Emit, EmitNothing
  <1>1. SendsWithin(b) /\ sent \in Seq(Byte)
    BY WithinFrame
  <1>2. /\ sent' \in Seq(Byte)
        /\ Len(sent') = Len(sent) + 1
        /\ \A i \in 1..Len(sent) : sent'[i] = sent[i]
        /\ sent'[Len(sent) + 1] = b
    BY <1>1, SentGrows
  <1>3. Len(sent) = 3 /\ channel = sent[2] /\ frame_len = sent[3] * Base /\ sent[3] \in Byte
    <2>1. Len(sent) = 3 /\ channel = sent[2] /\ frame_len = sent[3] * Base
      BY DEF IInv, Header
    <2>2. sent[3] \in Byte
      <3>1. 3 \in 1..Len(sent)
        BY <2>1
      <3> QED
        BY <1>1, <3>1, ByteSent
    <2> QED
      BY <2>1, <2>2
  <1>4. Len(sent') = 4 /\ sent'[4] = b /\ sent'[3] = sent[3] /\ sent'[2] = sent[2]
    BY <1>2, <1>3
  <1>5. frame_len' = LengthOf(sent)' /\ frame_len' \in 0..(Base * Base - 1)
    BY <1>3, <1>4, LengthBound DEF LengthOf
  <1>6. TypeOK' /\ NoOverrun'
    <2>1. 0 \in 0..(Base * Base - 1)
      BY ZeroInRange
    <2>2. state' \in States /\ frame_pos' = 0
      OBVIOUS
    <2>3. channel' = channel /\ frame_buf' = frame_buf /\ overrun' = overrun
      OBVIOUS
    <2> QED
      BY <1>5, <2>1, <2>2, <2>3 DEF IInv, TypeOK, FrameTypes, NoOverrun
  <1>7. Complete(sent)' <=> frame_len' = 0
    BY <1>4, <1>5 DEF Complete
  <1>8. InSync'
    BY <1>4, <1>7 DEF InSync, Between
  <1>9. DeliversFrames'
    <2>1. CASE frame_len' = 0
      <3>1. [i \in 1..LengthOf(sent)' |-> sent'[4 + i]] = <<>>
        BY <1>5, <2>1
      <3> QED
        BY <1>3, <1>4, <1>5, <1>7, <2>1, <3>1, DemuxAssumption DEF DeliversFrames
    <2>2. CASE frame_len' # 0
      BY <1>7, <2>2 DEF DeliversFrames
    <2> QED
      BY <2>1, <2>2
  <1>10. Header' /\ Body'
    BY <1>2, <1>3, <1>4, <1>5, DemuxAssumption DEF Header, Body
  <1>11. Buffered'
    BY DEF Buffered
  <1> QED
    BY <1>6, <1>8, <1>9, <1>10, <1>11 DEF IInv

\* A byte of a payload, stored or skipped.
LEMMA PayloadIInv ==
  ASSUME IInv, NEW b \in Byte, ReadPayload(b) \/ SkipOversized(b),
         SendsBetween(b) \/ SendsWithin(b)
  PROVE  IInv'
PROOF
  <1>1. state \in {"READ_PAYLOAD", "SKIP_OVERSIZED"}
    BY DEF ReadPayload, SkipOversized
  <1>2. SendsWithin(b) /\ sent \in Seq(Byte)
    BY <1>1, WithinFrame
  <1>3. /\ sent' \in Seq(Byte)
        /\ Len(sent') = Len(sent) + 1
        /\ \A i \in 1..Len(sent) : sent'[i] = sent[i]
        /\ sent'[Len(sent) + 1] = b
    BY <1>2, SentGrows
  <1>4. /\ Len(sent) = 4 + frame_pos
        /\ channel = sent[2]
        /\ frame_len = LengthOf(sent)
        /\ frame_pos < frame_len
        /\ state = "READ_PAYLOAD" <=> frame_len <= Cap
        /\ frame_len \in Nat /\ frame_pos \in Nat /\ frame_len < Base * Base
        /\ Base * Base \in Nat /\ Cap \in Nat
    BY <1>1, DemuxAssumption DEF IInv, Body, TypeOK, FrameTypes
  <1>5. frame_pos' = frame_pos + 1
    BY <1>4 DEF ReadPayload, SkipOversized
  <1>6. frame_len' = frame_len /\ channel' = channel
    BY DEF ReadPayload, SkipOversized
  <1>7. LengthOf(sent)' = LengthOf(sent) /\ sent'[2] = sent[2] /\ Len(sent') = 4 + frame_pos'
    BY <1>3, <1>4, <1>5 DEF LengthOf
  <1>8. Complete(sent)' <=> frame_pos' = frame_len
    BY <1>4, <1>5, <1>7 DEF Complete
  <1>9. state' = IF frame_pos' = frame_len THEN "WAIT_DOLLAR" ELSE state
    BY <1>4 DEF ReadPayload, SkipOversized, StorePayload
  <1>10. InSync'
    BY <1>1, <1>3, <1>4, <1>5, <1>7, <1>8, <1>9 DEF InSync, Between
  <1>11. Header' /\ Body'
    BY <1>1, <1>3, <1>4, <1>5, <1>6, <1>7, <1>9 DEF Header, Body
  <1>12. CASE ReadPayload(b)
    <2> USE <1>12 DEF ReadPayload, StorePayload
    <2>1. frame_len <= Cap /\ frame_pos < Cap /\ frame_pos \in 0..Cap-1
      BY <1>4
    <2>2. frame_buf' = [frame_buf EXCEPT ![frame_pos] = b] /\ overrun' = overrun
      BY <2>1
    <2>3. TypeOK' /\ NoOverrun'
      BY <1>4, <1>5, <1>6, <2>1, <2>2 DEF IInv, TypeOK, FrameTypes, NoOverrun
    <2>4. \A i \in 0..frame_pos : frame_buf'[i] = sent'[5 + i]
      <3> SUFFICES ASSUME NEW i \in 0..frame_pos PROVE frame_buf'[i] = sent'[5 + i]
        OBVIOUS
      <3>1. CASE i = frame_pos
        <4>1. frame_buf'[i] = b
          BY <2>1, <2>2, <3>1 DEF IInv, TypeOK
        <4>2. 5 + i = Len(sent) + 1
          BY <1>4, <3>1
        <4> QED
          BY <1>3, <4>1, <4>2
      <3>2. CASE i # frame_pos
        <4>1. i \in 0..frame_pos-1 /\ i \in 0..Cap-1 /\ 5 + i \in 1..Len(sent)
          BY <1>4, <2>1, <3>2
        <4>2. frame_buf[i] = sent[5 + i]
          BY <4>1 DEF IInv, Buffered
        <4> QED
          BY <1>3, <2>2, <3>2, <4>1, <4>2 DEF IInv, TypeOK
      <3> QED
        BY <3>1, <3>2
    <2>5. Buffered'
      BY <1>4, <1>5, <2>4 DEF Buffered
    <2>6. DeliversFrames'
      <3>1. CASE frame_pos' = frame_len
        <4>1. Payload(frame_buf', frame_len) = [i \in 1..LengthOf(sent)' |-> sent'[4 + i]]
          <5>1. \A i \in 1..frame_len : frame_buf'[i - 1] = sent'[4 + i]
            <6> SUFFICES ASSUME NEW i \in 1..frame_len PROVE frame_buf'[i - 1] = sent'[4 + i]
              OBVIOUS
            <6>1. i - 1 \in 0..frame_pos /\ 5 + (i - 1) = 4 + i
              BY <1>4, <1>5, <3>1
            <6> QED
              BY <2>4, <6>1
          <5> QED
            BY <1>4, <1>7, <5>1 DEF Payload
        <4>2. out' = <<[channel |-> channel, payload |-> Payload(frame_buf', frame_len)]>>
          BY <2>1, <3>1 DEF Emit
        <4> QED
          BY <1>4, <1>7, <1>8, <2>1, <3>1, <4>1, <4>2 DEF DeliversFrames
      <3>2. CASE frame_pos' # frame_len
        BY <1>8, <2>1, <3>2 DEF DeliversFrames, EmitNothing
      <3> QED
        BY <3>1, <3>2
    <2> QED
      BY <1>10, <1>11, <2>3, <2>5, <2>6 DEF IInv
  <1>13. CASE SkipOversized(b)
    <2> USE <1>13 DEF SkipOversized, EmitNothing
    <2>1. TypeOK' /\ NoOverrun'
      BY <1>4, <1>5, <1>6 DEF IInv, TypeOK, FrameTypes, NoOverrun
    <2>2. DeliversFrames'
      BY <1>4, <1>7 DEF DeliversFrames
    <2>3. Buffered'
      BY DEF Buffered
    <2> QED
      BY <1>10, <1>11, <2>1, <2>2, <2>3 DEF IInv
  <1> QED
    BY <1>12, <1>13

\* Every byte preserves the inductive invariant.
LEMMA NextIInv == IInv /\ [Next]_vars => IInv'
PROOF
  <1> SUFFICES ASSUME IInv, [Next]_vars PROVE IInv'
    OBVIOUS
  <1>1. CASE Next
    <2> PICK b \in Byte : Feed(b) /\ (SendsBetween(b) \/ SendsWithin(b))
      BY <1>1 DEF Next
    <2> QED
      BY WaitDollarIInv, HeaderIInv, ReadLenLoIInv, PayloadIInv DEF Feed
  <1>2. CASE UNCHANGED vars
    BY <1>2 DEF vars, demuxVars, IInv, TypeOK, FrameTypes, NoOverrun, InSync, Between,
       DeliversFrames, Complete, LengthOf, Header, Body, Buffered
  <1> QED
    BY <1>1, <1>2

LEMMA AlwaysIInv == Spec => []IInv
  BY InitIInv, NextIInv, PTL DEF Spec

\* Every state of the machine is one of its types, whatever the camera sends.
THEOREM DemuxTypes == Spec => []TypeOK
PROOF
  <1>1. IInv => TypeOK
    BY DEF IInv
  <1> QED
    BY <1>1, AlwaysIInv, PTL

\* No byte is ever written outside of the frame buffer.
THEOREM DemuxNeverOverruns == Spec => []NoOverrun
PROOF
  <1>1. IInv => NoOverrun
    BY DEF IInv
  <1> QED
    BY <1>1, AlwaysIInv, PTL

\* The machine and the camera agree on where frames begin.
THEOREM DemuxKeepsSync == Spec => []InSync
PROOF
  <1>1. IInv => InSync
    BY DEF IInv
  <1> QED
    BY <1>1, AlwaysIInv, PTL

\* The frames handed out are the frames sent that fit the buffer.
THEOREM DemuxDelivers == Spec => []DeliversFrames
PROOF
  <1>1. IInv => DeliversFrames
    BY DEF IInv
  <1> QED
    BY <1>1, AlwaysIInv, PTL
=============================================================================
