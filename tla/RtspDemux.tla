------------------------------ MODULE RtspDemux ------------------------------
(***************************************************************************)
(* components/rtsp_client/src/rtsp_demux.c: the byte-wise state machine    *)
(* that takes the interleaved frames ($, channel, 16-bit length, payload)  *)
(* out of the RTSP socket.  One step is one byte: rtsp_demux_feed keeps    *)
(* all of its state between calls, so where recv() cuts the stream does    *)
(* not show.                                                               *)
(*                                                                         *)
(* The camera is the environment.  It sends text without a dollar (replies *)
(* to keepalives) and frames; sent is that frame as far as it has come.    *)
(* Bytes are 0..Base-1, so that the length field stays small enough for    *)
(* TLC: it is two bytes wide for every Base, 256 in the code.              *)
(***************************************************************************)
EXTENDS Naturals, Sequences

CONSTANTS Base,    \* number of values of a byte (256)
          Dollar,  \* the byte '$'
          Cap      \* frame_buf_cap (DEMUX_FRAME_BUF_SIZE)

Byte == 0..Base-1

ASSUME DemuxAssumption ==
  /\ Base \in Nat \ {0, 1}
  /\ Dollar \in Byte
  /\ Cap \in Nat

VARIABLES state, channel, frame_len, frame_pos,
          frame_buf,  \* [0..Cap-1 -> Byte]
          overrun,    \* a byte was written outside of frame_buf
          out,        \* the frame this byte completed, <<>> if none
          sent        \* the frame the camera is sending or has just sent

demuxVars == <<state, channel, frame_len, frame_pos, frame_buf, overrun, out>>
vars == <<demuxVars, sent>>

States == {"WAIT_DOLLAR", "READ_CHANNEL", "READ_LEN_HI", "READ_LEN_LO",
           "READ_PAYLOAD", "SKIP_OVERSIZED"}

Init ==
  /\ state = "WAIT_DOLLAR"
  /\ channel = 0 /\ frame_len = 0 /\ frame_pos = 0
  /\ frame_buf = [i \in 0..Cap-1 |-> 0]
  /\ overrun = FALSE
  /\ out = <<>> /\ sent = <<>>

\* The callback is given the first len bytes of the buffer.
Payload(buf, len) == [i \in 1..len |-> buf[i - 1]]
Emit(ch, payload) == out' = <<[channel |-> ch, payload |-> payload]>>
EmitNothing == out' = <<>>

-----------------------------------------------------------------------------
(* rtsp_demux_feed, one case of its switch each *)

WaitDollar(b) ==
  /\ state = "WAIT_DOLLAR"
  /\ state' = IF b = Dollar THEN "READ_CHANNEL" ELSE state
  /\ EmitNothing
  /\ UNCHANGED <<channel, frame_len, frame_pos, frame_buf, overrun>>

ReadChannel(b) ==
  /\ state = "READ_CHANNEL"
  /\ state' = "READ_LEN_HI"
  /\ channel' = b
  /\ EmitNothing
  /\ UNCHANGED <<frame_len, frame_pos, frame_buf, overrun>>

\* Mutant: the length is taken for a wider one.
High_TwoBytesUp(b) == b * Base * Base

\* The high byte of the 16-bit length.
High(b) == b * Base

ReadLenHi(b) ==
  /\ state = "READ_LEN_HI"
  /\ state' = "READ_LEN_LO"
  /\ frame_len' = High(b)
  /\ EmitNothing
  /\ UNCHANGED <<channel, frame_pos, frame_buf, overrun>>

\* Mutant: off by one at the capacity.
AfterLength_OffByOne(len) ==
  IF len = 0 THEN "WAIT_DOLLAR"
  ELSE IF len > Cap + 1 THEN "SKIP_OVERSIZED" ELSE "READ_PAYLOAD"

\* Mutant: an oversized frame is not skipped but given up.
AfterLength_NoSkip(len) ==
  IF len = 0 \/ len > Cap THEN "WAIT_DOLLAR" ELSE "READ_PAYLOAD"

\* An empty frame is complete; one that does not fit is skipped.
AfterLength(len) ==
  IF len = 0 THEN "WAIT_DOLLAR"
  ELSE IF len > Cap THEN "SKIP_OVERSIZED" ELSE "READ_PAYLOAD"

ReadLenLo(b) ==
  /\ state = "READ_LEN_LO"
  /\ frame_len' = frame_len + b
  /\ frame_pos' = 0
  /\ state' = AfterLength(frame_len')
  /\ IF frame_len' = 0 THEN Emit(channel, <<>>) ELSE EmitNothing
  /\ UNCHANGED <<channel, frame_buf, overrun>>

\* The byte has a place in the buffer, and may be the last one.
StorePayload(b) ==
  /\ frame_buf' = [frame_buf EXCEPT ![frame_pos] = b]
  /\ IF frame_pos' = frame_len
       THEN state' = "WAIT_DOLLAR" /\ Emit(channel, Payload(frame_buf', frame_len))
       ELSE UNCHANGED state /\ EmitNothing
  /\ UNCHANGED overrun

\* After a write outside of the buffer nothing more is said.
ReadPayload(b) ==
  /\ state = "READ_PAYLOAD"
  /\ frame_pos' = (frame_pos + 1) % (Base * Base)
  /\ IF frame_pos < Cap
       THEN StorePayload(b)
       ELSE overrun' = TRUE /\ EmitNothing /\ UNCHANGED <<state, frame_buf>>
  /\ UNCHANGED <<channel, frame_len>>

SkipOversized(b) ==
  /\ state = "SKIP_OVERSIZED"
  /\ frame_pos' = (frame_pos + 1) % (Base * Base)
  /\ state' = IF frame_pos' = frame_len THEN "WAIT_DOLLAR" ELSE state
  /\ EmitNothing
  /\ UNCHANGED <<channel, frame_len, frame_buf, overrun>>

Feed(b) ==
  \/ WaitDollar(b) \/ ReadChannel(b) \/ ReadLenHi(b) \/ ReadLenLo(b)
  \/ ReadPayload(b) \/ SkipOversized(b)

-----------------------------------------------------------------------------
(* The camera *)

LengthOf(frame) == frame[3] * Base + frame[4]
Complete(frame) == Len(frame) >= 4 /\ Len(frame) = 4 + LengthOf(frame)

\* The camera may start a frame, or send text.
Between == sent = <<>> \/ Complete(sent)

SendsBetween(b) ==
  /\ Between
  /\ sent' = IF b = Dollar THEN <<b>> ELSE <<>>

\* The next byte of a frame; any value, a dollar included.
SendsWithin(b) ==
  /\ ~Between
  /\ sent' = Append(sent, b)

Next == \E b \in Byte : Feed(b) /\ (SendsBetween(b) \/ SendsWithin(b))

Spec == Init /\ [][Next]_vars

-----------------------------------------------------------------------------
(* Properties *)

FrameTypes ==
  /\ channel \in Byte
  /\ frame_len \in 0..(Base * Base - 1)
  /\ frame_pos \in 0..(Base * Base - 1)

\* The state machine's own variables keep to their widths.
TypeOK ==
  /\ state \in States
  /\ FrameTypes
  /\ frame_buf \in [0..Cap-1 -> Byte]
  /\ overrun \in BOOLEAN

(* No byte is written outside of frame_buf, whatever the length field says *)
(* ("バッファオーバーランはしない", rtsp_demux.h).                         *)
NoOverrun == ~overrun

(* The demultiplexer waits for a dollar exactly when the camera is between *)
(* two frames: an oversized frame is skipped to its last byte, so no byte  *)
(* of a payload is ever taken for a header.                                *)
InSync == state = "WAIT_DOLLAR" <=> Between

(* The callback runs exactly when a frame that fits the buffer is          *)
(* complete, and it is given that frame's channel and bytes.               *)
DeliversFrames ==
  out = IF Complete(sent) /\ LengthOf(sent) <= Cap
          THEN <<[channel |-> sent[2],
                  payload |-> [i \in 1..LengthOf(sent) |-> sent[4 + i]]]>>
          ELSE <<>>

-----------------------------------------------------------------------------
(* The inductive invariant: what each state of the machine has read.       *)

Header ==
  /\ sent \in Seq(Byte)
  /\ state = "READ_CHANNEL" => Len(sent) = 1
  /\ state = "READ_LEN_HI" => Len(sent) = 2 /\ channel = sent[2]
  /\ state = "READ_LEN_LO" =>
       Len(sent) = 3 /\ channel = sent[2] /\ frame_len = sent[3] * Base

Body ==
  state \in {"READ_PAYLOAD", "SKIP_OVERSIZED"} =>
    /\ Len(sent) = 4 + frame_pos
    /\ channel = sent[2]
    /\ frame_len = LengthOf(sent)
    /\ frame_pos < frame_len
    /\ state = "READ_PAYLOAD" <=> frame_len <= Cap

Buffered ==
  state = "READ_PAYLOAD" => \A i \in 0..frame_pos-1 : frame_buf[i] = sent[5 + i]

IInv ==
  TypeOK /\ NoOverrun /\ InSync /\ DeliversFrames /\ Header /\ Body /\ Buffered
=============================================================================
