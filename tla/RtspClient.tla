----------------------------- MODULE RtspClient -----------------------------
(***************************************************************************)
(* components/rtsp_client/src/rtsp_client.c on one connection, with the    *)
(* use relay.c makes of it: rtsp_client_play asks OPTIONS, DESCRIBE, SETUP *)
(* and PLAY, answers a 401 with a Digest once, then the receive task hands *)
(* what was read too far, and all that follows, to the demultiplexer.      *)
(*                                                                         *)
(* The stream is a sequence of units: a header block, a part of a body, a  *)
(* piece of an interleaved frame, junk without the end of a header.  recv  *)
(* returns any number of them.  A header tells the CSeq it answers and, as *)
(* history, the serial number of the request it was made for.              *)
(***************************************************************************)
EXTENDS Naturals, Sequences, SequencesExt

CONSTANTS BufCap,    \* RTSP_MSG_BUF_SIZE, in units
          BodyCap,   \* RTSP_BODY_BUF_SIZE, in units
          TakeCap,   \* DEMUX_FRAME_BUF_SIZE, in units: handed on at once
          WireCap,   \* bound: units under way
          MaxRtp,    \* bound: pieces of frames the camera sends
          MaxCseq    \* bound: requests, keepalives included

ASSUME RtspAssumption ==
  /\ BufCap \in Nat \ {0} /\ BodyCap \in Nat /\ TakeCap \in Nat
  /\ WireCap \in Nat /\ MaxRtp \in Nat /\ MaxCseq \in Nat

Methods == <<"OPTIONS", "DESCRIBE", "SETUP", "PLAY">>

VARIABLES pc, step,          \* the place in rtsp_client_play, the request
          attempt, cseq,
          have_challenge, have_session,
          buf, need,         \* c->buf from buf_pos on; body units to come
          resp,              \* the response being read
          fed,               \* what the demultiplexer was given
          wire, asked,       \* the camera: units under way, last request,
          playing, rtp,      \*   whether it streams, pieces of frames sent
          serial,            \* history: requests sent,
          refused,           \*   credentials refused,
         told, ended, unsent   \* SETUPs, TEARDOWNs sent, TEARDOWNs lost

request == <<cseq, serial, asked>>
auth == <<have_challenge, attempt, refused>>
session == <<have_session, told, ended, unsent>>
reading == <<buf, need, wire>>
streaming == <<fed, playing, rtp>>
vars == <<pc, step, resp, request, auth, session, reading, streaming>>

Header(to, n, code, chal, sess, body) ==
  [t |-> "hdr", to |-> to, cseq |-> n, code |-> code, chal |-> chal,
   session |-> sess, body |-> body]
NoResponse == Header(0, 0, "none", "none", FALSE, 0)
Body == [t |-> "body"]
Junk == [t |-> "junk"]
Rtp(n) == [t |-> "rtp", n |-> n]
IsHeader(u) == u.t = "hdr"
IsRtp(u) == u.t = "rtp"

\* What the demultiplexer makes of it: the pieces of frames, in order.
Frames(s) ==
  LET upto[i \in 0..Len(s)] ==
        IF i = 0 THEN <<>>
        ELSE IF IsRtp(s[i]) THEN Append(upto[i - 1], s[i]) ELSE upto[i - 1]
  IN upto[Len(s)]

NoRequest == [serial |-> 0, cseq |-> 0, method |-> "none"]

\* rtsp_client_open, on a new connection.
Init ==
  /\ pc = "opened" /\ step = 1 /\ resp = NoResponse
  /\ cseq = 0 /\ serial = 0 /\ asked = NoRequest
  /\ have_challenge = FALSE /\ attempt = 0 /\ refused = FALSE
  /\ have_session = FALSE /\ told = 0 /\ ended = 0 /\ unsent = 0
  /\ buf = <<>> /\ need = 0 /\ wire = <<>>
  /\ fed = <<>> /\ playing = FALSE /\ rtp = 0

Connect ==
  /\ pc = "opened"
  /\ pc' \in {"send", "failed"}
  /\ UNCHANGED <<step, resp, request, auth, session, reading, streaming>>

-----------------------------------------------------------------------------
(* Requests; cseq is the one in use, so that c->cseq is cseq + 1 *)

\* Mutant: the resent request keeps the CSeq of the first.
send_request_SameCseq(method) ==
  /\ cseq' = cseq + 1 - attempt
  /\ serial' = serial + 1
  /\ asked' = [serial |-> serial', cseq |-> cseq', method |-> method]

\* The next CSeq is taken and the request is on its way.
send_request(method) ==
  /\ cseq' = cseq + 1
  /\ serial' = serial + 1
  /\ asked' = [serial |-> serial', cseq |-> cseq', method |-> method]

\* The connection is lost, or does not take it in time.
send_fails ==
  /\ cseq' = cseq + 1
  /\ UNCHANGED <<serial, asked>>

SendRequest ==
  /\ pc = "send"
  /\ send_request(Methods[step])
  /\ pc' = "read"
  /\ UNCHANGED <<step, resp, auth, session, reading, streaming>>

\* Mutant: a receive that times out is waited for again.
PlayFails_OnlyToSend ==
  /\ pc = "send"
  /\ pc' = "failed"
  /\ UNCHANGED <<step, resp, request, auth, session, reading, streaming>>

\* The Digest, the send or a receive fails, or times out.
PlayFails ==
  /\ pc \in {"send", "read", "body"}
  /\ pc' = "failed"
  /\ UNCHANGED <<step, resp, request, auth, session, reading, streaming>>

-----------------------------------------------------------------------------
(* Responses: conn_fill_more, read_header_block, read_response *)

HeaderEnds == \E i \in 1..Len(buf) : IsHeader(buf[i])
FirstHeader == SelectInSeq(buf, IsHeader)

\* More bytes, until a header ends or the buffer is full.
conn_fill_more ==
  /\ pc = "read" /\ ~HeaderEnds
  /\ \/ /\ Len(buf) = BufCap
        /\ pc' = "failed"
        /\ UNCHANGED reading
     \/ \E k \in 1..Len(wire) :
          /\ Len(buf) + k <= BufCap
          /\ buf' = buf \o SubSeq(wire, 1, k)
          /\ wire' = SubSeq(wire, k + 1, Len(wire))
          /\ UNCHANGED <<pc, need>>
  /\ UNCHANGED <<step, resp, request, auth, session, streaming>>

AtMost(n, m) == IF n < m THEN n ELSE m

\* Mutant: a body of any size is read into body_buf.
ReadHeader_AnyBody ==
  /\ pc = "read" /\ HeaderEnds
  /\ LET i == FirstHeader
         here == AtMost(buf[i].body, Len(buf) - i)
     IN /\ resp' = [buf[i] EXCEPT !.code = IF i = 1 THEN @ ELSE "other"]
        /\ buf[i].cseq = cseq
        /\ pc' = "body"
        /\ need' = buf[i].body - here
        /\ buf' = SubSeq(buf, i + here + 1, Len(buf))
  /\ UNCHANGED <<step, request, auth, session, wire, streaming>>

\* What precedes a header in the buffer spoils its status line.
ReadHeader ==
  /\ pc = "read" /\ HeaderEnds
  /\ LET i == FirstHeader
         here == AtMost(buf[i].body, Len(buf) - i)
     IN /\ resp' = [buf[i] EXCEPT !.code = IF i = 1 THEN @ ELSE "other"]
        /\ IF buf[i].cseq = cseq /\ buf[i].body <= BodyCap
             THEN /\ pc' = "body"
                  /\ need' = buf[i].body - here
                  /\ buf' = SubSeq(buf, i + here + 1, Len(buf))
             ELSE /\ pc' = "failed"
                  /\ buf' = SubSeq(buf, i + 1, Len(buf))
                  /\ UNCHANGED need
  /\ UNCHANGED <<step, request, auth, session, wire, streaming>>

\* The rest of the body, and not a byte more.
ReadBody ==
  /\ pc = "body"
  /\ \E k \in 1..AtMost(need, Len(wire)) :
       need' = need - k /\ wire' = SubSeq(wire, k + 1, Len(wire))
  /\ UNCHANGED <<pc, step, resp, request, auth, session, buf, streaming>>

Answered == pc = "body" /\ need = 0

\* Mutant: refused credentials are tried again.
RefusedFor_Never(r) == FALSE

\* A challenge in answer to credentials, and not for a new nonce.
RefusedFor(r) == have_challenge /\ r.chal # "stale"

\* A 401: one attempt more, unless it is clear that it is of no use.
Challenged ==
  /\ Answered /\ resp.code = "401"
  /\ refused' = (refused \/ (have_challenge /\ resp.chal = "fresh"))
  /\ IF resp.chal = "none" \/ RefusedFor(resp)
       THEN pc' = "failed" /\ UNCHANGED <<have_challenge, attempt>>
       ELSE /\ have_challenge' = TRUE
            /\ attempt' = attempt + 1
            /\ pc' = IF attempt = 0 THEN "send" ELSE "failed"
  /\ resp' = NoResponse
  /\ UNCHANGED <<step, request, session, reading, streaming>>

\* DESCRIBE needs a description it understands, SETUP a session.
Useful ==
  /\ resp.code = "ok"
  /\ step = 2 => resp.body > 0
  /\ step = 3 => resp.session

Accepted ==
  /\ Answered /\ Useful
  /\ IF step < 4 THEN step' = step + 1 /\ pc' = "send"
                 ELSE pc' = "ready" /\ UNCHANGED step
  /\ have_session' = (have_session \/ step = 3)
  /\ told' = IF step = 3 THEN told + 1 ELSE told
  /\ attempt' = 0
  /\ resp' = NoResponse
  /\ UNCHANGED <<request, have_challenge, refused, ended, unsent, reading,
                 streaming>>

Rejected ==
  /\ Answered /\ resp.code # "401"
  /\ ~Useful \/ step = 2     \* no H.264 in the description
  /\ pc' = "failed"
  /\ resp' = NoResponse
  /\ UNCHANGED <<step, request, auth, session, reading, streaming>>

Play ==
  \/ Connect \/ SendRequest \/ PlayFails \/ conn_fill_more \/ ReadHeader
  \/ ReadBody \/ Challenged \/ Accepted \/ Rejected

-----------------------------------------------------------------------------
(* After PLAY: rtsp_rx_task, and viewer_close *)

\* Mutant: what was read too far is forgotten.
RxBuffered_Forgets ==
  /\ pc = "ready"
  /\ pc' = "streaming"
  /\ UNCHANGED <<step, resp, request, auth, session, reading, streaming>>

\* rtsp_client_take_buffered, once, with room for TakeCap.
RxBuffered ==
  /\ pc = "ready"
  /\ LET n == AtMost(Len(buf), TakeCap)
     IN /\ fed' = fed \o Frames(SubSeq(buf, 1, n))
        /\ buf' = SubSeq(buf, n + 1, Len(buf))
  /\ pc' = "streaming"
  /\ UNCHANGED <<step, resp, request, auth, session, need, wire, playing, rtp>>

\* The demultiplexer passes over text.
RxReceives ==
  /\ pc = "streaming"
  /\ \E k \in 1..Len(wire) :
       /\ fed' = fed \o Frames(SubSeq(wire, 1, k))
       /\ wire' = SubSeq(wire, k + 1, Len(wire))
  /\ UNCHANGED <<pc, step, resp, request, auth, session, buf, need, playing, rtp>>

\* Its response is left to the demultiplexer; its failure is passed over.
rtsp_client_send_keepalive ==
  /\ pc = "streaming" /\ have_session /\ cseq < MaxCseq
  /\ send_request("OPTIONS") \/ send_fails
  /\ UNCHANGED <<pc, step, resp, auth, session, reading, streaming>>

\* Mutant: only a client that plays says good-bye.
Teardown_WhenPlaying ==
  IF have_session /\ pc # "failed"
    THEN /\ have_session' = FALSE
         /\ \/ send_request("TEARDOWN") /\ ended' = ended + 1 /\ UNCHANGED unsent
            \/ send_fails /\ unsent' = unsent + 1 /\ UNCHANGED ended
    ELSE UNCHANGED <<request, have_session, ended, unsent>>

\* rtsp_client_teardown: tried once, its response not read; with the camera
\* lost it goes nowhere, and the session is forgotten all the same.
Teardown ==
  IF have_session
    THEN /\ have_session' = FALSE
         /\ \/ send_request("TEARDOWN") /\ ended' = ended + 1 /\ UNCHANGED unsent
            \/ send_fails /\ unsent' = unsent + 1 /\ UNCHANGED ended
    ELSE UNCHANGED <<request, have_session, ended, unsent>>

\* viewer_close, at any time after play has returned.
Close ==
  /\ pc \in {"ready", "streaming", "failed"}
  /\ Teardown
  /\ pc' = "closed"
  /\ wire' = <<>> /\ buf' = <<>>
  /\ UNCHANGED <<step, resp, auth, told, need, streaming>>

\* The next viewer, on a connection of its own.
Reopen ==
  /\ pc = "closed"
  /\ pc' = "opened" /\ step' = 1 /\ resp' = NoResponse
  /\ cseq' = 0 /\ serial' = 0 /\ asked' = NoRequest
  /\ have_challenge' = FALSE /\ attempt' = 0 /\ refused' = FALSE
  /\ have_session' = FALSE /\ told' = 0 /\ ended' = 0 /\ unsent' = 0
  /\ need' = 0 /\ UNCHANGED <<buf, wire>>
  /\ fed' = <<>> /\ playing' = FALSE /\ rtp' = 0

Client ==
  \/ Play \/ RxBuffered \/ RxReceives \/ rtsp_client_send_keepalive
  \/ Close \/ Reopen

-----------------------------------------------------------------------------
(* The camera *)

\* The connection is of use; what comes later changes nothing.
Live == pc \in {"send", "read", "body", "ready", "streaming"}

Bodies(method) == IF method = "DESCRIBE" THEN 0..BodyCap+1 ELSE {0}
Sessions(method) == IF method = "SETUP" THEN BOOLEAN ELSE {FALSE}

\* Right or wrong, with the CSeq of the request or without one.
Replies(r) ==
       {Header(r.serial, r.cseq, "ok", "none", s, b) :
          s \in Sessions(r.method), b \in Bodies(r.method)}
  \cup {Header(r.serial, r.cseq, "401", c, FALSE, 0) :
          c \in {"none", "fresh", "stale"}}
  \cup {Header(r.serial, n, "other", "none", FALSE, 0) : n \in {0, r.cseq}}

\* It may answer a request late, more than once, or not at all; of a body
\* that is too long only the beginning is kept, the play ends at its header.
Answers ==
  /\ asked # NoRequest /\ Live
  /\ \E h \in Replies(asked) :
       LET sent == <<h>> \o [i \in 1..AtMost(h.body, BodyCap) |-> Body]
       IN /\ Len(wire \o sent) <= WireCap
          /\ wire' = wire \o sent
          /\ playing' = (playing \/ (asked.method = "PLAY" /\ h.code = "ok"))
  /\ UNCHANGED <<pc, step, resp, request, auth, session, buf, need, fed, rtp>>

\* It streams once it has said so.
Streams ==
  /\ playing /\ Live
  /\ rtp < MaxRtp /\ Len(wire) < WireCap
  /\ rtp' = rtp + 1
  /\ wire' = Append(wire, Rtp(rtp'))
  /\ UNCHANGED <<pc, step, resp, request, auth, session, buf, need, fed, playing>>

\* A peer that does not speak RTSP.
Babbles ==
  /\ ~playing /\ Live
  /\ Len(wire) < WireCap
  /\ wire' = Append(wire, Junk)
  /\ UNCHANGED <<pc, step, resp, request, auth, session, buf, need, streaming>>

Next == Client \/ Answers \/ Streams \/ Babbles

\* Every call of play is bounded by the timeout of the socket.
Spec == Init /\ [][Next]_vars /\ WF_vars(Play)

-----------------------------------------------------------------------------
(* Properties *)

Playing == pc \in {"opened", "send", "read", "body"}

Headers ==
  [t : {"hdr"}, to : Nat, cseq : Nat, code : {"none", "ok", "401", "other"},
   chal : {"none", "fresh", "stale"}, session : BOOLEAN, body : Nat]
Units == Headers \cup {Body, Junk} \cup [t : {"rtp"}, n : Nat]
Requests ==
  [serial : Nat, cseq : Nat,
   method : {"none", "OPTIONS", "DESCRIBE", "SETUP", "PLAY", "TEARDOWN"}]

TypeOK ==
  /\ pc \in {"opened", "send", "read", "body", "failed", "ready", "streaming",
             "closed"}
  /\ step \in 1..4 /\ attempt \in 0..2
  /\ cseq \in Nat /\ serial \in Nat
  /\ asked \in Requests
  /\ have_challenge \in BOOLEAN /\ refused \in BOOLEAN
  /\ have_session \in BOOLEAN /\ told \in 0..1 /\ ended \in 0..1
  /\ unsent \in 0..1
  /\ buf \in Seq(Units) /\ Len(buf) <= BufCap
  /\ need \in 0..BodyCap /\ resp \in Headers
  /\ wire \in Seq(Units) /\ fed \in Seq(Units)
  /\ playing \in BOOLEAN /\ rtp \in Nat

(* A response that is acted upon was made for the request that waits for   *)
(* it, not for an earlier one ("CSeq不一致は...打ち切る", read_response).   *)
AnswersMatch == pc = "body" => resp.to = serial

(* Once credentials were refused they are not offered again in this play   *)
(* ("無限に再送しない", request_with_auth).                                 *)
RefusedIsFinal ==
  [][refused /\ serial' > serial => asked'.method = "TEARDOWN"]_vars

(* Between the response to PLAY and the demultiplexer no byte of the       *)
(* stream is lost, doubled or read as text.                                *)
StreamIntact ==
  pc \in {"ready", "streaming"} =>
    fed \o Frames(buf \o wire) = [i \in 1..rtp |-> Rtp(i)]

(* For a session that was set up one TEARDOWN is tried when the viewer     *)
(* goes, however far the play came, and none for any other: the camera     *)
(* keeps a session only when that TEARDOWN could not be sent (best effort, *)
(* rtsp_client.c:648-664).                                                 *)
SessionsEnd == pc = "closed" => told = ended + unsent

(* Whatever the camera sends, or does not send, play returns.              *)
PlayEnds == Playing ~> ~Playing
=============================================================================
