------------------------------ MODULE RspPush ------------------------------
(***************************************************************************)
(* rsp: one loop that reads rvd's video ring and pushes it to a server,    *)
(* over RTMP (a connection with a handshake, sequence headers and audio)   *)
(* or as plain RTP over UDP.  The server refuses, errs, stalls and comes   *)
(* back; rvd restarts, changes codec or size; the user starts, stops and   *)
(* moves the push.  A frame is its kind and the parameter set (codec and   *)
(* geometry) it was encoded with.                                          *)
(***************************************************************************)
EXTENDS Naturals, Sequences, FiniteSets

CONSTANTS
    PuCodec,     \* parameter set -> its codec
    PuServers,   \* what the server may do: [tcp, shake, msgs]
    PuDepth,     \* frames the video ring keeps for a slow reader
    PuGop,       \* frames between two keyframes
    PuIdle,      \* quiet passes before the ring is given up (50)
    PuWait,      \* reconnect_delay in passes
    PuFaults     \* bound: faults and commands in a behaviour

PuSets == DOMAIN PuCodec

ASSUME RspPushConstants ==
    /\ {PuDepth, PuGop, PuIdle, PuWait} \subseteq Nat \ {0}
    /\ PuFaults \in Nat /\ IsFiniteSet(PuSets)
    /\ {"none", "bad"} \cap PuSets = {}   \* no parameters, and ones made of overwritten bytes

VARIABLES
    prod,   \* the living encoder: [set, since]: frames since its last keyframe
    vr,     \* the ring as mapped: [open, unread, lapped, idr, dead, codec, idle]
    ps,     \* the loop: [mode, pushing, was, wait, reopen, at]
    cn,     \* the connection: [up, header_sent, wait_key, params], what it was
            \* sent [hdr, ahdr] and whether it has had its first keyframe, joined
    aud,    \* the audio ring is attached
    wire,   \* the frame sent by the last step, or NoFrame
    psent,  \* video was sent since the encoder's last frame
    left    \* faults and commands left

puvars == <<prod, vr, ps, cn, aud, wire, psent, left>>

NoFrame == [kind |-> "none", key |-> FALSE, set |-> "none"]
Params == PuSets \cup {"none", "bad"}

\* rsp_rtmp_connect and rsp_net_open start a connection with nothing sent on it.
Fresh(c) == [c EXCEPT !.hdr = "none", !.ahdr = "none", !.joined = FALSE]
NewConn(c) == [Fresh(c) EXCEPT !.up = TRUE, !.header_sent = FALSE]
rsp_net_open(c) == [Fresh(c) EXCEPT !.up = TRUE, !.wait_key = TRUE]
rsp_net_close(c) == [c EXCEPT !.up = FALSE]
rsp_rtmp_disconnect(c) == [Fresh(c) EXCEPT !.up = FALSE]
rsp_disconnect(c) ==
    [(IF ps.mode = "udp" THEN rsp_net_close(c) ELSE rsp_rtmp_disconnect(c)) EXCEPT !.header_sent = FALSE]

PuInit ==
    /\ prod \in [set : PuSets, since : {PuGop}]
    /\ vr = [open |-> TRUE, unread |-> <<>>, lapped |-> FALSE, idr |-> FALSE,
             dead |-> FALSE, codec |-> PuCodec[prod.set], idle |-> 0]
    /\ \E m \in {"rtmp", "udp"}, auto \in BOOLEAN :
         ps = [mode |-> m, pushing |-> auto, was |-> FALSE, wait |-> 0,
               reopen |-> FALSE, at |-> "top"]
    /\ cn = [up |-> FALSE, header_sent |-> FALSE, wait_key |-> TRUE, params |-> "none",
             hdr |-> "none", ahdr |-> "none", joined |-> FALSE]
    /\ aud \in BOOLEAN /\ (ps.mode = "udp" => ~aud)
    /\ wire = NoFrame /\ psent = FALSE /\ left = PuFaults

Fault(cost) == left >= cost /\ left' = left - cost

-----------------------------------------------------------------------------
(* The encoder.  It laps a reader that does not read; one that does is     *)
(* overtaken only so often.                                                *)
Due == IF prod.since = PuGop \/ vr.idr THEN "key" ELSE "delta"
PuProduce ==
    /\ LET f == [key |-> Due = "key", set |-> prod.set]
           live == vr.open /\ ~vr.dead
           room == Len(vr.unread) < PuDepth /\ ~vr.lapped
       IN /\ prod' = [prod EXCEPT !.since = IF f.key THEN 0 ELSE @ + 1]
          /\ Fault(IF live /\ ~room /\ cn.up /\ ps.pushing THEN 1 ELSE 0)
          /\ vr' = IF ~live THEN vr
                   ELSE IF room
                   THEN [vr EXCEPT !.unread = Append(@, f), !.idr = FALSE]
                   ELSE [vr EXCEPT !.unread = <<f>>, !.lapped = TRUE, !.idr = FALSE]
    /\ psent' = FALSE /\ wire' = NoFrame
    /\ UNCHANGED <<ps, cn, aud>>

\* rvd restarts: the mapped ring is dead, and the new one may be of another codec.
Restart ==
    /\ Fault(1)
    /\ \E s \in PuSets : prod' = [set |-> s, since |-> PuGop]
    /\ vr' = [vr EXCEPT !.dead = @ \/ vr.open]
    /\ wire' = NoFrame
    /\ UNCHANGED <<ps, cn, aud, psent>>

\* set-resolution: another parameter set in the same ring, from a keyframe on.
Resize ==
    /\ Fault(1) /\ ~vr.dead
    /\ \E s \in PuSets \ {prod.set} : PuCodec[s] = PuCodec[prod.set] /\ prod' = [set |-> s, since |-> PuGop]
    /\ wire' = NoFrame
    /\ UNCHANGED <<vr, ps, cn, aud, psent>>

-----------------------------------------------------------------------------
(* rsp_ctrl_handler, called from the loop.  A new address drops an RTMP    *)
(* connection at once; over UDP the loop reopens the socket.               *)
rsp_ctrl_handler ==
    /\ ps.at = "top" /\ Fault(1)
    /\ \/ ps' = [ps EXCEPT !.pushing = TRUE] /\ UNCHANGED cn
       \/ ps' = [ps EXCEPT !.pushing = FALSE] /\ UNCHANGED cn
       \/ /\ ps' = [ps EXCEPT !.reopen = ps.mode = "udp"]
          /\ cn' = IF ps.mode = "rtmp" /\ cn.up THEN rsp_disconnect(cn) ELSE cn
    /\ wire' = NoFrame
    /\ UNCHANGED <<prod, vr, aud, psent>>

-----------------------------------------------------------------------------
(* Connecting.  The states of rsp_conn_state_t, and what a message of the  *)
(* server makes of them; other messages change nothing here.               *)
HANDSHAKE == 1
CONNECTING == 2
CONNECTED == 3
PUBLISHING == 4
RSP_STATE_ERROR == 5

rtmp_process_message(state, msg) ==
    CASE msg = "_result" /\ state \in {HANDSHAKE, CONNECTING} -> state + 1
      [] msg = "onStatus" -> PUBLISHING
      [] msg = "_error" -> RSP_STATE_ERROR
      [] OTHER -> state

\* rtmp_read_responses: messages are taken until the target state or the
\* error is reached; a server that falls silent before that is a timeout.
StateAfter(state, msgs) ==
    LET s[k \in 0..Len(msgs)] == IF k = 0 THEN state ELSE rtmp_process_message(s[k - 1], msgs[k])
    IN s
rtmp_read_responses(r, target) ==
    LET s == StateAfter(r.state, r.msgs)
        done == {k \in 0..Len(r.msgs) : s[k] >= target}
        k == CHOOSE k \in done : \A j \in done : k <= j
    IN IF ~r.ok \/ done = {} THEN [r EXCEPT !.ok = FALSE]
       ELSE [ok |-> s[k] # RSP_STATE_ERROR, state |-> s[k], msgs |-> SubSeq(r.msgs, k + 1, Len(r.msgs))]

\* rsp_rtmp_connect and rsp_rtmp_publish: every failure disconnects.
rsp_rtmp_connect(srv) ==
    LET start == [ok |-> srv.tcp /\ srv.shake, state |-> HANDSHAKE, msgs |-> srv.msgs]
    IN rtmp_read_responses(rtmp_read_responses(start, CONNECTING), CONNECTED)
rsp_rtmp_publish(r) == rtmp_read_responses(r, PUBLISHING)
Accepting == {srv \in PuServers : rsp_rtmp_publish(rsp_rtmp_connect(srv)).ok}
Accepts(srv) == srv \in Accepting

Stopped(p) == [p EXCEPT !.was = FALSE, !.wait = IF p.was THEN 0 ELSE @]

\* A pass that is not to push: the stop is carried out once.
NotPushing ==
    /\ ps.at = "top" /\ ~ps.pushing
    /\ ps' = Stopped(ps)
    /\ cn' = IF ps.was THEN rsp_disconnect(cn) ELSE cn
    /\ wire' = NoFrame
    /\ UNCHANGED <<prod, vr, aud, psent, left>>

BackOff ==
    /\ ps.at = "top" /\ ps.pushing /\ ps.wait > 1
    /\ ps' = [ps EXCEPT !.wait = @ - 1]
    /\ wire' = NoFrame
    /\ UNCHANGED <<prod, vr, cn, aud, psent, left>>

Ready == ps.at = "top" /\ ps.pushing /\ ps.wait <= 1

\* The connection is there, or is made, or the next try waits.
ConnectRtmp ==
    /\ Ready /\ ps.mode = "rtmp"
    /\ \/ cn.up /\ ps' = [ps EXCEPT !.wait = 0, !.at = "media"] /\ UNCHANGED <<cn, left>>
       \/ /\ ~cn.up
          /\ \E srv \in PuServers :
               /\ Fault(IF Accepts(srv) THEN 0 ELSE 1)
               /\ cn' = IF Accepts(srv) THEN NewConn(cn) ELSE rsp_rtmp_disconnect(cn)
               /\ ps' = IF Accepts(srv) THEN [ps EXCEPT !.wait = 0, !.was = TRUE, !.at = "media"]
                        ELSE [ps EXCEPT !.wait = PuWait]
    /\ wire' = NoFrame
    /\ UNCHANGED <<prod, vr, aud, psent>>

ConnectUdp ==
    /\ Ready /\ ps.mode = "udp"
    /\ LET up == cn.up /\ ~ps.reopen
           closed == IF ps.reopen THEN rsp_net_close(cn) ELSE cn
           idle == [ps EXCEPT !.wait = 0, !.reopen = FALSE]
       IN \/ up /\ ps' = [idle EXCEPT !.at = "media"] /\ UNCHANGED <<cn, vr, left>>
          \/ /\ ~up /\ cn' = rsp_net_open(closed) /\ ps' = [idle EXCEPT !.at = "media", !.was = TRUE]
             /\ vr' = [vr EXCEPT !.idr = @ \/ vr.open] /\ UNCHANGED left
          \/ /\ ~up /\ Fault(1) /\ cn' = closed /\ ps' = [idle EXCEPT !.wait = PuWait]
             /\ UNCHANGED vr
    /\ wire' = NoFrame
    /\ UNCHANGED <<prod, aud, psent>>

-----------------------------------------------------------------------------
(* The rest of the pass. *)
Media == ps.at = "media"
PassEnds == ps' = [ps EXCEPT !.at = "top"]
Dropped == /\ cn' = rsp_disconnect(cn)
           /\ ps' = [ps EXCEPT !.at = "top", !.wait = PuWait]

\* The messages: what the server has been told, and what it was sent.
rsp_rtmp_send_video_header(c, p) == [c EXCEPT !.hdr = p]
rsp_rtmp_send_audio_header(c, sent) == [c EXCEPT !.ahdr = sent]
rsp_rtmp_send_video(c, f) == [c EXCEPT !.joined = @ \/ f.key]
rsp_rtmp_send_audio(f) == [kind |-> IF aud THEN "both" ELSE "video", key |-> f.key, set |-> f.set]

\* The audio ring is attached some passes after it appears, and described to a
\* server that was already given the video's headers; whether that was sent
\* is not looked at.
AttachAudio ==
    /\ Media /\ ps.mode = "rtmp" /\ ~aud
    /\ aud' = TRUE
    /\ \/ cn.header_sent /\ cn' = rsp_rtmp_send_audio_header(cn, "sent") /\ UNCHANGED left
       \/ cn.header_sent /\ Fault(1) /\ cn' = rsp_rtmp_send_audio_header(cn, "failed")
       \/ ~cn.header_sent /\ UNCHANGED <<cn, left>>
    /\ wire' = NoFrame
    /\ UNCHANGED <<prod, vr, ps, psent>>

\* The ring was given up: the current one is opened, at its newest frame.
Newest == IF prod.since = 0 THEN <<[key |-> TRUE, set |-> prod.set]>>
          ELSE <<[key |-> FALSE, set |-> prod.set]>>
Opened(rest) == [open |-> TRUE, unread |-> rest, lapped |-> rest # <<>>, dead |-> FALSE, idle |-> 0,
                 idr |-> ps.mode = "udp", codec |-> PuCodec[prod.set]]
ReopenKeepsHeader ==
    /\ Media /\ ~vr.open
    /\ \E rest \in {<<>>, Newest} : vr' = Opened(rest)
    /\ cn' = [cn EXCEPT !.params = "none", !.joined = FALSE,
                        !.wait_key = @ \/ ps.mode = "udp"]
    /\ PassEnds /\ wire' = NoFrame
    /\ UNCHANGED <<prod, aud, psent, left>>
ReopenVideo ==
    /\ Media /\ ~vr.open
    /\ \E rest \in {<<>>, Newest} : vr' = Opened(rest)
    /\ cn' = [cn EXCEPT !.params = "none", !.header_sent = FALSE, !.joined = FALSE,
                        !.wait_key = @ \/ ps.mode = "udp"]
    /\ PassEnds /\ wire' = NoFrame
    /\ UNCHANGED <<prod, aud, psent, left>>

\* The buffers for it cannot be allocated: the ring stays closed.
ReopenFails ==
    /\ Media /\ ~vr.open /\ Fault(1)
    /\ PassEnds /\ wire' = NoFrame
    /\ UNCHANGED <<prod, vr, cn, aud, psent>>

\* Nothing to read: a ring that stays quiet is closed, dead or not.
IdleKeeps ==
    /\ Media /\ vr.open /\ vr.unread = <<>>
    /\ vr' = [vr EXCEPT !.idle = IF @ < PuIdle THEN @ + 1 ELSE @]
    /\ PassEnds /\ wire' = NoFrame
    /\ UNCHANGED <<prod, cn, aud, psent, left>>
IdleVideo ==
    /\ Media /\ vr.open /\ vr.unread = <<>>
    /\ IF vr.idle + 1 < PuIdle THEN vr' = [vr EXCEPT !.idle = @ + 1] /\ UNCHANGED left
       ELSE /\ vr' = [vr EXCEPT !.open = FALSE, !.idle = 0, !.dead = FALSE, !.idr = FALSE]
            /\ Fault(IF vr.dead THEN 0 ELSE 1)    \* a living encoder is this quiet seldom
    /\ PassEnds /\ wire' = NoFrame
    /\ UNCHANGED <<prod, cn, aud, psent>>

\* The writer lapped the cursor (ask for a keyframe), or the frame outgrew
\* the buffer (grow it): the frame is lost.
ReadFails ==
    /\ Media /\ vr.open /\ vr.unread # <<>>
    /\ \/ vr.lapped /\ vr' = [vr EXCEPT !.lapped = FALSE, !.idr = TRUE] /\ UNCHANGED left
       \/ ~vr.lapped /\ Fault(1) /\ vr' = [vr EXCEPT !.unread = Tail(@)]
    /\ PassEnds /\ wire' = NoFrame
    /\ UNCHANGED <<prod, cn, aud, psent>>

\* rsp_video_peek_ok: the writer lapped the frame while it was used in place.
Peeked(r, torn) == [r EXCEPT !.unread = Tail(@), !.idle = 0, !.idr = @ \/ torn]
Unready(c, torn) == IF torn THEN [c EXCEPT !.params = "none"] ELSE c

\* rsp_net_send_video: datagrams are on the wire whatever became of the peek.
Joins(f) == f.key \/ ~cn.wait_key
SendUdp ==
    /\ Media /\ ps.mode = "udp" /\ vr.open /\ vr.unread # <<>> /\ ~vr.lapped
    /\ LET f == Head(vr.unread)
       IN \E torn, ok \in BOOLEAN :
            /\ Fault(IF torn \/ ~ok THEN 1 ELSE 0)
            /\ vr' = Peeked(vr, torn)
            /\ IF Joins(f)
               THEN /\ cn' = Unready([cn EXCEPT !.wait_key = FALSE, !.joined = @ \/ f.key], torn)
                    /\ wire' = [kind |-> "video", key |-> f.key, set |-> f.set]
                    /\ psent' = (ok /\ ~torn)
               ELSE cn' = Unready(cn, torn) /\ wire' = NoFrame /\ UNCHANGED psent
    /\ PassEnds
    /\ UNCHANGED <<prod, aud>>

\* The RTMP path of a frame.  Parameters are taken from the first keyframe,
\* the sequence headers precede it, and a frame that raced the writer is
\* dropped before it is sent.
Extracted(f, torn) ==
    IF ~f.key \/ cn.params # "none" THEN {cn.params}
    ELSE IF torn THEN {f.set, "bad"} ELSE {f.set}
rsp_send_headers(c, p) ==
    LET v == [rsp_rtmp_send_video_header(c, p) EXCEPT !.header_sent = TRUE]
    IN IF aud THEN rsp_rtmp_send_audio_header(v, "sent") ELSE v
Headers(p, f) == LET c == [cn EXCEPT !.params = p]
                 IN IF cn.header_sent \/ ~f.key THEN c ELSE rsp_send_headers(c, p)

SkipRtmp(f, torn, p) ==   \* nothing is described yet, or the bytes were overwritten
    LET c == IF p = "none" THEN [cn EXCEPT !.params = p] ELSE Headers(p, f)
    IN /\ torn \/ p = "none" \/ ~c.header_sent
       /\ cn' = Unready(c, torn) /\ PassEnds /\ wire' = NoFrame /\ UNCHANGED psent
SendFails(f, torn, p) ==  \* the headers, the frame or the audio after it
    /\ p # "none" /\ Headers(p, f).header_sent
    /\ ~torn \/ ~cn.header_sent
    /\ Dropped /\ wire' = NoFrame /\ UNCHANGED psent
SendRtmp(f, torn, p) ==
    /\ ~torn /\ p # "none" /\ Headers(p, f).header_sent
    /\ cn' = rsp_rtmp_send_video(Headers(p, f), f)
    /\ wire' = rsp_rtmp_send_audio(f)
    /\ psent' = TRUE /\ PassEnds

VideoRtmp ==
    /\ Media /\ ps.mode = "rtmp" /\ vr.open /\ vr.unread # <<>> /\ ~vr.lapped
    /\ LET f == Head(vr.unread)
       IN \E torn \in BOOLEAN : \E p \in Extracted(f, torn) :
            /\ vr' = Peeked(vr, torn)
            /\ \/ SkipRtmp(f, torn, p) /\ Fault(IF torn THEN 1 ELSE 0)
               \/ SendRtmp(f, torn, p) /\ UNCHANGED left
               \/ SendFails(f, torn, p) /\ Fault(1)
    /\ UNCHANGED <<prod, aud>>

Top == NotPushing \/ BackOff \/ ConnectRtmp \/ ConnectUdp
Rest == AttachAudio \/ ReopenVideo \/ IdleVideo \/ ReadFails \/ SendUdp \/ VideoRtmp
PuLoop == Top \/ Rest
PuNext == PuProduce \/ Restart \/ Resize \/ rsp_ctrl_handler \/ ReopenFails \/ PuLoop

\* The loop runs and the encoder encodes.
PuFair == WF_puvars(PuProduce) /\ WF_puvars(PuLoop)
PuSpec == PuInit /\ [][PuNext]_puvars /\ PuFair

-----------------------------------------------------------------------------
PuTypeOK ==
    /\ prod \in [set : PuSets, since : 0..PuGop]
    /\ Len(vr.unread) <= PuDepth /\ vr.idle \in 0..PuIdle /\ vr.lapped \in BOOLEAN
    /\ ps.wait \in 0..PuWait /\ ps.at \in {"top", "media"}
    /\ cn.params \in Params /\ cn.hdr \in Params
    /\ cn.ahdr \in {"none", "sent", "failed"}
    /\ left \in 0..PuFaults

\* Across reconnects, new addresses and encoder restarts, what is sent starts
\* at a keyframe of the ring being read, follows sequence headers of its
\* codec on this very connection (rsp_connect, rsp_send_headers, the ring
\* reopening in push_loop), and audio follows its own header or one whose
\* send failed unseen.
WireDescribed ==
    wire.kind # "none" =>
        /\ cn.up /\ cn.joined
        /\ ps.mode = "rtmp" =>
             /\ cn.header_sent /\ cn.hdr # "none"
             /\ cn.hdr \in PuSets => PuCodec[cn.hdr] = PuCodec[wire.set]
        /\ wire.kind = "both" => cn.ahdr # "none"

\* push_loop: as long as it is to push, video goes out again whatever the
\* server, the rings and the encoder did; once stopped, the connection is closed.
PushFollows == []<>(IF ps.pushing THEN psent ELSE ~cn.up)

\* The comment of rsp_video_peek_ok: what was taken from an overwritten frame
\* is dropped and replaced by a fresh keyframe's.  Video is not sent on under
\* headers made from such a frame.
HeadersRecover == wire.kind # "none" => cn.hdr # "bad"
=============================================================================
