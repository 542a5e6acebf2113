------------------------------ MODULE RwdAudio ------------------------------
(***************************************************************************)
(* rwd's audio reader: it opens the ring, decides the codec on the wire,   *)
(* passes frames through or decodes and re-encodes them in fixed 20 ms     *)
(* frames out of an accumulator, and closes a ring gone idle.  Beside it   *)
(* the main thread answers offers and sets up senders.                     *)
(***************************************************************************)
EXTENDS Naturals

CONSTANTS AFrame,     \* samples of one Opus frame
          ADecodes,   \* samples one ring frame may decode to
          ACap,       \* room of the accumulator
          AMode,      \* audio_mode: opus, pcmu, auto
          AIdleMax

ASSUME RwdAudioConstants == /\ {AFrame, ACap, AIdleMax} \subseteq Nat \ {0} /\ ADecodes \subseteq Nat
                     /\ AMode \in {"opus", "pcmu", "auto"}

VARIABLES aring,     \* closed, opening (wire not decided), open
          acodec, awire,   \* codec of the ring, wire_codec
          apt,       \* a client: payload type its answer names, "none" without one
          asend,     \* payload type its sender was built with, "none" without one
          fill, batch,    \* pcm_accum_fill; samples of the newest decode
          tsInit, idleA

avars == <<aring, acodec, awire, apt, asend, fill, batch, tsInit, idleA>>
client == <<apt, asend>>
Codecs == {"opus", "pcmu", "aac"}

AInit == /\ aring = "closed" /\ acodec = "none" /\ awire = "opus" /\ apt = "none" /\ asend = "none"
        /\ fill = 0 /\ batch = 0 /\ tsInit = FALSE /\ idleA = 0

Transcode == awire # acodec

AOpen == /\ aring = "closed" /\ aring' = "opening" /\ acodec' \in Codecs
         /\ UNCHANGED <<awire, client, fill, batch, tsInit, idleA>>

(* auto keeps Opus and PCMU and turns the rest to Opus. *)
WireFor(c) == IF AMode # "auto" THEN AMode ELSE IF c = "pcmu" THEN "pcmu" ELSE "opus"

ADecide ==
    /\ aring = "opening" /\ aring' = "open" /\ awire' = WireFor(acodec)
    /\ fill' = 0 /\ batch' = 0 /\ tsInit' = FALSE /\ idleA' = 0
    /\ UNCHANGED <<acodec, client>>

AIdle ==
    /\ aring = "open" /\ asend # "none" /\ fill < AFrame
    /\ IF idleA + 1 >= AIdleMax THEN aring' = "closed" /\ idleA' = 0
       ELSE idleA' = idleA + 1 /\ UNCHANGED aring
    /\ UNCHANGED <<acodec, awire, client, fill, batch, tsInit>>

(* A frame with nobody to send it to empties the accumulator. *)
ANobody ==
    /\ aring = "open" /\ asend = "none" /\ fill < AFrame
    /\ fill' = 0 /\ tsInit' = FALSE /\ batch' = 0
    /\ UNCHANGED <<aring, acodec, awire, client, idleA>>

ADecodeAhead(n) ==  \* mutant: the next frame is decoded before the last is used up
    /\ aring = "open" /\ asend # "none"
    /\ IF Transcode /\ awire = "opus" /\ ACap - fill >= ACap \div 2
       THEN fill' = fill + n /\ batch' = n /\ tsInit' = TRUE
       ELSE UNCHANGED <<fill, batch, tsInit>>
    /\ idleA' = 0 /\ UNCHANGED <<aring, acodec, awire, client>>

(* One ring frame: passed through, or decoded behind what is left.  The    *)
(* decoder writes its whole frame, so half the room must be free.          *)
ADecode(n) ==
    /\ aring = "open" /\ asend # "none" /\ fill < AFrame
    /\ IF Transcode /\ awire = "opus" /\ ACap - fill >= ACap \div 2
       THEN fill' = fill + n /\ batch' = n /\ tsInit' = TRUE
       ELSE UNCHANGED <<fill, batch, tsInit>>
    /\ idleA' = 0 /\ UNCHANGED <<aring, acodec, awire, client>>

(* One Opus frame out; the burst goes on while a whole one is there. *)
AEncode ==
    /\ fill >= AFrame /\ fill' = fill - AFrame
    /\ UNCHANGED <<aring, acodec, awire, client, batch, tsInit, idleA>>

(* The answer: audio is offered as sendrecv once there is a ring.  The     *)
(* sender is built later, if there is a ring then.                         *)
AAnswer ==
    /\ apt = "none" /\ asend = "none" /\ aring # "closed" /\ apt' = awire
    /\ UNCHANGED <<aring, acodec, awire, asend, fill, batch, tsInit, idleA>>
ASetup ==
    /\ asend = "none" /\ aring # "closed" /\ asend' = awire
    /\ UNCHANGED <<aring, acodec, awire, apt, fill, batch, tsInit, idleA>>
AGone ==
    /\ asend # "none" /\ fill < AFrame /\ asend' = "none" /\ apt' = "none"
    /\ UNCHANGED <<aring, acodec, awire, fill, batch, tsInit, idleA>>

ANext == \/ AOpen \/ ADecide \/ AIdle \/ ANobody \/ AEncode \/ AAnswer \/ ASetup \/ AGone
        \/ \E n \in ADecodes : ADecode(n)
ASpec == AInit /\ [][ANext]_avars

-----------------------------------------------------------------------------
ATypeOK == /\ aring \in {"closed", "opening", "open"} /\ awire \in {"opus", "pcmu"}
          /\ fill \in Nat /\ tsInit \in BOOLEAN /\ idleA \in 0..AIdleMax - 1

(* "The frame just encoded ends pcm_accum_fill decoder-rate samples before *)
(* the newest decoded sample" (rwd_media.c:1520): what is left behind the  *)
(* frame came with the newest decode, so the capture instant it is stamped *)
(* with is its own; and no decode overruns the accumulator or is skipped.  *)
StampTrue == [][/\ (AEncode => fill' < batch)
                /\ (fill' > fill => fill' <= ACap /\ ACap - fill >= ACap \div 2)]_avars
=============================================================================
