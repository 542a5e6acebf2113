---------------------------- MODULE RvdPublish ----------------------------
(***************************************************************************)
(* What an encoder thread of rvd does with one frame: correct the SPS,     *)
(* drop a torn JPEG, publish a reference into the encoder's own buffer or  *)
(* copy the NALs into the ring, report what the ring refused, and publish  *)
(* the mapping from the media clock to UTC.  The ring is external.         *)
(***************************************************************************)
EXTENDS Integers, FiniteSets, Sequences, SequencesExt

CONSTANTS
    RefBase, RefSize, \* the region a reference must lie in
    PageSize,         \* 0x1000
    FBufs,            \* 8: buffers a stream may learn
    RingBufs,         \* RSS_RING_MAX_REF_BUFS
    Starts,           \* addresses a frame may start at
    FLens,            \* lengths it may have
    RingData,         \* the data region of a refmode ring, 4096 in the code
    FrameMax,         \* bound: frames per stream
    ClockGap,         \* the 1000 us a UTC sample may take
    Lags              \* time that may pass between two reads of a clock

ASSUME RvdPublishConstants ==
    /\ RefBase \in Nat /\ RefSize \in Nat /\ PageSize \in Nat \ {0}
    /\ FBufs \in Nat /\ RingBufs >= FBufs
    /\ FrameMax \in Nat /\ ClockGap \in Nat
    /\ Starts \subseteq Nat /\ FLens \subseteq Nat /\ Lags \subseteq Nat

VARIABLES
    kind,   \* [jpeg, refmode, vui] of the stream
    known,  \* enc_buf_addrs: the pages learned, in order
    out,    \* the last thing published, empty at first
    tally,  \* frames the encoder yielded, published, reported, torn
    utc     \* the error of the published UTC offset, doubled

fvars == <<kind, known, out, tally, utc>>

-----------------------------------------------------------------------------
Page(a) == a - (a % PageSize)

OutsideStart(f) ==
    \/ f.at < RefBase
    \/ f.at - RefBase > RefSize

\* The checks that keep a reference inside the region, each guarding the next
\* against wrap-around.
Outside(f) ==
    \/ f.len > RefSize
    \/ f.at < RefBase
    \/ f.at - RefBase > RefSize - f.len

BufIdxLast(f) == Len(known) - (IF Page(f.at) \in Range(known) THEN 1 ELSE 0)

\* The index of a frame's buffer: a page already learned or the next free slot.
BufIdx(f) ==
    IF Page(f.at) \in Range(known)
    THEN SelectInSeq(known, LAMBDA p : p = Page(f.at)) - 1
    ELSE Len(known)

Learn(f) == IF Page(f.at) \in Range(known) THEN known ELSE Append(known, Page(f.at))
Full(f) == Page(f.at) \notin Range(known) /\ Len(known) >= FBufs

\* What every key frame of a video stream carries once the SPS is corrected;
\* an SPS the editor cannot parse is left as it is.
Declared(f) == kind.vui /\ ~kind.jpeg /\ f.key /\ f.sps = "plain"
Corrected(f) == IF Declared(f) THEN "fixed" ELSE f.sps

DroppedSilently(f) == tally' = [tally EXCEPT !.made = @ + 1]

\* A refused publish is a drop the ring must hear of, except for JPEG.
Dropped(f) ==
    tally' = [tally EXCEPT !.made = @ + 1, !.told = IF kind.jpeg THEN @ ELSE @ + 1]

Published(f, ref, idx) ==
    /\ tally' = [tally EXCEPT !.made = @ + 1, !.sent = @ + 1]
    /\ out' = <<[at |-> f.at, len |-> f.len, ref |-> ref, buf |-> idx,
                 sps |-> Corrected(f), key |-> f.key, was |-> f.sps, tail |-> f.tail]>>

\* The copy into the ring, refused when the frame outgrows its data region.
embedded_publish(f) ==
    /\ UNCHANGED known
    /\ IF kind.refmode /\ f.len > RingData
       THEN Dropped(f) /\ UNCHANGED out
       ELSE Published(f, FALSE, 0)

publish_ref(f) ==
    /\ known' = Learn(f)
    /\ \/ Dropped(f) /\ UNCHANGED out      \* the ring refuses it
       \/ BufIdx(f) < RingBufs /\ Published(f, TRUE, BufIdx(f))

\* One frame taken from the encoder.
Frame(f) ==
    /\ tally.made < FrameMax
    /\ IF kind.jpeg /\ f.tail = "torn"
       THEN tally' = [tally EXCEPT !.made = @ + 1, !.torn = @ + 1] /\ UNCHANGED <<known, out>>
       ELSE IF kind.refmode /\ f.whole /\ ~Outside(f) /\ ~Full(f)
       THEN publish_ref(f)
       ELSE embedded_publish(f)
    /\ UNCHANGED <<kind, utc>>

UtcUnchecked(d1, d2) ==
    /\ utc' = (d1 + d2) - 2 * d1
    /\ UNCHANGED <<kind, known, out, tally>>

\* The mapping is sampled between two reads of the media clock; a sample that
\* took too long is left for the next interval.  utc keeps twice its error.
publish_utc_mapping(d1, d2) ==
    /\ utc' = IF d1 + d2 > ClockGap THEN utc ELSE (d1 + d2) - 2 * d1
    /\ UNCHANGED <<kind, known, out, tally>>

Frames == [at : Starts, len : FLens, whole : BOOLEAN, key : BOOLEAN,
           sps : {"plain", "odd"}, tail : {"eoi", "torn"}]

FInit ==
    /\ kind \in {k \in [jpeg : BOOLEAN, refmode : BOOLEAN, vui : BOOLEAN] : ~(k.jpeg /\ k.refmode)}
    /\ known = <<>>
    /\ out = <<>>
    /\ tally = [made |-> 0, sent |-> 0, told |-> 0, torn |-> 0]
    /\ utc = 0

FNext ==
    \/ \E f \in Frames : Frame(f)
    \/ \E d1 \in Lags, d2 \in Lags : publish_utc_mapping(d1, d2)

FSpec == FInit /\ [][FNext]_fvars

-----------------------------------------------------------------------------
FTypeOK ==
    /\ Len(known) <= FBufs
    /\ tally \in [made : 0..FrameMax, sent : 0..FrameMax, told : 0..FrameMax, torn : 0..FrameMax]
    /\ utc \in Int

\* A reference a consumer follows lies inside the region it maps, and its
\* buffer index names the page it lies in: two references with one index are
\* in one buffer, whatever frames came between.
RefsSound ==
    \A o \in Range(out) : o.ref =>
        /\ o.at >= RefBase /\ o.at + o.len <= RefBase + RefSize
        /\ o.buf < Len(known) /\ known[o.buf + 1] = Page(o.at)

\* Every frame of a video stream is either in the ring or reported to it as
\* lost, so that no consumer decodes across a gap it cannot see; a JPEG that
\* reaches the ring is whole; a correctable SPS is corrected in both modes.
FramesAccounted ==
    /\ ~kind.jpeg => tally.made = tally.sent + tally.told
    /\ \A o \in Range(out) :
         /\ kind.jpeg => o.tail = "eoi"
         /\ kind.vui /\ ~kind.jpeg /\ o.key /\ o.was = "plain" => o.sps = "fixed"

\* The published UTC offset is within half the sampling window of the truth.
UtcTrue == utc <= ClockGap /\ -utc <= ClockGap

=============================================================================
