---------------------------- MODULE RmrRecorder ----------------------------
(***************************************************************************)
(* rmr's record loop: one reader of the video ring that feeds a continuous *)
(* segment and a motion clip with pre-roll.  A frame is "key" or "delta".  *)
(* A file is [open, gap, track]; a delta written to a file with a gap, or  *)
(* after a break in the frames read, cannot be decoded.  Each action is    *)
(* one pass of the loop, or one command, which the loop handles between    *)
(* passes.                                                                 *)
(***************************************************************************)
EXTENDS Naturals, Sequences, SequencesExt

CONSTANTS Mode,        \* "continuous", "motion" or "both"
          PreCaps,     \* how many frames the pre-buffer may hold, 0: there is none
          Gop,         \* the encoder's longest distance between keyframes
          Codecs, Geometries  \* what rvd may come back with

ASSUME RecorderAssumption ==
    /\ Mode \in {"continuous", "motion", "both"}
    /\ PreCaps \subseteq Nat /\ Gop \in Nat \ {0} /\ Codecs # {} /\ Geometries # {}

VARIABLES recording, clipRecording,  \* the flags the commands set
          wasRecording, waitKey, params,
          ring,                      \* "open", "stale" (rvd gone), "closed"
          track,                     \* codec and geometry of the ring rvd publishes
          sinceKey, rvdUp,
          storeUp, clipUp, standby,
          preCap, geometry,          \* fixed at start: the pre-buffer's size; width, height
          segment, clip,             \* files
          pre,                       \* the video pre-buffer
          chain,                     \* ghost: why the frames taken do not form a
                                     \* decodable stream, "none" if they do
          broken, mixed              \* ghosts, of the last frame taken: <<file, cause>>
                                     \* where it was written and cannot be decoded,
                                     \* files that are of another track

flags == <<recording, clipRecording>>
recReader == <<wasRecording, waitKey, params>>
source == <<track, sinceKey, rvdUp>>
boot == <<preCap, geometry>>
stores == <<storeUp, clipUp>>
ghosts == <<broken, mixed>>
recvars == <<flags, recReader, ring, source, boot, stores, standby, segment, clip, pre, chain,
             ghosts>>

Clips == Mode \in {"motion", "both"}
Tracks == [codec : Codecs, geometry : Geometries]
NoFile == [open |-> FALSE, gap |-> "new", track |-> CHOOSE t \in Tracks : TRUE]
(* A new file is of the ring's codec, read anew with every ring, and of    *)
(* the geometry of the ring rmr started with.                              *)
RecFresh == [open |-> TRUE, gap |-> "new",
             track |-> [codec |-> track.codec, geometry |-> geometry]]
Gapped(f) == IF f.open THEN [f EXCEPT !.gap = "missing"] ELSE f

RecInit ==
    /\ recording = (Mode # "motion") /\ clipRecording = FALSE
    /\ wasRecording = FALSE /\ waitKey = FALSE /\ params = FALSE
    /\ ring = "open" /\ track \in Tracks /\ sinceKey = Gop - 1 /\ rvdUp = TRUE
    /\ storeUp = TRUE /\ clipUp = Clips /\ standby = FALSE
    /\ preCap \in PreCaps /\ geometry = track.geometry
    /\ segment = NoFile /\ clip = NoFile /\ pre = <<>>
    /\ chain = "none" /\ broken = {} /\ mixed = {}

-----------------------------------------------------------------------------
(* Commands. *)
Enable ==
    /\ recording' = TRUE /\ clipRecording' = (clipRecording \/ Mode = "both")
    /\ UNCHANGED <<recReader, ring, source, stores, standby, segment, clip, pre, chain, ghosts, boot>>
Disable ==
    /\ recording' = FALSE /\ clipRecording' = FALSE
    /\ UNCHANGED <<recReader, ring, source, stores, standby, segment, clip, pre, chain, ghosts, boot>>
Trigger(on) ==  \* start and stop, sent by rmd
    /\ recording' = IF Mode = "motion" THEN on ELSE recording
    /\ clipRecording' = IF Mode = "both" THEN on ELSE clipRecording
    /\ UNCHANGED <<recReader, ring, source, stores, standby, segment, clip, pre, chain, ghosts, boot>>

-----------------------------------------------------------------------------
(* No writable destination: close the files, let go of the ring, poll. *)
HaveDest == storeUp \/ clipUp
StandbyAttached ==  \* mutant: the ring stays acquired
    /\ ~HaveDest /\ ~standby
    /\ standby' = TRUE
    /\ segment' = [segment EXCEPT !.open = FALSE] /\ clip' = [clip EXCEPT !.open = FALSE]
    /\ wasRecording' = (wasRecording /\ ~segment.open)
    /\ UNCHANGED <<flags, waitKey, params, ring, source, stores, pre, chain, ghosts, boot>>
Standby ==
    /\ ~HaveDest /\ ~standby
    /\ standby' = TRUE
    /\ segment' = [segment EXCEPT !.open = FALSE] /\ clip' = [clip EXCEPT !.open = FALSE]
    /\ wasRecording' = (wasRecording /\ ~segment.open)
    /\ ring' = "closed"
    /\ UNCHANGED <<flags, waitKey, params, source, stores, pre, chain, ghosts, boot>>

RecReopen ==
    /\ HaveDest /\ ring = "closed" /\ rvdUp
    /\ standby' = FALSE
    /\ ring' = "open" /\ params' = FALSE /\ chain' = "lost"
    /\ UNCHANGED <<flags, wasRecording, waitKey, source, stores, segment, clip, pre, ghosts, boot>>

(* The ring has been silent for two seconds. *)
RecIdleClose ==
    /\ HaveDest /\ ring = "stale"
    /\ standby' = FALSE /\ ring' = "closed"
    /\ UNCHANGED <<flags, recReader, source, stores, segment, clip, pre, chain, ghosts, boot>>

(* The reader was lapped: an IDR is requested and deltas are dropped. *)
Overflow ==
    /\ HaveDest /\ ring = "open"
    /\ waitKey' = TRUE /\ chain' = "lost"
    /\ UNCHANGED <<flags, wasRecording, params, ring, source, stores, standby, segment, clip,
                   pre, ghosts, boot>>

-----------------------------------------------------------------------------
(* A frame k leaves the encoder and is read. *)
Encoded(k) == /\ HaveDest /\ ring = "open"
              /\ k = "key" \/ sinceKey + 1 < Gop
              /\ sinceKey' = IF k = "key" THEN 0 ELSE sinceKey + 1

(* Dropped: a delta while waiting for a keyframe or for parameter sets. *)
DropDelta ==
    /\ Encoded("delta") /\ (waitKey \/ ~params)
    /\ chain' = "lost"
    /\ UNCHANGED <<flags, recReader, ring, track, rvdUp, stores, standby, segment, clip, pre, ghosts, boot>>

(* The AVCC conversion refuses a frame, or its read fails otherwise: it is *)
(* skipped, and nothing waits for a keyframe.                              *)
RefuseFrame(k) ==
    /\ Encoded(k) /\ (k = "key" \/ (~waitKey /\ params))
    /\ waitKey' = FALSE /\ params' = TRUE /\ chain' = "refused"
    /\ UNCHANGED <<flags, wasRecording, ring, track, rvdUp, stores, standby, segment, clip,
                   pre, ghosts, boot>>

(* What the continuous part makes of frame k: the file it goes to.  A      *)
(* rotation closes it and, k being a keyframe, opens the next; opens says  *)
(* whether start_segment succeeds.                                         *)
SegmentStaysOpen(k, rotate, opens) == \* mutant: a stop is not noticed
    IF ~recording \/ ~storeUp \/ (segment.open /\ ~(k = "key" /\ rotate)) THEN segment
    ELSE IF k = "key" /\ opens THEN RecFresh ELSE NoFile
SegmentStartsOnce(k, rotate, opens) == \* mutant: a failed rotation is not tried again
    IF wasRecording /\ ~recording THEN NoFile
    ELSE IF ~recording \/ ~storeUp \/ (segment.open /\ ~(k = "key" /\ rotate)) THEN segment
    ELSE IF k = "key" /\ opens /\ ~wasRecording THEN RecFresh ELSE NoFile
SegmentOpensAnywhere(k, rotate, opens) == \* mutant: a segment need not start at a key
    IF wasRecording /\ ~recording THEN NoFile
    ELSE IF ~recording \/ ~storeUp \/ (segment.open /\ ~(k = "key" /\ rotate)) THEN segment
    ELSE IF opens THEN RecFresh ELSE NoFile
SegmentFor(k, rotate, opens) ==
    IF wasRecording /\ ~recording THEN NoFile
    ELSE IF ~recording \/ ~storeUp \/ (segment.open /\ ~(k = "key" /\ rotate)) THEN segment
    ELSE IF k = "key" /\ opens THEN RecFresh ELSE NoFile

(* The pre-roll runs from a keyframe of the pre-buffer to the current      *)
(* frame; which keyframe is the subject of RmrPrebuf.                      *)
NewestIsKey(s) == s # <<>> /\ s[Len(s)] = "key" \* mutant: the search looks at one frame only
HasKey(s) == \E i \in 1..Len(s) : s[i] = "key"
Written(f, k) == [f EXCEPT !.gap = IF k = "key" THEN "none" ELSE @]
Cause(f) == IF chain = "refused" \/ f.gap = "none" THEN chain ELSE f.gap
Fragment(name, f, k) == IF k = "delta" /\ Cause(f) # "none" THEN {<<name, Cause(f)>>} ELSE {}

(* One pass with a frame: pre-buffer, segment, clip.  full: the card is    *)
(* full, which ends recording; cap: the clip reached clip_length_sec.      *)
TakeFrame(k, rotate, opens, full, cap) ==
    LET seg == SegmentFor(k, rotate, opens)
        toSeg == recording /\ storeUp /\ seg.open
        pushed == IF preCap = 0 THEN <<>>
                  ELSE Append(IF Len(pre) = preCap THEN Tail(pre) ELSE pre, k)
        want == IF Mode = "both" THEN clipRecording ELSE Clips /\ recording /\ ~(full /\ toSeg)
        starts == Clips /\ want /\ ~clip.open /\ clipUp /\ opens
        replays == starts /\ HasKey(pushed)
        base == IF replays THEN [RecFresh EXCEPT !.gap = "none"]
                ELSE IF starts THEN RecFresh ELSE clip
        toClip == Clips /\ base.open
    IN /\ Encoded(k)
       /\ k = "key" \/ (~waitKey /\ params)
       /\ full => toSeg
       /\ cap => toClip
       /\ waitKey' = FALSE /\ params' = TRUE
       /\ pre' = IF Clips THEN pushed ELSE pre
       /\ recording' = (recording /\ ~full)
       /\ segment' = IF toSeg /\ ~full THEN Written(seg, k) ELSE Gapped(seg)
       /\ wasRecording' = ((wasRecording /\ recording) \/ (seg.open /\ ~segment.open))
       /\ clip' = CASE ~toClip -> Gapped(base)
                    [] toClip /\ cap -> IF want /\ opens THEN [RecFresh EXCEPT !.gap = "cut"]
                                         ELSE NoFile
                    [] toClip /\ ~want -> NoFile
                    [] OTHER -> Written(base, k)
       /\ chain' = IF k = "key" THEN "none" ELSE chain
       /\ broken' =
            (IF toSeg /\ ~full THEN Fragment("segment", seg, k) ELSE {})
            \cup (IF toClip THEN Fragment("clip", base, k) ELSE {})
       /\ mixed' =
            (IF toSeg /\ seg.track # track THEN {"segment"} ELSE {})
            \cup (IF toClip /\ base.track # track THEN {"clip"} ELSE {})
       /\ UNCHANGED <<clipRecording, ring, track, rvdUp, stores, standby, boot>>

-----------------------------------------------------------------------------
(* rvd, the card. *)
RvdStops ==
    /\ rvdUp
    /\ rvdUp' = FALSE /\ ring' = IF ring = "open" THEN "stale" ELSE ring
    /\ UNCHANGED <<flags, recReader, track, sinceKey, stores, standby, segment, clip, pre, chain, ghosts, boot>>
RvdStarts ==
    /\ ~rvdUp
    /\ rvdUp' = TRUE /\ track' \in Tracks /\ sinceKey' = Gop - 1
    /\ UNCHANGED <<flags, recReader, ring, stores, standby, segment, clip, pre, chain, ghosts, boot>>
CardMoves ==
    /\ \/ storeUp' = ~HaveDest /\ clipUp' = (Clips /\ ~HaveDest)
       \/ Clips /\ clipUp /\ storeUp' = ~storeUp /\ UNCHANGED clipUp
    /\ UNCHANGED <<flags, recReader, ring, source, standby, segment, clip, pre, chain, ghosts, boot>>

RecFrame(k) == \/ RefuseFrame(k)
            \/ \E rotate, opens, full, cap \in BOOLEAN : TakeFrame(k, rotate, opens, full, cap)
RecNext ==
    \/ Enable \/ Disable \/ \E on \in BOOLEAN : Trigger(on)
    \/ Standby \/ RecReopen \/ RecIdleClose \/ Overflow
    \/ DropDelta \/ \E k \in {"key", "delta"} : RecFrame(k)
    \/ RvdStops \/ RvdStarts \/ CardMoves

(* The loop runs for ever; while there is a ring, keyframes keep coming    *)
(* and some of them are written without incident.                          *)
RecFairness ==
    /\ WF_recvars(Standby) /\ SF_recvars(RecIdleClose \/ RecReopen)
    /\ SF_recvars(TakeFrame("key", FALSE, TRUE, FALSE, FALSE))
RecSpec == RecInit /\ [][RecNext]_recvars /\ RecFairness

-----------------------------------------------------------------------------
RecTypeOK ==
    /\ {recording, clipRecording, wasRecording, waitKey, params, rvdUp, storeUp, clipUp,
        standby} \subseteq BOOLEAN
    /\ ring \in {"open", "stale", "closed"} /\ track \in Tracks /\ geometry \in Geometries
    /\ sinceKey \in 0..(Gop - 1)
    /\ {segment, clip} \subseteq [open : BOOLEAN, gap : {"none", "new", "missing", "cut"}, track : Tracks]
    /\ chain \in {"none", "lost", "refused"}
    /\ pre \in Seq({"key", "delta"}) /\ preCap \in PreCaps /\ Len(pre) <= preCap
    /\ standby => ring = "closed"

(* "Frames were lost: anything until the next keyframe references pictures *)
(* we never read, and writing it puts undecodable GOP fragments in the     *)
(* recording" (rmr_main.c:873-875): through overflows, rotations, restarts *)
(* and card swaps the continuous recording holds no such fragment, and     *)
(* every segment starts with a keyframe.  What the loop does not guard     *)
(* against is a frame the conversion refuses (rmr_main.c:947) and one that *)
(* does not reach a full or absent card while the segment stays open.      *)
SegmentDecodable == \A b \in broken : b[1] = "segment" => b[2] \notin {"lost", "new"}

(* The same of a motion clip, which starts at a keyframe of the pre-buffer *)
(* (rmr_main.c:1142) as long as that reaches over a group of pictures: with *)
(* less, or none at all (prebuffer_sec = 0), it starts on whatever frame   *)
(* comes (rmr_main.c:506-509).  The continuation after clip_length_sec     *)
(* starts in the middle of a group in any case (rmr_main.c:1166).          *)
ClipDecodable ==
    \A b \in broken : b[1] = "clip" =>
        b[2] \notin {"lost", "missing"} /\ (b[2] = "new" => preCap < Gop)

(* "Codec or geometry may have changed: a timelapse track cannot bend      *)
(* mid-file" (rmr_main.c:851-852): nor can the track of a segment or a clip.   *)
OneTrack == mixed = {}

(* A recording that is stopped for good ends up closed on the card, if rvd *)
(* stays: the loop looks at the flags only when it has read a frame.       *)
StopCloses ==
    /\ <>[](rvdUp /\ ~recording) => <>[]~segment.open
    /\ <>[](rvdUp /\ ~recording /\ ~clipRecording) => <>[]~clip.open

(* A recording that is wanted, with a card to write to, is always taken up *)
(* again: standby, restarts of rvd and failed opens do not end it.         *)
Resumes == <>[](rvdUp /\ recording /\ storeUp) => []<>segment.open
=============================================================================
