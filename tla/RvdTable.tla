------------------------------ MODULE RvdTable ------------------------------
(***************************************************************************)
(* How rvd_pipeline_init lays out its stream table (rvd_pipeline.c): video *)
(* streams per sensor, encoder groups with the IVDC mains moved to the     *)
(* front, one snapshot stream per video stream that fits the part, the     *)
(* framesources turned by [image] rotate, and the snapshot streams the     *)
(* backend then refuses taken out of the table again.                      *)
(*                                                                         *)
(* Streams are numbered from 0 as in the code; `table' is a function from  *)
(* 0 .. Count-1.  jpeg_streams[] is `slot'; -1 is no snapshot.             *)
(***************************************************************************)
EXTENDS Integers, FiniteSets

CONSTANTS NSensors,       \* sensors configured
          RVD_MAX_JPEG,   \* snapshot slots
          ChannelLimits,  \* encoder channels a part may have; 0 is unlimited
          Ceilings,       \* JPEG pixel ceilings a part may have; 0 is none
          Asks,           \* what a stream's jpeg key may say: yes, no, unset
          SensorSizes     \* resolutions the sensor may report; 0 x 0 is none

\* A sensor that reports its size has one that leaves its sub picture lines.
ASSUME RvdTableConstants ==
    /\ NSensors \in Nat \ {0} /\ RVD_MAX_JPEG \in Nat
    /\ \A sz \in SensorSizes :
          /\ sz \in Nat \X Nat
          /\ sz[1] > 0 /\ sz[2] > 0 => sz[1] > 1 /\ sz[2] > 1 /\ sz[1] <= 80 * sz[2]

VARIABLES board,  \* the configuration and the part: fixed after Init
          table,  \* st->streams[]
          slot,   \* st->jpeg_streams[]
          at      \* progress of rvd_pipeline_init: phase and index

tvars == <<board, table, slot, at>>

Sensors == 0 .. NSensors - 1

----------------------------------------------------------------------------
(* Pictures.                                                               *)

\* The sensor's own size, or the 1080p the table falls back on.
DefPic(sz) == IF sz[1] > 0 /\ sz[2] > 0 THEN sz ELSE <<1920, 1080>>

\* The sub picture shadows the main one at 640 wide, on an 8-line boundary.
SubPic(sz) ==
    LET d == DefPic(sz)
    IN  IF d[1] > 640 THEN <<640, (((d[2] * 640) \div d[1]) \div 8) * 8>>
        ELSE <<d[1] \div 2, d[2] \div 2>>

\* A framesource scales when its picture is not the sensor's.
Scales(pic, sz) == sz[1] > 0 /\ sz[2] > 0 /\ pic # sz

fs_base_channel(s) == s * 3

----------------------------------------------------------------------------
(* The video part of the table.                                            *)

Count(t) == Cardinality(DOMAIN t)
Append1(t, r) == [i \in 0 .. Count(t) |-> IF i = Count(t) THEN r ELSE t[i]]

Video(s, sub, pic) ==
    [jpeg |-> FALSE, sensor |-> s, sub |-> sub, fs |-> fs_base_channel(s) + (IF sub THEN 1 ELSE 0),
     chn |-> -1, w |-> pic[1], h |-> pic[2], ivdc |-> ~sub /\ s \in board.ivdc,
     scaler |-> Scales(pic, board.size), swapped |-> FALSE, ring |-> FALSE]

\* Sensor by sensor: the main stream, then its sub stream if it is enabled.
VideoStreams ==
    LET f[n \in 0 .. NSensors] ==
            IF n = 0 THEN [i \in {} |-> 0]
            ELSE LET m == Append1(f[n - 1], Video(n - 1, FALSE, DefPic(board.size)))
                 IN  IF n - 1 \in board.subs THEN Append1(m, Video(n - 1, TRUE, SubPic(board.size)))
                     ELSE m
    IN  f[NSensors]

\* The mutation that numbers the groups in table order.
GroupedInOrder(t) == [i \in DOMAIN t |-> [t[i] EXCEPT !.chn = i]]

\* Encoder groups in table order, IVDC mains first: the SDK wants them in
\* groups 0 .. N-1.
Grouped(t) ==
    LET ivdc  == {i \in DOMAIN t : t[i].ivdc}
        Before(i, S) == Cardinality({k \in S : k < i})
    IN  [i \in DOMAIN t |->
            [t[i] EXCEPT !.chn = IF i \in ivdc THEN Before(i, ivdc)
                                 ELSE Cardinality(ivdc) + Before(i, DOMAIN t \ ivdc)]]

----------------------------------------------------------------------------
(* Snapshot streams.                                                       *)

\* The channel is on by default unless the picture is past the part's JPEG
\* ceiling or the channel past its last; a configuration may ask either way.
WantsJpeg(v, r, chn) ==
    \/ board.asked[v] = "yes"
    \/ /\ board.asked[v] = "unset"
       /\ ~(board.ceiling > 0 /\ r.w * r.h > board.ceiling)
       /\ ~(board.channels > 0 /\ chn >= board.channels)

Snapshot(r, chn) ==
    [r EXCEPT !.jpeg = TRUE, !.chn = chn, !.ivdc = FALSE]

\* The loop over the video streams: an IVDC main burns its slot, a stream
\* without a snapshot does not.
Paired(videos) ==
    LET base == Count(videos)
        f[k \in 0 .. base] ==
            IF k = 0 THEN [t |-> videos, n |-> 0, slot |-> [j \in 0 .. RVD_MAX_JPEG - 1 |-> -1]]
            ELSE LET p == f[k - 1]
                     r == videos[k - 1]
                 IN  IF p.n >= RVD_MAX_JPEG THEN p
                     ELSE IF r.ivdc THEN [p EXCEPT !.n = p.n + 1]
                     ELSE IF ~WantsJpeg(k - 1, r, base + p.n) THEN p
                     ELSE [t |-> Append1(p.t, Snapshot(r, base + p.n)), n |-> p.n + 1,
                           slot |-> [p.slot EXCEPT ![p.n] = Count(p.t)]]
    IN  f[base]

\* The mutation that leaves the slots behind it alone.
DropLeavesSlots(idx) ==
    /\ slot' = [j \in DOMAIN slot |-> IF slot[j] = idx THEN -1 ELSE slot[j]]
    /\ table' = [i \in 0 .. Count(table) - 2 |-> IF i < idx THEN table[i] ELSE table[i + 1]]

\* Taking a snapshot stream out: the streams behind it move down one, and so
\* does every slot that names one of them.
drop_jpeg_stream(idx) ==
    /\ slot' = [j \in DOMAIN slot |->
                   IF slot[j] = idx THEN -1
                   ELSE IF slot[j] > idx THEN slot[j] - 1 ELSE slot[j]]
    /\ table' = [i \in 0 .. Count(table) - 2 |-> IF i < idx THEN table[i] ELSE table[i + 1]]

\* The group a snapshot channel registers in is that of the video stream on
\* the same framesource.
find_video_group(fsc) ==
    LET V == {i \in DOMAIN table : ~table[i].jpeg /\ table[i].fs = fsc}
    IN  IF V = {} THEN -1 ELSE table[CHOOSE i \in V : \A k \in V : i <= k].chn

----------------------------------------------------------------------------
(* rvd_pipeline_init, step by step.                                        *)

Boards == [subs : SUBSET Sensors, ivdc : SUBSET Sensors,
           asked : [0 .. 2 * NSensors - 1 -> Asks],
           channels : ChannelLimits, ceiling : Ceilings, size : SensorSizes, rotate : {0, 90}]
TInit ==
    /\ board \in Boards
    /\ table = [i \in {} |-> 0]
    /\ slot = [j \in 0 .. RVD_MAX_JPEG - 1 |-> -1]
    /\ at = [phase |-> "table", i |-> 0]

BuildTable ==
    /\ at.phase = "table"
    /\ LET p == Paired(Grouped(VideoStreams))
       IN  table' = p.t /\ slot' = p.slot
    /\ at' = [phase |-> "fs", i |-> 0] /\ UNCHANGED board

Goto(ph) == at' = IF at.i + 1 < Count(table) THEN [at EXCEPT !.i = @ + 1]
                  ELSE [phase |-> ph, i |-> 0]

\* The mutation that turns the video encoder and not its snapshot channel.
TurnVideoOnly(fsc) == [j \in DOMAIN table |->
                 IF table[j].fs = fsc /\ ~table[j].jpeg
                 THEN [table[j] EXCEPT !.w = table[j].h, !.h = table[j].w, !.swapped = ~@]
                 ELSE table[j]]

\* Every stream encoding from a framesource that was turned by a quarter is
\* sized for what the framesource now emits.
Turn(fsc) == [j \in DOMAIN table |->
                 IF table[j].fs = fsc
                 THEN [table[j] EXCEPT !.w = table[j].h, !.h = table[j].w, !.swapped = ~@]
                 ELSE table[j]]

CreateFramesource ==
    /\ at.phase = "fs"
    /\ IF table[at.i].jpeg THEN Goto("video") /\ UNCHANGED <<table, slot>>
       ELSE \/ /\ board.rotate = 90          \* turned by a quarter
               /\ table' = Turn(table[at.i].fs)
               /\ Goto("video") /\ UNCHANGED slot
            \/ /\ UNCHANGED <<table, slot>>   \* not turned, turned over, or refused
               /\ Goto("video")
            \/ at' = [at EXCEPT !.phase = "failed"] /\ UNCHANGED <<table, slot>>
    /\ UNCHANGED board

\* The video streams first: they create the groups.
InitVideo ==
    /\ at.phase = "video"
    /\ \/ /\ table' = IF table[at.i].jpeg THEN table ELSE [table EXCEPT ![at.i].ring = TRUE]
          /\ Goto("snaps")
       \/ ~table[at.i].jpeg /\ at' = [at EXCEPT !.phase = "failed"] /\ UNCHANGED table
    /\ UNCHANGED <<board, slot>>

\* Then the snapshot streams; one the backend refuses is dropped and the
\* index looked at again.
InitSnapshot ==
    /\ at.phase = "snaps" /\ at.i < Count(table)
    /\ \/ /\ table' = IF table[at.i].jpeg THEN [table EXCEPT ![at.i].ring = TRUE] ELSE table
          /\ at' = [at EXCEPT !.i = @ + 1] /\ UNCHANGED slot
       \/ /\ table[at.i].jpeg /\ ~table[at.i].ring
          /\ drop_jpeg_stream(at.i) /\ UNCHANGED at
    /\ UNCHANGED board

PipelineReady ==
    /\ at.phase = "snaps" /\ at.i >= Count(table)
    /\ at' = [at EXCEPT !.phase = "ready"] /\ UNCHANGED <<board, table, slot>>

TNext == BuildTable \/ CreateFramesource \/ InitVideo \/ InitSnapshot \/ PipelineReady

TSpec == TInit /\ [][TNext]_tvars

----------------------------------------------------------------------------
(* Properties.                                                             *)

TTypeOK ==
    /\ at \in [phase : {"table", "fs", "video", "snaps", "ready", "failed"}, i : Nat]
    /\ slot \in [0 .. RVD_MAX_JPEG - 1 -> -1 .. 4 * NSensors - 1]
    /\ \A i \in DOMAIN table : table[i].chn \in Nat /\ table[i].w > 0 /\ table[i].h > 0

\* Whatever snapshot streams the backend refuses, the table that is left is
\* one the SDK accepts and the rest of rvd can index: no two streams share an
\* encoder channel, IVDC streams hold the first groups, a slot names a
\* snapshot stream and no snapshot stream is without one, each snapshot
\* belongs to the group of exactly one video stream, and every encoder on a
\* framesource is sized alike.
TableSound ==
    at.phase # "table" =>
        /\ \A i, k \in DOMAIN table : table[i].chn = table[k].chn => i = k
        /\ \A i \in DOMAIN table : table[i].ivdc =>
              table[i].chn < Cardinality({k \in DOMAIN table : table[k].ivdc})
        /\ \A j \in DOMAIN slot : slot[j] # -1 => slot[j] \in DOMAIN table /\ table[slot[j]].jpeg
        /\ \A i \in DOMAIN table : table[i].jpeg =>
              /\ Cardinality({j \in DOMAIN slot : slot[j] = i}) = 1
              /\ find_video_group(table[i].fs) # -1
        /\ \A i, k \in DOMAIN table : table[i].fs = table[k].fs =>
              <<table[i].w, table[i].h>> = <<table[k].w, table[k].h>>

=============================================================================
