------------------------------ MODULE RvdIvs ------------------------------
(***************************************************************************)
(* rvd's motion detection: the SDK objects behind it (group, channel,      *)
(* algorithm) brought up in the vendor's order and rolled back on failure, *)
(* and the results its polling thread turns into the motion flag and the   *)
(* detection boxes that rmd and rod read over the control socket.          *)
(* Time is counted in result intervals.                                    *)
(***************************************************************************)
EXTENDS Integers, FiniteSets, FiniteSetsExt

CONSTANTS
    IAlgos,       \* algorithms the configuration may name
    IGrids,       \* grids it may name, as <<columns, rows>>
    DefaultGrid,  \* 4 in the code: the grid used when the named one is bad
    IMaxRoi,      \* RSS_IVS_MAX_ROI
    IFrames,      \* sizes the sub-stream's picture may have, as <<width, height>>
    HoldTime,     \* the 2 s a detection is held without a new one
    MaxPersons    \* the smaller of PD_MAX_PERSONS and RSS_IVS_MAX_DETECTIONS

ASSUME RvdIvsConstants ==
    /\ IAlgos \subseteq {"move", "roi", "base_move", "persondet", "yolo"}
    /\ IGrids \subseteq Int \X Int
    /\ {DefaultGrid, IMaxRoi, MaxPersons} \subseteq Nat \ {0} /\ DefaultGrid * DefaultGrid <= IMaxRoi
    /\ HoldTime \in Nat /\ IFrames \subseteq Nat \X Nat

VARIABLES
    sdk,    \* what exists in the SDK: group, bind, channel stage, algorithm, streaming
    icfg,   \* [algo, grid] of the configuration
    iact,   \* ivs_active
    ithr,   \* the polling thread runs
    seen,   \* ivs_motion, ivs_person_count, age of ivs_motion_ts
    boxes,  \* ivs_detections: the number and the one box of the grid path
    last,   \* the zones of the last result that detected something
    size    \* the picture's size: now, when the zones were made, at the last detection

ivars == <<sdk, icfg, iact, ithr, seen, boxes, last, size>>

-----------------------------------------------------------------------------
\* The grid in use: a dimension out of range, or too many cells, falls back.
Grid ==
    LET dim(g) == IF g < 1 \/ g > IMaxRoi THEN DefaultGrid ELSE g
        gx == dim(icfg.grid[1])
        gy == dim(icfg.grid[2])
    IN IF gx * gy > IMaxRoi THEN <<DefaultGrid, DefaultGrid>> ELSE <<gx, gy>>

CellW(f) == f[1] \div Grid[1]
CellH(f) == f[2] \div Grid[2]
Zones == 0 .. (Grid[1] * Grid[2] - 1)

\* The rectangle of a zone, as the move algorithm is configured with it for
\* the picture of the moment it is made.
Roi(i, f) ==
    LET col == i % Grid[1]  row == i \div Grid[1]
    IN [x0 |-> col * CellW(f), y0 |-> row * CellH(f),
        x1 |-> (col + 1) * CellW(f) - 1, y1 |-> (row + 1) * CellH(f) - 1]

\* The box reported for a set of zones: the bounding box of the cells, in
\* the picture of the moment it is reported.
Column(i) == i % Grid[1]
BoxByRows(hit, f) ==
    LET cols == {i % Grid[2] : i \in hit}  rows == {i \div Grid[2] : i \in hit}
    IN [x0 |-> Min(cols) * CellW(f), y0 |-> Min(rows) * CellH(f),
        x1 |-> (Max(cols) + 1) * CellW(f) - 1, y1 |-> (Max(rows) + 1) * CellH(f) - 1]

Box(hit, f) ==
    LET cols == {Column(i) : i \in hit}  rows == {i \div Grid[1] : i \in hit}
    IN [x0 |-> Min(cols) * CellW(f), y0 |-> Min(rows) * CellH(f),
        x1 |-> (Max(cols) + 1) * CellW(f) - 1, y1 |-> (Max(rows) + 1) * CellH(f) - 1]

NoBox == [x0 |-> 0, y0 |-> 0, x1 |-> 0, y1 |-> 0]

-----------------------------------------------------------------------------
\* Before the bind: the group, which the sub-stream's chain then carries.
rvd_ivs_init(ok) ==
    /\ sdk.phase = "boot"
    /\ sdk' = [sdk EXCEPT !.phase = "bound", !.group = ok, !.bound = ok]
    /\ iact' = ok
    /\ UNCHANGED <<icfg, ithr, seen, boxes, last, size>>

\* After the bind, before frames: interface, channel, registration, receive.
\* Every step that fails undoes the earlier ones; only the failure to make
\* the interface (or the JZDL model) returns with ivs_active still set.
rvd_ivs_start(failAt) ==
    /\ sdk.phase = "bound"
    /\ failAt \in IF ~iact THEN {"none"}
                  ELSE IF icfg.algo = "yolo" THEN {"none", "iface"}
                  ELSE {"none", "iface", "channel", "register", "start"}
    /\ sdk' = [sdk EXCEPT !.phase = "ready",
               !.chan = IF iact /\ failAt = "none" /\ icfg.algo # "yolo" THEN "receiving" ELSE "none",
               !.algo = iact /\ failAt = "none"]
    /\ iact' = (iact /\ failAt \in {"none", "iface"})
    /\ seen' = IF iact /\ failAt = "none" /\ icfg.algo # "yolo"
               THEN [motion |-> FALSE, persons |-> 0, age |-> HoldTime + 1] ELSE seen
    /\ size' = IF iact THEN [size EXCEPT !.zones = size.now] ELSE size
    /\ UNCHANGED <<icfg, ithr, boxes, last>>

\* The frame loop starts the streams and, with ivs_active, the thread.
FrameLoopStart(ok) ==
    /\ sdk.phase = "ready"
    /\ sdk' = [sdk EXCEPT !.phase = "run", !.streaming = TRUE]
    /\ ithr' = (iact /\ ok)
    /\ iact' = (iact /\ ok)
    /\ UNCHANGED <<icfg, seen, boxes, last, size>>

-----------------------------------------------------------------------------
\* Time passes: one result interval, with or without a detection in it.
Older == IF seen.age > HoldTime THEN seen.age ELSE seen.age + 1

\* A while without any result, as between two polls or during a pause.
IvsQuiet ==
    /\ seen.age <= HoldTime
    /\ seen' = [seen EXCEPT !.age = Older]
    /\ UNCHANGED <<sdk, icfg, iact, ithr, boxes, last, size>>

\* Explicit regions or base_move: the flag alone, and no hold.
MoveFlag(hit) ==
    /\ seen' = [seen EXCEPT !.motion = hit # {}, !.age = IF hit # {} THEN 0 ELSE Older]
    /\ UNCHANGED boxes

ReleasedAtOnce == seen.motion

\* The grid: motion marks its box; silence clears both after the hold.
Released == seen.motion /\ Older > HoldTime
MoveKeepsBox(hit) ==
    IF hit # {}
    THEN /\ seen' = [seen EXCEPT !.motion = TRUE, !.age = 0]
         /\ boxes' = [count |-> 1, box |-> Box(hit, size.now)]
    ELSE /\ seen' = [seen EXCEPT !.motion = @ /\ ~Released, !.age = Older]
         /\ UNCHANGED boxes

ivs_process_move_result(hit) ==
    IF hit # {}
    THEN /\ seen' = [seen EXCEPT !.motion = TRUE, !.age = 0]
         /\ boxes' = [count |-> 1, box |-> Box(hit, size.now)]
    ELSE /\ seen' = [seen EXCEPT !.motion = @ /\ ~Released, !.age = Older]
         /\ boxes' = IF Released THEN [boxes EXCEPT !.count = 0] ELSE boxes

\* Persons, from the SDK or from JZDL: the count is clamped, then as above.
ivs_process_persondet_result(n) ==
    LET count == IF n < 0 THEN 0 ELSE IF n > MaxPersons THEN MaxPersons ELSE n
    IN IF count > 0
       THEN /\ seen' = [motion |-> TRUE, persons |-> count, age |-> 0]
            /\ boxes' = [boxes EXCEPT !.count = count]
       ELSE /\ seen' = [seen EXCEPT !.motion = @ /\ ~Released, !.age = Older,
                        !.persons = IF Released THEN 0 ELSE @]
            /\ boxes' = IF Released THEN [boxes EXCEPT !.count = 0] ELSE boxes

\* One turn of the thread. The poll delivers only while the channel receives;
\* a JZDL frame needs the streaming framesource.
rvd_ivs_thread(hit, n) ==
    /\ ithr /\ iact /\ sdk.algo /\ sdk.streaming
    /\ icfg.algo = "yolo" \/ sdk.chan = "receiving"
    /\ CASE icfg.algo \in {"persondet", "yolo"} ->
              ivs_process_persondet_result(n) /\ last' = IF n > 0 THEN {0} ELSE last
         [] icfg.algo \in {"roi", "base_move"} ->
              MoveFlag(hit) /\ last' = IF hit # {} THEN hit ELSE last
         [] OTHER -> ivs_process_move_result(hit) /\ last' = IF hit # {} THEN hit ELSE last
    /\ size' = IF icfg.algo = "move" /\ hit # {} THEN [size EXCEPT !.hit = size.now] ELSE size
    /\ UNCHANGED <<sdk, icfg, iact, ithr>>

\* The thread ends once ivs_active is cleared.
ThreadExits == ithr /\ ~iact /\ ithr' = FALSE /\ UNCHANGED <<sdk, icfg, iact, seen, boxes, last, size>>

\* A command takes the chain down (pause, clear the flag, join) and builds it
\* again: the channel is only stopped, never destroyed.
rvd_ivs_pause ==
    /\ sdk.phase = "run" /\ iact
    /\ sdk' = [sdk EXCEPT !.phase = "paused", !.streaming = FALSE,
               !.chan = IF @ = "receiving" THEN "registered" ELSE @]
    /\ iact' = FALSE
    /\ UNCHANGED <<icfg, ithr, seen, boxes, last, size>>

\* set-resolution in between: the encoder's size changes with the threads
\* gone (and may change back, when the rebuild fails); the zones do not.
IvsResized(f) ==
    /\ sdk.phase = "paused" /\ ~ithr
    /\ size' = [size EXCEPT !.now = f]
    /\ UNCHANGED <<sdk, icfg, iact, ithr, seen, boxes, last>>

rvd_ivs_resume(ok) ==
    /\ sdk.phase = "paused" /\ ~ithr
    /\ sdk' = [sdk EXCEPT !.phase = "run", !.streaming = TRUE,
               !.chan = IF @ = "registered" THEN "receiving" ELSE @]
    /\ iact' = ok /\ ithr' = ok
    /\ UNCHANGED <<icfg, seen, boxes, last, size>>

\* Shutdown: stop and destroy the channel, unbind, destroy the group; both
\* halves return at once unless ivs_active is set.
rvd_ivs_stop ==
    /\ sdk.phase = "run"
    /\ sdk' = IF iact THEN [sdk EXCEPT !.phase = "stopped", !.streaming = FALSE,
                            !.chan = "none", !.algo = FALSE]
                      ELSE [sdk EXCEPT !.phase = "stopped", !.streaming = FALSE]
    /\ ithr' = FALSE
    /\ UNCHANGED <<icfg, iact, seen, boxes, last, size>>
rvd_ivs_deinit ==
    /\ sdk.phase = "stopped"
    /\ sdk' = [sdk EXCEPT !.phase = "off", !.bound = FALSE, !.group = @ /\ ~iact]
    /\ iact' = FALSE
    /\ UNCHANGED <<icfg, ithr, seen, boxes, last, size>>

IInit ==
    /\ sdk = [phase |-> "boot", group |-> FALSE, bound |-> FALSE, chan |-> "none",
              algo |-> FALSE, streaming |-> FALSE]
    /\ icfg \in [algo : IAlgos, grid : IGrids]
    /\ iact = FALSE /\ ithr = FALSE
    /\ seen = [motion |-> FALSE, persons |-> 0, age |-> HoldTime + 1]
    /\ boxes = [count |-> 0, box |-> NoBox]
    /\ last = {}
    /\ \E f \in IFrames : size = [now |-> f, zones |-> f, hit |-> f]

INext ==
    \/ \E ok \in BOOLEAN : rvd_ivs_init(ok) \/ FrameLoopStart(ok) \/ rvd_ivs_resume(ok)
    \/ \E f \in {"none", "iface", "channel", "register", "start"} : rvd_ivs_start(f)
    \/ \E hit \in SUBSET Zones, n \in -1 .. MaxPersons + 1 : rvd_ivs_thread(hit, n)
    \/ \E f \in IFrames : IvsResized(f)
    \/ IvsQuiet \/ ThreadExits \/ rvd_ivs_pause \/ rvd_ivs_stop \/ rvd_ivs_deinit

ISpec == IInit /\ [][INext]_ivars

-----------------------------------------------------------------------------
ITypeOK ==
    /\ sdk \in [phase : {"boot", "bound", "ready", "run", "paused", "stopped", "off"},
                group : BOOLEAN, bound : BOOLEAN, chan : {"none", "registered", "receiving"},
                algo : BOOLEAN, streaming : BOOLEAN]
    /\ iact \in BOOLEAN /\ ithr \in BOOLEAN
    /\ seen \in [motion : BOOLEAN, persons : 0..MaxPersons, age : 0..HoldTime + 1]
    /\ boxes.count \in 0..MaxPersons \cup {1}
    /\ size \in [now : IFrames, zones : IFrames, hit : IFrames]

\* A motion box on the grid path lies inside the picture it was reported on,
\* is there exactly while the flag is up, and holds every pixel of the zones
\* that moved whenever that picture has the size the zones were made for.
\* The exception is the stream whose resolution was set while rvd runs: the
\* zones keep the old size (rvd_ivs_pause and _resume leave the algorithm
\* alone), the box is computed with the new one.
BoxTrue ==
    icfg.algo = "move" /\ last # {} =>
        /\ (boxes.count > 0) = seen.motion
        /\ size.hit = size.zones =>
              \A i \in last : LET z == Roi(i, size.zones) IN
                 /\ boxes.box.x0 <= z.x0 /\ z.x1 <= boxes.box.x1
                 /\ boxes.box.y0 <= z.y0 /\ z.y1 <= boxes.box.y1
        /\ boxes.box.x0 >= 0 /\ boxes.box.x1 < size.hit[1]
        /\ boxes.box.y0 >= 0 /\ boxes.box.y1 < size.hit[2]

\* Detections are held across gaps: nothing that was detected less than the
\* hold ago is cleared, whatever was paused and resumed in between, and the
\* person count never outlives its boxes.
DetectionsHeld ==
    /\ icfg.algo \in {"move", "persondet", "yolo"} /\ last # {} /\ seen.age <= HoldTime =>
          seen.motion /\ boxes.count > 0
    /\ seen.persons > 0 => seen.motion /\ boxes.count = seen.persons

=============================================================================
