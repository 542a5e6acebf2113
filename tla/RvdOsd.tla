------------------------------- MODULE RvdOsd -------------------------------
(***************************************************************************)
(* rvd's overlay regions of one stream: rod's shared-memory buffers come,  *)
(* go and are remade; the OSD thread finds them by scanning, gives each a  *)
(* slot and a hardware region, follows them, and hands the region back     *)
(* when the buffer is gone.  uptime is merged into time's region.  The     *)
(* privacy cover is one more region.  A stream restart takes all of it     *)
(* down and builds it again, the lock released in between.                 *)
(***************************************************************************)
EXTENDS Integers, FiniteSets, Sequences, SequencesExt, FiniteSetsExt

CONSTANTS
    ONames,      \* element names, "time" and "uptime" among them
    OMaxRegions, \* RVD_OSD_MAX_REGIONS
    OHardware,   \* hardware regions (pool and handles), the cover included
    OOrders,     \* orders in which readdir may list them
    OHeights,    \* bitmap heights (font sizes)
    OChanges,    \* bound: buffers made or removed
    OWindow      \* the OSD thread may run between a restart's two halves

ASSUME RvdOsdConstants ==
    /\ OMaxRegions \in Nat \ {0} /\ OHardware \in Nat \ {0} /\ OChanges \in Nat
    /\ OHeights \subseteq Nat /\ OOrders \subseteq Seq(ONames)

VARIABLES
    shm,     \* rod's buffers: there, inode, height
    osd,     \* [regs |-> slots, hw |-> hardware regions in use]
    opriv,   \* [on |-> st->privacy, cover |-> "none", "hidden" or "shown"]
    ostage,  \* "up", or between rvd_osd_deinit_stream and rvd_osd_init_stream
    lostHw,  \* history: hardware regions a restart forgot
    changes, \* changes left
    fontDue  \* rod has asked for an osd-restart

ovars == <<shm, osd, opriv, ostage, lostHw, changes, fontDue>>

OGone == [on |-> FALSE, ino |-> 0, h |-> 0]
Empty == [name |-> "", act |-> FALSE, hw |-> FALSE, ino |-> 0, h |-> 0]

AllocAppends(o) ==  \* mutant: the table's end is not looked at
    LET k == SelectInSeq(o.regs, LAMBDA r : ~r.act) IN IF k > 0 THEN k ELSE Len(o.regs) + 1

\* rvd_osd_find_region, alloc_region_slot: 0 when there is none.
rvd_osd_find_region(o, n) == SelectInSeq(o.regs, LAMBDA r : r.act /\ r.name = n)
alloc_region_slot(o) ==
    LET k == SelectInSeq(o.regs, LAMBDA r : ~r.act)
    IN IF k > 0 THEN k ELSE IF Len(o.regs) < OMaxRegions THEN Len(o.regs) + 1 ELSE 0
Put(o, i, r) ==
    [o EXCEPT !.regs = IF i > Len(o.regs) THEN Append(o.regs, r) ELSE [o.regs EXCEPT ![i] = r]]

\* time and uptime share time's region while uptime has no hardware.
Merged(o) ==
    LET u == rvd_osd_find_region(o, "uptime") IN u > 0 /\ ~o.regs[u].hw

-----------------------------------------------------------------------------
\* A hardware region for a slot, if the hardware has one; it must also accept
\* the registration, which needs the stream's group.
create_region(o, i, n) ==
    IF o.hw < OHardware /\ ostage # "torn"
    THEN [Put(o, i, [name |-> n, act |-> TRUE, hw |-> TRUE, ino |-> 0, h |-> shm[n].h])
            EXCEPT !.hw = o.hw + 1]
    ELSE Put(o, i, Empty)

\* A buffer that has no region yet: a slot, and hardware of its own unless it
\* is uptime beside time.
Discover(o, n) ==
    LET i == alloc_region_slot(o)
    IN IF rvd_osd_find_region(o, n) > 0 \/ i = 0 THEN o
       ELSE IF n = "uptime" /\ rvd_osd_find_region(o, "time") > 0
       THEN Put(o, i, [name |-> n, act |-> TRUE, hw |-> FALSE, ino |-> 0, h |-> shm[n].h])
       ELSE create_region(o, i, n)

\* A buffer that can be opened.
Buffered(n) == shm[n].on

\* Every buffer there is, in the order the directory lists them, from each of
\* the tables in S (one, which TLC then evaluates once).
scan_new_shm(S, order) ==
    LET f[k \in 0 .. Len(order)] ==
            IF k = 0 THEN S
            ELSE {IF Buffered(order[k]) THEN Discover(o, order[k]) ELSE o : o \in f[k - 1]}
    IN  f[Len(order)]

FreeBlanked(o, i) == [o EXCEPT !.regs[i] = Empty]

\* Hide and destroy the hardware, free the slot; with time goes the uptime
\* merged into it.
Free1(o, i) ==
    [o EXCEPT !.regs[i] = Empty, !.hw = @ - (IF o.regs[i].hw THEN 1 ELSE 0)]
release_region(o, i) ==
    LET u == rvd_osd_find_region(o, "uptime")
    IN IF o.regs[i].name = "time" /\ Merged(o) THEN Free1(Free1(o, u), i) ELSE Free1(o, i)

OpenKept(o, i) ==
    LET r == o.regs[i]
    IN IF ~r.act \/ ~shm[r.name].on THEN o
       ELSE [o EXCEPT !.regs[i].ino = shm[r.name].ino]

\* One region against the buffer behind it: reopened when remade, resized
\* unless it is the merged time, released when the buffer is gone.
try_open_shm(o, i) ==
    LET r == o.regs[i]
        n == r.name
    IN IF ~r.act \/ (r.ino > 0 /\ shm[n].on /\ r.ino = shm[n].ino) THEN o
       ELSE IF ~shm[n].on THEN release_region(o, i)
       ELSE [o EXCEPT !.regs[i] =
                [r EXCEPT !.ino = shm[n].ino,
                          !.h = IF r.hw /\ ~(n = "time" /\ Merged(o)) THEN shm[n].h ELSE r.h]]
AllOpened(t) ==
    LET f[k \in 0 .. Len(t.regs)] == IF k = 0 THEN {t} ELSE {try_open_shm(o, k) : o \in f[k - 1]}
    IN  f[Len(t.regs)]

\* rvd_osd_check, once a second: every region, then the buffers without one,
\* in the order the directory lists them.
rvd_osd_check(order) ==
    /\ ostage = "up" \/ OWindow
    /\ osd' \in scan_new_shm(AllOpened(osd), order)
    /\ UNCHANGED <<shm, opriv, ostage, lostHw, changes, fontDue>>

-----------------------------------------------------------------------------
\* A restart: everything handed back; then the group goes; then the buffers of
\* the moment are looked up and the cover made anew, hidden.
Handles(o) == Cardinality({i \in 1..Len(o.regs) : o.regs[i].act /\ o.regs[i].hw})
rvd_osd_deinit_stream ==
    /\ ostage = "up"
    /\ ostage' = "deinit"
    /\ osd' = [regs |-> <<>>, hw |-> osd.hw - Handles(osd) - (IF opriv.cover = "none" THEN 0 ELSE 1)]
    /\ opriv' = [opriv EXCEPT !.cover = "none"]
    /\ fontDue' = FALSE
    /\ UNCHANGED <<shm, lostHw, changes>>
DestroyGroup ==
    /\ ostage = "deinit" /\ ostage' = "torn"
    /\ UNCHANGED <<shm, osd, opriv, lostHw, changes, fontDue>>
\* The slots are cleared first, whatever is in them.
InitStream(order) ==
    \E made \in scan_new_shm({[regs |-> <<>>, hw |-> osd.hw]}, order) :
        LET cover == made.hw < OHardware
        IN /\ osd' = [made EXCEPT !.hw = made.hw + (IF cover THEN 1 ELSE 0)]
           /\ opriv' = [opriv EXCEPT !.cover = IF cover THEN "hidden" ELSE "none"]
MakeGroup ==
    /\ ostage = "torn" /\ ostage' = "group"
    /\ UNCHANGED <<shm, osd, opriv, lostHw, changes, fontDue>>
InitUncounted(order) ==
    /\ ostage = "group" /\ ostage' = "up"
    /\ InitStream(order)
    /\ UNCHANGED <<shm, lostHw, changes, fontDue>>

rvd_osd_init_stream(order) ==
    /\ ostage = "group" /\ ostage' = "up"
    /\ InitStream(order)
    /\ lostHw' = lostHw + Handles(osd)
    /\ UNCHANGED <<shm, changes, fontDue>>

\* The privacy command shows or hides the cover, if there is one.
rvd_osd_set_privacy(enable) ==
    /\ ostage = "up" /\ enable # opriv.on
    /\ opriv' = [on |-> enable, cover |-> IF opriv.cover = "none" THEN "none"
                                          ELSE IF enable THEN "shown" ELSE "hidden"]
    /\ UNCHANGED <<shm, osd, ostage, lostHw, changes, fontDue>>

-----------------------------------------------------------------------------
\* rod: a buffer appears or goes; a font change remakes them all
\* in another size and asks for an osd-restart.
Fresh(h) == [on |-> TRUE, ino |-> OChanges - changes + 1, h |-> h]
RodChange == changes > 0 /\ changes' = changes - 1 /\ UNCHANGED <<osd, opriv, ostage, lostHw>>
RodCreates(n, h) ==
    /\ ~shm[n].on /\ RodChange /\ UNCHANGED fontDue
    /\ \A m \in ONames : shm[m].on => shm[m].h = h
    /\ shm' = [shm EXCEPT ![n] = Fresh(h)]
RodRemoves(n) ==
    /\ shm[n].on /\ RodChange /\ UNCHANGED fontDue
    /\ shm' = [shm EXCEPT ![n] = OGone]
RodFont(h) ==
    /\ RodChange /\ fontDue' = TRUE
    /\ \E n \in ONames : shm[n].on /\ shm[n].h # h
    /\ shm' = [n \in ONames |-> IF shm[n].on THEN Fresh(h) ELSE OGone]
OInit ==
    /\ shm = [n \in ONames |-> OGone]
    /\ osd = [regs |-> <<>>, hw |-> 1]
    /\ opriv = [on |-> FALSE, cover |-> "hidden"]
    /\ ostage = "up" /\ lostHw = 0 /\ changes = OChanges /\ fontDue = FALSE

ONext ==
    \/ \E s \in OOrders : rvd_osd_check(s) \/ rvd_osd_init_stream(s)
    \/ rvd_osd_deinit_stream \/ DestroyGroup \/ MakeGroup
    \/ \E b \in BOOLEAN : rvd_osd_set_privacy(b)
    \/ \E n \in ONames : RodRemoves(n) \/ \E h \in OHeights : RodCreates(n, h)
    \/ \E h \in OHeights : RodFont(h)

\* The OSD thread runs, a restart completes, rod's restart request arrives.
OCheck == \E s \in OOrders : rvd_osd_check(s)
ORestart == (fontDue /\ rvd_osd_deinit_stream) \/ DestroyGroup \/ MakeGroup
              \/ \E s \in OOrders : rvd_osd_init_stream(s)
OFair ==
    /\ SF_ovars(ostage = "up" /\ OCheck) /\ WF_ovars(ORestart)
OSpec == OInit /\ [][ONext]_ovars /\ OFair

-----------------------------------------------------------------------------
OTypeOK ==
    /\ DOMAIN shm = ONames /\ Len(osd.regs) <= OMaxRegions
    /\ osd.hw \in 0..OHardware /\ lostHw \in 0..OHardware
    /\ opriv \in [on : BOOLEAN, cover : {"none", "hidden", "shown"}]
    /\ ostage \in {"up", "deinit", "torn", "group"}

\* The hardware regions in use are the ones a slot or the cover holds, apart
\* from those a restart forgot: no order of buffers going, coming back,
\* merging and being resized leaks one or frees one twice; and no element has
\* two regions.
RegionsHeld ==
    /\ osd.hw = Handles(osd) + (IF opriv.cover = "none" THEN 0 ELSE 1) + lostHw
    /\ \A i, j \in 1..Len(osd.regs) :
         i # j /\ osd.regs[i].act /\ osd.regs[j].act => osd.regs[i].name # osd.regs[j].name

\* Once rod leaves its buffers alone and no restart is under way, the regions
\* come to follow them: none without its buffer, every buffer with a region
\* unless slots or hardware are used up.
Follows ==
    /\ \A i \in 1..Len(osd.regs) : osd.regs[i].act => shm[osd.regs[i].name].on
    /\ \A n \in ONames : shm[n].on =>
          \/ rvd_osd_find_region(osd, n) > 0
          \/ alloc_region_slot(osd) = 0 \/ osd.hw >= OHardware
OsdFollows == []<>(changes > 0 \/ ostage # "up" \/ Follows)

=============================================================================
