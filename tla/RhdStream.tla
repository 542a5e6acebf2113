----------------------------- MODULE RhdStream -----------------------------
(***************************************************************************)
(* rhd: MJPEG viewers and parked snapshots, served by one loop and a send  *)
(* thread per viewer.  A picture is read once, into a buffer every         *)
(* viewer's queue shares by reference, and the ring comes and goes under   *)
(* the loop as rvd restarts.  The JPEG rings are handled alike and one of  *)
(* them is modelled.                                                       *)
(***************************************************************************)
EXTENDS Naturals, Sequences, FiniteSets, SequencesExt, FiniteSetsExt

CONSTANTS
    HClients,            \* connections
    HAsks,               \* what each asks for: pairs <<client, kind>>
    HFrames,             \* frames the heap can hold; an allocation past it fails
    HDepth,              \* pictures the JPEG ring holds
    HQuiet, HSnap,       \* JPEG_QUIET_MS, RHD_SNAP_TIMEOUT_MS in passes of the loop
    HDeaths              \* bound: restarts of the producer

ASSUME RhdStreamConstants ==
    /\ IsFiniteSet(HClients)
    /\ {HFrames, HDepth, HQuiet, HSnap, HDeaths} \subseteq Nat \ {0}

VARIABLES
    jr,    \* the JPEG ring: [up, have] of the name, our handle's [open, gen, acq, lag, quiet, wrote]
    heap,  \* frames: [refs, pic]; refs = 0 is free
    fb,    \* srv->frame_buf, 0 for none
    cl,    \* clients: [kind, q, tx, pic, dead, fed], and of a snapshot [off, wait]
    hpc, polls  \* where the loop is; the snapshots it has yet to look at

hvars == <<jr, heap, fb, cl, hpc, polls>>

Gone == [kind |-> "none", q |-> <<>>, tx |-> 0, pic |-> FALSE, dead |-> FALSE,
         fed |-> FALSE, off |-> 0, wait |-> 0]
Of(kinds) == {c \in HClients : cl[c].kind \in kinds}

-----------------------------------------------------------------------------
\* Reference counts: every frame loses the references n says.
rhd_frame_unref(h, n) ==
    [f \in 1..HFrames |-> [refs |-> h[f].refs - n[f], pic |-> h[f].refs > n[f] /\ h[f].pic]]
One(b) == IF b THEN 1 ELSE 0
FreeIds(h) == {f \in 1..HFrames : h[f].refs = 0}

ForWritingInPlace(b) == b

\* frame_for_writing(<<heap, frame>>): the frame in hand if no client holds it, else a fresh
\* one, and none when the allocation fails.
frame_for_writing(b) ==
    IF b[2] = 0 \/ b[1][b[2]].refs <= 1 THEN b
    ELSE LET h == rhd_frame_unref(b[1], [f \in 1..HFrames |-> One(f = b[2])])
         IN IF FreeIds(h) = {} THEN <<h, 0>>
            ELSE LET f == Min(FreeIds(h)) IN <<[h EXCEPT ![f].refs = 1], f>>

\* remove_client: the thread finishes what it is sending and is joined.
Held(c, f) == One(cl[c].tx = f) + One(cl[c].q # <<>> /\ cl[c].q[1].f = f)

\* stream_mjpeg_frame: every viewer gets the frame, except that one whose
\* thread has given up is removed.  rhd_sendq_push of a picture puts it in the
\* place of the one waiting.
Quits(c) == cl[c].dead
Queued(c, f) == cl[c].q # <<>> /\ cl[c].q[1].f = f
Lost(f) == Cardinality({c \in Of({"mjpeg"}) : Queued(c, f)})
             + Cardinality({c \in Of({"mjpeg"}) : Quits(c) /\ cl[c].tx = f})
rhd_sendq_push(h, f) ==
    LET takers == {c \in Of({"mjpeg"}) : ~Quits(c)}
        lost == [g \in 1..HFrames |-> Lost(g)]
    IN [rhd_frame_unref(h, lost) EXCEPT ![f] = [refs |-> h[f].refs + Cardinality(takers) - lost[f], pic |-> h[f].pic]]
stream_mjpeg_frame(h, f, live, k) ==
    [c \in HClients |->
        IF k[c].kind # "mjpeg" THEN k[c]
        ELSE IF Quits(c) THEN Gone
        ELSE [k[c] EXCEPT !.q = <<[f |-> f, pic |-> h[f].pic]>>, !.fed = @ \/ live]]

-----------------------------------------------------------------------------
\* The JPEG ring.  A cursor that starts at zero is behind all the ring holds.
Closed(r) == [r EXCEPT !.open = FALSE, !.gen = "same", !.acq = FALSE, !.lag = 0, !.quiet = 0]
jpeg_ring_open_slot(r) ==
    IF r.open \/ ~r.up THEN r
    ELSE [r EXCEPT !.open = TRUE, !.gen = "same", !.lag = IF r.have THEN HDepth + 1 ELSE 0, !.quiet = 0]

\* The shared buffer <<heap, frame>> after that: allocated with a ring when
\* there is none.
Opens(was, r) == r.open /\ ~was.open
Buffered(was, r) ==
    IF Opens(was, r) /\ fb = 0 /\ FreeIds(heap) # {}
    THEN <<[heap EXCEPT ![Min(FreeIds(heap))].refs = 1], Min(FreeIds(heap))>>
    ELSE <<heap, fb>>

\* A parked snapshot keeps the cursor it was given when the ring is opened
\* again: against the new ring's numbers it is where they start, ahead of all
\* of them, or behind those the ring already holds.
Ahead == HDepth + 2
Cursors(was, r) == IF ~Opens(was, r) \/ Of({"snap"}) = {} THEN {0}
                   ELSE {0, Ahead} \cup (IF r.have THEN {HDepth + 1} ELSE {})
Kept(was, r, o) == [c \in HClients |-> IF Opens(was, r) /\ cl[c].kind = "snap"
                                       THEN [cl[c] EXCEPT !.off = o] ELSE cl[c]]

NeverGone(r) == FALSE

\* jpeg_ring_gone: asked of a ring that owes a frame and has been quiet.
jpeg_ring_gone(r) == r.quiet >= HQuiet /\ r.gen = "orphan"
Asked(r) == IF r.quiet >= HQuiet THEN [r EXCEPT !.quiet = 0] ELSE r

DemandHeld(r, wanted) ==
    LET o == IF wanted THEN jpeg_ring_open_slot(r) ELSE r
    IN IF o.open /\ wanted THEN [o EXCEPT !.acq = TRUE] ELSE o

\* The loop's first part: a ring is opened when wanted, and held exactly then.
Demand(r, wanted) ==
    LET o == IF wanted THEN jpeg_ring_open_slot(r) ELSE r
    IN IF o.open THEN [o EXCEPT !.acq = wanted] ELSE o

\* And the picture the viewers are owed: an overflow that made no progress is
\* a ring recreated in place, one that did leaves the newest picture readable.
StreamPass ==
    LET r == Demand(jr, Of({"mjpeg", "snap"}) # {})
        w == frame_for_writing(Buffered(jr, r))
        f == w[2]
        gone == r.gen = "moved" \/ ((r.lag = 0 \/ r.lag > HDepth) /\ jpeg_ring_gone(r))
        read == [w[1] EXCEPT ![f].pic = ~@]
    IN /\ hpc = "rest" /\ polls' = Of({"snap"})
       /\ hpc' = IF polls' = {} THEN "wait" ELSE "snap"
       /\ \E o \in Cursors(jr, r) :
            IF Of({"mjpeg"}) = {} \/ Buffered(jr, r)[2] = 0 \/ ~r.open
            THEN jr' = r /\ heap' = Buffered(jr, r)[1] /\ fb' = Buffered(jr, r)[2] /\ cl' = Kept(jr, r, o)
            ELSE /\ fb' = f
                 /\ IF f # 0 /\ ~gone /\ r.lag > 0
                    THEN /\ jr' = IF r.lag > HDepth THEN [Asked(r) EXCEPT !.lag = 0]
                                  ELSE [r EXCEPT !.lag = @ - 1, !.quiet = 0]
                         /\ heap' = rhd_sendq_push(read, f)
                         /\ cl' = stream_mjpeg_frame(read, f, r.gen = "same", Kept(jr, r, o))
                    ELSE /\ jr' = IF f = 0 THEN r ELSE IF gone THEN Closed(r) ELSE Asked(r)
                         /\ heap' = w[1] /\ cl' = Kept(jr, r, o)

SnapPollParked(c) ==
    /\ hpc = "snap" /\ c \in polls /\ polls' = polls \ {c}
    /\ hpc' = IF polls' = {} THEN "wait" ELSE "snap"
    /\ cl' = IF jr.open /\ cl[c].off \in 1..HDepth THEN [cl EXCEPT ![c] = [Gone EXCEPT !.kind = "sent"]] ELSE cl
    /\ UNCHANGED <<jr, heap, fb>>

\* snap_poll, for one client.  A ring it reopens itself starts the cursor past
\* what that holds; without a ring the request's own deadline fails it.
snap_poll(c) ==
    LET had == jr.open
        r == IF had THEN jr ELSE LET o == jpeg_ring_open_slot(jr) IN [o EXCEPT !.acq = o.open]
        off == IF had THEN cl[c].off ELSE 0
        w == frame_for_writing(Buffered(jr, r))
        read == r.open /\ w[2] # 0 /\ r.gen # "moved" /\ off \in 1..HDepth
        lapped == r.open /\ w[2] # 0 /\ off = HDepth + 1
        drop == r.open /\ ((w[2] # 0 /\ r.gen = "moved") \/ (~read /\ jpeg_ring_gone(r)))
        k(o) == IF read THEN [cl EXCEPT ![c] = [Gone EXCEPT !.kind = "sent"]]
                ELSE IF drop THEN [Kept(jr, r, o) EXCEPT ![c].off = off]
                ELSE IF lapped THEN [cl EXCEPT ![c].off = 1]
                ELSE IF cl[c].wait = 0 THEN [Kept(jr, r, o) EXCEPT ![c] = Gone]
                ELSE [Kept(jr, r, o) EXCEPT ![c].off = off]
    IN /\ hpc = "snap" /\ c \in polls /\ polls' = polls \ {c}
       /\ hpc' = IF polls' = {} THEN "wait" ELSE "snap"
       /\ heap' = IF ~r.open THEN heap ELSE IF read THEN [w[1] EXCEPT ![w[2]].pic = ~@] ELSE w[1]
       /\ fb' = IF r.open THEN w[2] ELSE fb
       /\ jr' = IF ~r.open THEN r ELSE IF drop THEN Closed(r)
                ELSE IF read THEN [r EXCEPT !.quiet = 0] ELSE Asked(r)
       /\ \E o \in Cursors(jr, r) : cl' = k(o)

\* The rest of a pass: the loop waits, and time passes.
Wait ==
    /\ hpc = "wait" /\ hpc' = "rest"
    /\ jr' = [jr EXCEPT !.quiet = IF jr.open /\ @ < HQuiet THEN @ + 1 ELSE @, !.paced = FALSE]
    /\ cl' = [c \in HClients |-> [cl[c] EXCEPT !.wait = IF @ > 0 THEN @ - 1 ELSE 0]]
    /\ UNCHANGED <<heap, fb, polls>>

\* The sweep, every twentieth pass (ten of them here are one): a replaced ring is reopened at once, one
\* nothing was written to since is closed unless a snapshot waits on it.
Sweep ==
    LET was == IF jr.open /\ jr.gen = "orphan" THEN Closed(jr) ELSE jr
        r == jpeg_ring_open_slot(was)
    IN /\ hpc = "rest"
       /\ jr' = IF ~was.open THEN [r EXCEPT !.acq = r.open /\ Of({"mjpeg", "snap"}) # {}]
                ELSE IF ~jr.wrote /\ Of({"snap"}) = {} THEN Closed(jr)
                ELSE [jr EXCEPT !.wrote = FALSE]
       /\ heap' = Buffered(was, r)[1] /\ fb' = Buffered(was, r)[2]
       /\ \E o \in Cursors(was, r) : cl' = Kept(was, r, o)
       /\ UNCHANGED <<hpc, polls>>

-----------------------------------------------------------------------------
\* handle_request: the ring asked for is opened, and the client joins.
Join(c, kind, as) ==
    LET r == jpeg_ring_open_slot(jr)
    IN /\ hpc = "rest" /\ <<c, kind>> \in HAsks /\ cl[c].kind = "none" /\ r.open
       /\ jr' = r /\ heap' = Buffered(jr, r)[1] /\ fb' = Buffered(jr, r)[2]
       /\ \E o \in Cursors(jr, r) : cl' = [Kept(jr, r, o) EXCEPT ![c] = as]
       /\ UNCHANGED <<hpc, polls>>
AskMjpeg(c) == Join(c, "mjpeg", [Gone EXCEPT !.kind = "mjpeg"])

\* handle_snapshot: the cursor starts past what the ring holds.
handle_snapshot(c) == Join(c, "snap", [Gone EXCEPT !.kind = "snap", !.wait = HSnap])

Leave(c) ==
    /\ hpc = "rest" /\ cl[c].kind # "none"
    /\ heap' = rhd_frame_unref(heap, [f \in 1..HFrames |-> Held(c, f)]) /\ cl' = [cl EXCEPT ![c] = Gone]
    /\ UNCHANGED <<jr, fb, hpc, polls>>

-----------------------------------------------------------------------------
\* The send threads.
Take(c) ==
    /\ cl[c].tx = 0 /\ cl[c].q # <<>> /\ ~cl[c].dead
    /\ cl' = [cl EXCEPT ![c].tx = Head(cl[c].q).f, ![c].q = Tail(@), ![c].pic = Head(cl[c].q).pic]
    /\ UNCHANGED <<jr, heap, fb, hpc, polls>>
Sent(c, ok) ==
    /\ cl[c].tx # 0 /\ heap' = rhd_frame_unref(heap, [f \in 1..HFrames |-> One(f = cl[c].tx)])
    /\ cl' = [cl EXCEPT ![c].tx = 0, ![c].pic = FALSE, ![c].dead = ~ok]
    /\ UNCHANGED <<jr, fb, hpc, polls>>

\* The producer: a picture while the loop waits, at most one a pass; a producer that unlinks its ring and leaves, one
\* that starts, one that recreates the ring in place.
Produce ==
    /\ jr.up /\ hpc = "wait" /\ ~jr.paced
    /\ jr' = [jr EXCEPT !.have = TRUE, !.paced = TRUE, !.wrote = TRUE,
                        !.lag = IF jr.open /\ jr.gen = "same" /\ @ <= HDepth THEN @ + 1 ELSE @]
    /\ cl' = [c \in HClients |-> IF cl[c].kind # "snap" THEN cl[c]
                                 ELSE [cl[c] EXCEPT !.off = IF jr.open /\ jr.gen = "same" /\ @ <= HDepth THEN @ + 1 ELSE @]]
    /\ UNCHANGED <<heap, fb, hpc, polls>>
Unfed == [c \in HClients |-> IF cl[c].kind = "mjpeg" THEN [cl[c] EXCEPT !.fed = FALSE] ELSE cl[c]]
JpegDown == /\ jr.up /\ jr.left > 0
            /\ jr' = [jr EXCEPT !.left = @ - 1, !.up = FALSE, !.have = FALSE, !.gen = IF jr.open THEN "orphan" ELSE @]
            /\ cl' = Unfed /\ UNCHANGED <<heap, fb, hpc, polls>>
JpegUp == ~jr.up /\ jr' = [jr EXCEPT !.up = TRUE] /\ UNCHANGED <<heap, fb, cl, hpc, polls>>
JpegMoved == /\ jr.up /\ jr.open /\ jr.gen = "same" /\ jr.left > 0
             /\ jr' = [jr EXCEPT !.left = @ - 1, !.have = FALSE, !.gen = "moved"]
             /\ cl' = Unfed /\ UNCHANGED <<heap, fb, hpc, polls>>

-----------------------------------------------------------------------------
HInit ==
    /\ jr = [up |-> FALSE, have |-> FALSE, open |-> FALSE, gen |-> "same", acq |-> FALSE,
             lag |-> 0, quiet |-> 0, wrote |-> FALSE, paced |-> FALSE, left |-> HDeaths]
    /\ heap = [f \in 1..HFrames |-> [refs |-> 0, pic |-> FALSE]] /\ fb = 0
    /\ cl = [c \in HClients |-> Gone] /\ hpc = "rest" /\ polls = {}

Loop == StreamPass \/ (\E c \in HClients : snap_poll(c)) \/ Wait
Threads(c) == Take(c) \/ \E ok \in BOOLEAN : Sent(c, ok)
HNext ==
    \/ StreamPass \/ Wait \/ Sweep
    \/ \E c \in HClients : \/ snap_poll(c) \/ AskMjpeg(c) \/ handle_snapshot(c)
                           \/ Leave(c) \/ Take(c)
    \/ \E c \in HClients, ok \in BOOLEAN : Sent(c, ok)
    \/ Produce \/ JpegDown \/ JpegUp \/ JpegMoved

\* The loop turns; an encoder that is held goes on producing.
Encodes == Produce /\ jr.acq /\ jr.gen = "same"
HFair == /\ WF_hvars(Loop) /\ SF_hvars(Encodes)
         /\ \A c \in HClients : WF_hvars(Threads(c))
HSpec == HInit /\ [][HNext]_hvars /\ HFair

-----------------------------------------------------------------------------
HTypeOK ==
    /\ jr.lag \in 0..(HDepth + 1) /\ jr.quiet \in 0..HQuiet
    /\ fb \in 0..HFrames /\ \A f \in 1..HFrames : heap[f].refs \in 0..(Cardinality(HClients) + 2)
    /\ \A c \in HClients : Len(cl[c].q) <= 1 /\ cl[c].kind \in {"none", "mjpeg", "snap", "sent"}

\* "The one copy of the frame goes to everyone; each queue takes a reference":
\* a frame a client waits for or is being sent is never written again, and a
\* frame is kept exactly as long as somebody holds it, so that a slow viewer
\* costs "one frame of memory" and none is used after it is freed.
Holders(f) == {h \in HClients \X (0..1) :
                 IF h[2] = 0 THEN cl[h[1]].tx = f ELSE cl[h[1]].q # <<>> /\ cl[h[1]].q[1].f = f}
FramesShared ==
    /\ \A f \in 1..HFrames : heap[f].refs = Cardinality(Holders(f)) + (IF f = fb THEN 1 ELSE 0)
    /\ \A c \in HClients : /\ \A i \in 1..Len(cl[c].q) : heap[cl[c].q[i].f].pic = cl[c].q[i].pic
                           /\ cl[c].tx # 0 => heap[cl[c].tx].pic = cl[c].pic

\* A viewer has pictures of the producer that runs now queued for
\* it, whichever way the one before ended (the rings it mapped then are
\* orphans nobody writes); a parked snapshot ends, served or failed; and an
\* encoder nobody watches is let go.
Owed(c) == \/ cl[c].kind = "mjpeg" /\ jr.up /\ ~cl[c].fed /\ fb # 0
           \/ cl[c].kind = "snap"
Served ==
    /\ \A c \in HClients : []<>~Owed(c)
    /\ []<>(jr.acq => Of({"mjpeg", "snap"}) # {})
=============================================================================
