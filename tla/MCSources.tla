----------------------------- MODULE MCSources -----------------------------
(* The daemons that make the sound and the overlays: rad's capture,        *)
(* speaker and clock, rod's elements and receipts.  As modelled they share *)
(* no variable, so each behaviour runs the part that "which" names while   *)
(* the others rest where they start: every interleaving inside a part is   *)
(* there, and the state space is the sum of theirs.                        *)
EXTENDS RadInput, RadOutput, RadClock, RodElements, RodReceipt

VARIABLE which

\* Two elements: two texts that want the one font, an image and the detections.
OverlayKinds == {[a |-> "change", b |-> "text"], [a |-> "image", b |-> "overlay"]}
Places == <<"top_left", "center">>

\* Nothing fails; or one font does not load and one buffer is refused.
Faults == {[fonts |-> {}, bufs |-> {}], [fonts |-> {1}, bufs |-> {"a"}]}

\* Only the chosen one starts in every state it may start in.
SourcesInit ==
    /\ which \in {"input", "output", "clock", "elements", "receipt"}
    /\ ClkInit /\ RcInit /\ (which = "receipt" \/ rows = 3)
    /\ AiInit /\ (which = "input" \/ cfgRate = 8)
    /\ AoInit /\ (which = "output" \/ aoRate = 8)
    /\ RodInit /\ (which = "elements" \/ (kinds.b = "text" /\ fsize = 1 /\ faults.fonts = {} /\ faults.bufs = {}))

Only(part) ==
    /\ which = part /\ UNCHANGED which
    /\ IF part = "input" THEN TRUE ELSE UNCHANGED aivars
    /\ IF part = "output" THEN TRUE ELSE UNCHANGED aovars
    /\ IF part = "clock" THEN TRUE ELSE UNCHANGED clkvars
    /\ IF part = "elements" THEN TRUE ELSE UNCHANGED rodvars
    /\ IF part = "receipt" THEN TRUE ELSE UNCHANGED rcvars

SourcesNext ==
    \/ Only("input") /\ AiNext
    \/ Only("output") /\ AoNext
    \/ Only("clock") /\ ClkNext
    \/ Only("elements") /\ RodNext
    \/ Only("receipt") /\ RcNext

sources == <<which, aivars, aovars, clkvars, rodvars, rcvars>>

\* The fairness of the modules, for the part that runs.
SourcesFairness ==
    /\ WF_aivars(which = "input" /\ Loop)
    /\ WF_aovars(which = "output" /\ Thread) /\ WF_aovars(which = "output" /\ Returns)
    /\ WF_rodvars(which = "elements" /\ render_tick)
    /\ WF_rodvars(which = "elements" /\ render_detections)
SourcesSpec == SourcesInit /\ [][SourcesNext]_sources /\ SourcesFairness

-----------------------------------------------------------------------------
\* Every part's state has its type.
TypesOK == AiTypeOK /\ AoTypeOK /\ ClkTypeOK /\ RodTypeOK /\ RcTypeOK

\* rad's stream is what its ring says, echo cancellation has its speaker and
\* an enabled speaker its thread unless it ran out of memory (rad_main.c), and the synthetic
\* clock follows the monotonic one without ever turning a burst's timestamps
\* back (rad_clock.c).
AudioTrue ==
    /\ StreamAsAdvertised /\ AecNeedsSpeaker /\ SpeakerServed
    /\ ClockTracks /\ BurstKeepsOrder

\* rod's elements never share a place or a font count, with the pool full and
\* with fonts and buffers that fail, and a receipt shows its last lines, as
\* many as there is room for, in the order they came (rod_elem.c, rod_ctrl.c,
\* rod_receipt.c).
OverlaysOwned == PlacesExclusive /\ FontsCounted /\ ReceiptInOrder

\* Capture reads again once rvd leaves the hardware alone (rad_main.c), a
\* command to the speaker returns (rad_main.c), what is shown and has its font
\* gets drawn (rod_main.c).
SourcesReturn == CaptureRecovers /\ ControlReturns /\ Redrawn
=============================================================================
