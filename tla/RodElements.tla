---------------------------- MODULE RodElements ----------------------------
(***************************************************************************)
(* rod's overlay elements on one stream: the registry and its slots, the   *)
(* named places elements claim, the shared-memory buffer an element has    *)
(* exactly while it draws, the pool of fonts and the rendering tick.       *)
(***************************************************************************)
EXTENDS Integers, FiniteSets, Sequences, SequencesExt, FiniteSetsExt

CONSTANTS
    ENames,      \* the elements
    ELayouts,    \* what each may be: "text", "change" (text, updated on change),
                 \* "image", "receipt" or "overlay"
    EPlaces,     \* the named places, in the order they are offered
    MaxElements, \* ROD_MAX_ELEMENTS
    MaxFonts,    \* ROD_MAX_FONTS
    ESizes,      \* font sizes the overlay may be given
    EOwn,        \* font sizes an element may be given
    EDetect,     \* the element the detections are drawn into: "detect"
    EFaults      \* what may fail together: font sizes that do not load, elements
                 \* whose buffer cannot be made

ASSUME RodConstants == MaxElements \in Nat \ {0} /\ MaxFonts \in Nat \ {0} /\ EPlaces \in Seq(STRING) \ {<<>>}

VARIABLES
    kinds,    \* the kind each element is given when it is added
    els,      \* the element slots
    fonts,    \* the font pool: size and reference count
    fsize,    \* the overlay's own font size
    paused,   \* rendering disabled
    fontLost, \* history: a font set-font-size wanted could not be had
    faults    \* what fails at present

rodvars == <<kinds, els, fonts, fsize, paused, fontLost, faults>>

Texty(e) == e.act /\ kinds[e.name] \in {"text", "change"}
RodWritten(e) == e.act /\ kinds[e.name] \in {"text", "change", "receipt"}

\* The kinds whose needs_update the tick looks at.
Redraws(e) == e.act /\ kinds[e.name] \in {"change", "image"}

\* A removed element's slot: nothing in it is read before it is cleared again.
\* filled: text with a template, an image with a bitmap; denied: history, the
\* system refused the last buffer asked for it.
Vacant == [name |-> "", act |-> FALSE, vis |-> FALSE, place |-> "top_left", filled |-> FALSE,
           own |-> 0, font |-> 0, shm |-> FALSE, need |-> FALSE, drawn |-> FALSE,
           fresh |-> FALSE, dirty |-> FALSE, denied |-> FALSE]

\* rod_find_element: the active slot of that name, or 0.
rod_find_element(n) == SelectInSeq(els, LAMBDA e : e.act /\ e.name = n)

-----------------------------------------------------------------------------
\* The font pool: a font of that size is shared, a free slot is loaded if the
\* font will load.
FontOf(fs, size) ==
    LET same == {i \in 1..MaxFonts : fs[i].refs > 0 /\ fs[i].size = size}
        free == {i \in 1..MaxFonts : fs[i].refs = 0 /\ size \notin faults.fonts}
    IN IF same # {} THEN Min(same) ELSE IF free # {} THEN Min(free) ELSE 0
rod_alloc_font(fs, size) ==
    LET i == FontOf(fs, size)
    IN IF i = 0 THEN fs ELSE [fs EXCEPT ![i] = [size |-> size, refs |-> @.refs + 1]]
ReleaseNone(fs, i) == fs

release_font(fs, i) == IF i = 0 \/ fs[i].refs = 0 THEN fs ELSE [fs EXCEPT ![i].refs = @ - 1]

\* The size of an element's text: its own, or else the overlay's.
rod_font_for_elem(e) == IF e.own > 0 THEN e.own ELSE fsize

-----------------------------------------------------------------------------
\* Whether an element puts anything on the picture.
elem_draws(e) == e.act /\ e.vis /\ (Texty(e) => e.filled)

\* Text without a font and an image without a bitmap get no buffer.
Sizeless(e) ==
    e.act /\ \/ kinds[e.name] \in {"text", "change", "receipt"} /\ e.font = 0
             \/ kinds[e.name] = "image" /\ ~e.filled

\* A buffer may be refused; a new one has to be drawn.
create_elem_shm(e) ==
    IF Sizeless(e) THEN e
    ELSE IF e.name \in faults.bufs THEN [e EXCEPT !.denied = TRUE]
    ELSE [e EXCEPT !.shm = TRUE, !.need = Redraws(e), !.drawn = FALSE, !.denied = FALSE]
destroy_elem_shm(e) == [e EXCEPT !.shm = FALSE, !.drawn = FALSE, !.denied = FALSE]

SyncedUnclaimed(e, taken) ==
    IF elem_draws(e) /\ (e.shm \/ e.place \notin taken)
    THEN IF e.shm THEN e ELSE create_elem_shm(e)
    ELSE destroy_elem_shm(e)

\* rod_sync_shms: in slot order, an element that draws takes its place unless
\* an earlier one has a buffer there; everyone else's buffer goes.
Synced(e, taken) ==
    IF elem_draws(e) /\ e.place \notin taken
    THEN IF e.shm THEN e ELSE create_elem_shm(e)
    ELSE destroy_elem_shm(e)
SyncSlot(acc, k) ==
    LET x == Synced(acc.es[k], acc.taken)
    IN [es |-> [acc.es EXCEPT ![k] = x],
        taken |-> IF x.shm THEN acc.taken \cup {x.place} ELSE acc.taken]
rod_sync_shms(es) ==
    LET after[k \in 0..Len(es)] == IF k = 0 THEN [es |-> es, taken |-> {}] ELSE SyncSlot(after[k - 1], k)
    IN after[Len(es)].es

-----------------------------------------------------------------------------
\* The first named place no element is at, a hidden one included.
rod_free_place ==
    LET held == {els[i].place : i \in {j \in 1..Len(els) : els[j].act}}
        k == SelectInSeq(EPlaces, LAMBDA p : p \notin held)
    IN IF k = 0 THEN "top_left" ELSE EPlaces[k]

\* add-element: the first slot nobody uses, or a new one.
Slot == LET k == SelectInSeq(els, LAMBDA e : ~e.act) IN IF k > 0 THEN k ELSE Len(els) + 1
handle_add_element(n, p, filled, own) ==
    LET place == IF p = "any" THEN rod_free_place ELSE p
        size == IF own > 0 THEN own ELSE fsize
        e == [Vacant EXCEPT !.name = n, !.act = TRUE, !.vis = TRUE, !.place = place,
                            !.filled = filled, !.own = own]
        fe == IF RodWritten(e) THEN [e EXCEPT !.font = FontOf(fonts, size)] ELSE e
        at == IF Slot > Len(els) THEN Append(els, fe) ELSE [els EXCEPT ![Slot] = fe]
    IN /\ rod_find_element(n) = 0 /\ Slot <= MaxElements
       /\ els' = rod_sync_shms(at)
       /\ fonts' = IF RodWritten(e) THEN rod_alloc_font(fonts, size) ELSE fonts
       /\ UNCHANGED <<kinds, fsize, paused, fontLost, faults>>

handle_remove_element(n) ==
    LET i == rod_find_element(n)
    IN /\ i > 0
       /\ fonts' = release_font(fonts, els[i].font)
       /\ els' = rod_sync_shms([els EXCEPT ![i] = Vacant])
       /\ UNCHANGED <<kinds, fsize, paused, fontLost, faults>>

\* set-element template, position, colour; set-position moves likewise.
\* (The other kinds keep a template and a colour too: a template nobody reads,
\* a colour that shows with a receipt's next line.)
Elem(n) == els[rod_find_element(n)]
Edit(n, e) ==
    LET i == rod_find_element(n)
    IN /\ i > 0 /\ els' = rod_sync_shms([els EXCEPT ![i] = e])
       /\ UNCHANGED <<kinds, fonts, fsize, paused, fontLost, faults>>
SetTemplate(n, filled) ==
    kinds[n] \in {"text", "change"} /\ Edit(n, [Elem(n) EXCEPT !.filled = filled, !.fresh = FALSE, !.need = Redraws(Elem(n)), !.drawn = FALSE])
SetColour(n) ==
    kinds[n] \in {"text", "change"} /\ Edit(n, [Elem(n) EXCEPT !.need = Redraws(Elem(n)), !.drawn = FALSE])
handle_set_position(n, p) == Edit(n, [Elem(n) EXCEPT !.place = p])
handle_show_hide(n, show) == Edit(n, [Elem(n) EXCEPT !.vis = show])

\* set-element font_size: one element lets its font go and takes another; one
\* that gets none keeps its buffer and what is in it.
SetOwnFont(n, size) ==
    LET i == rod_find_element(n)
        fs == release_font(fonts, els[i].font)
        f == FontOf(fs, size)
        e == [els[i] EXCEPT !.own = size, !.font = f]
    IN /\ i > 0 /\ RodWritten(els[i]) /\ els[i].own # size
       /\ fonts' = rod_alloc_font(fs, size)
       /\ els' = rod_sync_shms([els EXCEPT ![i] = IF f = 0 THEN e ELSE destroy_elem_shm(e)])
       /\ UNCHANGED <<kinds, fsize, paused, fontLost, faults>>

\* set-font-size: every text element in turn; one that gets no font keeps
\* the index it has just let go.
Refont(acc, i) ==
    LET e == acc.es[i]
        size == IF e.own > 0 THEN e.own ELSE acc.size
        fs == release_font(acc.fs, e.font)
        f == FontOf(fs, size)
    IN IF ~(e.act /\ Texty(e)) THEN acc
       ELSE IF f = 0 THEN [acc EXCEPT !.fs = fs, !.lost = TRUE]
       ELSE [acc EXCEPT !.fs = rod_alloc_font(fs, size),
                        !.es = [@ EXCEPT ![i] = destroy_elem_shm([e EXCEPT !.font = f])]]
handle_font_size_change(size) ==
    LET after[k \in 0..Len(els)] ==
          IF k = 0 THEN [es |-> els, fs |-> fonts, size |-> size, lost |-> fontLost] ELSE Refont(after[k - 1], k)
        r == after[Len(els)]
    IN /\ size # fsize
       /\ fsize' = size /\ fonts' = r.fs /\ fontLost' = r.lost
       /\ els' = rod_sync_shms(r.es)
       /\ UNCHANGED <<kinds, paused, faults>>

\* enable and disable: the buffers are blanked now and all redrawn later.
RodDisable ==
    /\ ~paused /\ paused' = TRUE
    /\ els' = [i \in 1..Len(els) |-> [els[i] EXCEPT !.drawn = FALSE]]
    /\ UNCHANGED <<kinds, fonts, fsize, fontLost, faults>>
EnableBare == paused /\ paused' = FALSE /\ UNCHANGED <<kinds, els, fonts, fsize, fontLost, faults>>

RodEnable ==
    /\ paused /\ paused' = FALSE
    /\ els' = [i \in 1..Len(els) |-> [els[i] EXCEPT !.need = Redraws(els[i])]]
    /\ UNCHANGED <<kinds, fonts, fsize, fontLost, faults>>

\* What a text expands to changes with the clock or a variable; a receipt
\* gets a line.
Content(n) ==
    LET i == rod_find_element(n)
    IN /\ i > 0 /\ kinds[n] \notin {"image", "overlay"}
       /\ els' = [els EXCEPT ![i].fresh = FALSE, ![i].drawn = FALSE,
                             ![i].dirty = (kinds[n] = "receipt")]
       /\ UNCHANGED <<kinds, fonts, fsize, paused, fontLost, faults>>

\* Its font has glyphs: not so for one that kept the index of a font let go.
Lettered(e) == e.font # 0 /\ fonts[e.font].refs > 0

RenderedOnChange(e) ==
    IF Texty(e) /\ kinds[e.name] = "change"
    THEN [e EXCEPT !.fresh = TRUE, !.drawn = @ \/ (~e.fresh /\ e.shm /\ Lettered(e))] ELSE e

\* One element in one tick.  Without a font nothing is drawn, with one let go
\* the buffer is blanked; the text counts as rendered either way.
Rendered(e) ==
    IF ~e.act \/ ~e.vis THEN e ELSE
    CASE Texty(e) ->
           LET due == kinds[e.name] = "text" \/ ~e.fresh \/ (e.need /\ e.shm)
           IN [e EXCEPT !.fresh = (kinds[e.name] = "change"), !.need = @ /\ ~due,
                        !.drawn = IF due /\ e.shm /\ e.font # 0 THEN Lettered(e) ELSE @]
      [] kinds[e.name] = "image" /\ e.need /\ e.shm -> [e EXCEPT !.need = FALSE, !.drawn = TRUE]
      [] kinds[e.name] = "receipt" /\ e.dirty ->
           [e EXCEPT !.dirty = FALSE, !.drawn = IF e.shm /\ e.font # 0 THEN Lettered(e) ELSE @]
      [] OTHER -> e
render_tick ==
    /\ ~paused
    /\ els' = [i \in 1..Len(els) |-> Rendered(els[i])]
    /\ UNCHANGED <<kinds, fonts, fsize, paused, fontLost, faults>>

\* The detections are drawn over whatever "detect" is, from rvd's answer every
\* half second, paused or not; a query that fails draws nothing.
render_detections ==
    LET d == rod_find_element(EDetect)
    IN /\ d > 0 /\ els[d].vis
       /\ els' = [i \in 1..Len(els) |->
                    IF i = d /\ els[i].shm THEN [els[i] EXCEPT !.drawn = (kinds[els[i].name] = "overlay")] ELSE els[i]]
       /\ UNCHANGED <<kinds, fonts, fsize, paused, fontLost, faults>>

\* Memory and files come and go.
RodFault ==
    /\ faults' \in EFaults \ {faults}
    /\ UNCHANGED <<kinds, els, fonts, fsize, paused, fontLost>>

RodInit ==
    /\ kinds \in ELayouts
    /\ els = <<>> /\ paused = FALSE /\ fontLost = FALSE
    /\ fonts = [i \in 1..MaxFonts |-> [size |-> 0, refs |-> 0]]
    /\ fsize \in ESizes /\ faults \in EFaults
RodNext ==
    \/ \E n \in ENames, p \in Range(EPlaces) \cup {"any"}, own \in {0} \cup EOwn, b \in BOOLEAN :
         handle_add_element(n, p, b, own)
    \/ \E n \in ENames :
         \/ handle_remove_element(n) \/ SetColour(n) \/ Content(n)
         \/ \E b \in BOOLEAN : SetTemplate(n, b) \/ handle_show_hide(n, b)
         \/ \E p \in Range(EPlaces) : handle_set_position(n, p)
         \/ \E size \in EOwn : SetOwnFont(n, size)
    \/ \E size \in ESizes : handle_font_size_change(size)
    \/ RodDisable \/ RodEnable \/ render_tick \/ render_detections \/ RodFault

\* The tick comes round as long as rod runs, and rvd answers at last.
RodFair == WF_rodvars(render_tick) /\ WF_rodvars(render_detections)
RodSpec == RodInit /\ [][RodNext]_rodvars /\ RodFair

-----------------------------------------------------------------------------
RodTypeOK ==
    /\ Len(els) <= MaxElements
    /\ \A i \in 1..Len(els) : els[i].font \in 0..MaxFonts /\ els[i].place \in Range(EPlaces) \cup {"top_left"}
    /\ \A i \in 1..MaxFonts : fonts[i].refs \in 0..MaxElements

\* Two elements never have a buffer at one place, where the compositor would
\* let one blank the other; and an element that draws is without a buffer
\* only because another one has its place, it has no font or no bitmap, or the
\* system refused the buffer when it was last asked for one.
PlacesExclusive ==
    \A i \in 1..Len(els) :
        /\ els[i].shm => elem_draws(els[i])
        /\ \A j \in 1..Len(els) : i # j /\ els[i].shm /\ els[j].shm => els[i].place # els[j].place
        /\ elem_draws(els[i]) /\ ~els[i].shm /\ ~Sizeless(els[i]) /\ ~els[i].denied =>
              \E j \in 1..Len(els) : els[j].shm /\ els[j].place = els[i].place

\* Every font is referenced exactly as often as elements hold it, so none is
\* unloaded under an element that draws with it, however often the pool was
\* full or a font did not load - except after a set-font-size that got no font
\* for an element, which then keeps the index it let go (rod_ctrl.c:169).
FontsCounted ==
    ~fontLost => \A f \in 1..MaxFonts :
        fonts[f].refs = Cardinality({i \in 1..Len(els) : els[i].act /\ els[i].font = f})

\* Whether rod itself draws all of an element: text that has its font and that
\* the detections do not overwrite, an image, the detections.
RodDraws(e) ==
    CASE Texty(e) -> e.font # 0 /\ ~fontLost /\ (e.name = EDetect => kinds[e.name] = "text")
      [] kinds[e.name] = "overlay" -> e.name = EDetect
      [] kinds[e.name] = "image" -> e.name # EDetect
      [] OTHER -> FALSE

\* Whatever is shown gets drawn: a text or image buffer that is new, changed
\* or blanked is drawn again, unless it goes or rendering is paused.  A text
\* that set-element left without a font keeps its old picture for ever, one
\* that set-font-size left with a font let go is blank, also when the font's
\* slot is loaded again for another: neither is drawn, and both are excepted.
Redrawn ==
    \A i \in 1..MaxElements :
        []<>(i <= Len(els) /\ els[i].shm /\ RodDraws(els[i]) => els[i].drawn \/ paused)
=============================================================================
