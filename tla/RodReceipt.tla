---------------------------- MODULE RodReceipt ----------------------------
(***************************************************************************)
(* rod's receipt element: bytes from a FIFO or a serial line gathered into *)
(* lines (ended by a newline, by length or by silence), kept in a circular *)
(* buffer and drawn oldest first, as many as the element's buffer has rows *)
(* for: its height is max_lines of them, clipped to the picture.           *)
(***************************************************************************)
EXTENDS Integers, Sequences, SequencesExt

CONSTANTS
    RcLines,    \* ROD_RECEIPT_MAX_LINES: the circular buffer
    RcShown,    \* max_lines of the element
    RcRows,     \* the rows a buffer may have room for
    RcLineLen,  \* max_line_len
    RcFed       \* bound: lines fed

ASSUME RodReceiptConstants == RcLines \in Nat \ {0} /\ RcShown \in 1..RcLines /\ RcRows \subseteq Nat /\ RcRows # {} /\ RcLineLen \in Nat \ {0}

VARIABLES
    rc,     \* lines, head, count, dirty
    accum,  \* bytes of the line being gathered
    input,  \* the input descriptor is open
    rows,   \* the lines its buffer has room for
    fed     \* history: the lines completed since the last clear

rcvars == <<rc, accum, input, rows, fed>>

\* A completed line, numbered by when it was completed.
rod_receipt_add_line ==
    /\ Len(fed) < RcFed
    /\ rc' = [lines |-> [rc.lines EXCEPT ![rc.head] = Len(fed) + 1],
              head |-> (rc.head + 1) % RcLines,
              count |-> IF rc.count < RcShown THEN rc.count + 1 ELSE rc.count,
              dirty |-> TRUE]
    /\ fed' = Append(fed, Len(fed) + 1)

\* One byte: a newline or a full line emits, a carriage return is skipped.
emit_accum_line == accum > 0 /\ rod_receipt_add_line /\ accum' = 0 /\ UNCHANGED <<input, rows>>
FeedByte ==
    /\ input
    /\ IF accum + 1 >= RcLineLen
       THEN rod_receipt_add_line /\ accum' = 0
       ELSE accum' = accum + 1 /\ UNCHANGED <<rc, fed>>
    /\ UNCHANGED <<input, rows>>
FeedNewline == input /\ emit_accum_line
\* The gathering timed out, seen by the next tick.
AccumTimeout == emit_accum_line
\* A line over the control socket goes straight in.
handle_receipt == rod_receipt_add_line /\ UNCHANGED <<accum, input, rows>>

rod_receipt_clear ==
    /\ rc' = [rc EXCEPT !.head = 0, !.count = 0, !.dirty = TRUE]
    /\ fed' = <<>>
    /\ UNCHANGED <<accum, input, rows>>

\* The writer of the FIFO goes: closed, and opened again at once if possible.
InputGone(ok) == input /\ input' = ok /\ UNCHANGED <<rc, accum, rows, fed>>

StartAtHead == rc.head

\* The buffer is made anew in another font size: other rows.
Resize == rows' \in RcRows \ {rows} /\ UNCHANGED <<rc, accum, input, fed>>

\* What a tick draws: count lines from the oldest, until the buffer is full.
RcStart == (rc.head - rc.count + RcLines) % RcLines
Fit == IF rc.count < rows THEN rc.count ELSE rows
Drawn == [i \in 1..Fit |-> rc.lines[(RcStart + i - 1) % RcLines]]
rod_render_receipt == rc.dirty /\ rc' = [rc EXCEPT !.dirty = FALSE] /\ UNCHANGED <<accum, input, rows, fed>>

RcInit ==
    /\ rc = [lines |-> [i \in 0..RcLines - 1 |-> 0], head |-> 0, count |-> 0, dirty |-> FALSE]
    /\ accum = 0 /\ input = TRUE /\ rows \in RcRows /\ fed = <<>>
RcNext ==
    \/ FeedByte \/ FeedNewline \/ AccumTimeout \/ handle_receipt \/ rod_receipt_clear
    \/ rod_render_receipt \/ Resize \/ \E ok \in BOOLEAN : InputGone(ok)
RcSpec == RcInit /\ [][RcNext]_rcvars

RcTypeOK == rc.head \in 0..RcLines - 1 /\ rc.count \in 0..RcShown /\ accum \in 0..RcLineLen - 1

\* What is drawn comes from the last lines fed since the clear, in the order
\* they came, however often the buffer has wrapped: all of them when the
\* picture has room for max_lines rows.  When it has not, it is the newest
\* that are missing (rod_receipt.c:135).
ReceiptInOrder ==
    LET old == Len(fed) - rc.count
    IN /\ rc.count = IF Len(fed) < RcShown THEN Len(fed) ELSE RcShown
       /\ Drawn = SubSeq(fed, old + 1, old + Fit)
=============================================================================
