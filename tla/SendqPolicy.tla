---------------------------- MODULE SendqPolicy ----------------------------
(***************************************************************************)
(* What a client's send queue promises to the two readers that fill it and *)
(* to the thread that empties it, said over plain sequences:               *)
(*   - each kind of frame leaves the queue in the order it was pushed;     *)
(*   - a video frame that does not fit costs every queued video frame and  *)
(*     itself, and no audio;                                               *)
(*   - an audio chunk that does not fit costs the oldest queued audio      *)
(*     chunk, or itself when there is none, and no video;                  *)
(*   - between the packets of a video frame the oldest audio may overtake. *)
(* RsdSendq implements this with a circular array.                         *)
(***************************************************************************)
EXTENDS Naturals, Sequences

CONSTANTS Slots,  \* capacity of the queue
          Frames  \* the frames that may be pushed, records with a type

VARIABLES queue,  \* the frames waiting, oldest first
          sent,   \* the frames handed to the network, in order
          open    \* the queue accepts frames

pvars == <<queue, sent, open>>

IsAudio(e) == e.type = "audio"
Full == Len(queue) >= Slots

RemoveAt(s, i) == SubSeq(s, 1, i - 1) \o SubSeq(s, i + 1, Len(s))
OldestAudio(i) == IsAudio(queue[i]) /\ \A j \in 1..(i - 1) : ~IsAudio(queue[j])

(* The audio of q, all of it and in order: keep[i] is where its i-th frame is. *)
AudioOf(q, audio) ==
    \E keep \in [1..Len(audio) -> {i \in 1..Len(q) : IsAudio(q[i])}] :
       /\ \A i \in 1..Len(q) : IsAudio(q[i]) => \E n \in 1..Len(audio) : keep[n] = i
       /\ \A m, n \in 1..Len(audio) : m < n => keep[m] < keep[n]
       /\ \A n \in 1..Len(audio) : audio[n] = q[keep[n]]

Enqueue(e) ==
    /\ open /\ ~Full
    /\ queue' = Append(queue, e)
    /\ UNCHANGED <<sent, open>>

RefuseVideo ==
    /\ open /\ Full
    /\ AudioOf(queue, queue')
    /\ UNCHANGED <<sent, open>>

ReplaceAudio(e) ==
    /\ open /\ Full /\ IsAudio(e)
    /\ \E i \in 1..Len(queue) :
          OldestAudio(i) /\ queue' = Append(RemoveAt(queue, i), e)
    /\ UNCHANGED <<sent, open>>

TakeHead ==
    /\ queue # <<>>
    /\ queue' = Tail(queue)
    /\ sent' = Append(sent, Head(queue))
    /\ UNCHANGED open

TakeAudio ==
    \E i \in 1..Len(queue) :
       /\ OldestAudio(i)
       /\ queue' = RemoveAt(queue, i)
       /\ sent' = Append(sent, queue[i])
       /\ UNCHANGED open

Close == open /\ open' = FALSE /\ UNCHANGED <<queue, sent>>
Discard == ~open /\ queue' = <<>> /\ UNCHANGED <<sent, open>>

PInit == queue = <<>> /\ sent = <<>> /\ open = TRUE

PNext ==
    \/ \E e \in Frames : Enqueue(e) \/ ReplaceAudio(e)
    \/ RefuseVideo
    \/ TakeHead
    \/ TakeAudio
    \/ Close
    \/ Discard

PSpec == PInit /\ [][PNext]_pvars
=============================================================================
