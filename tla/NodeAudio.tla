------------------------------ MODULE NodeAudio ------------------------------
(***************************************************************************)
(* The capture buffer of the device, firmware/components/node_audio:       *)
(* two static halves that the recorder fills and the uploader drains.      *)
(*                                                                         *)
(* The unit of data is what one i2s_channel_read returns (4096 bytes); a   *)
(* half takes HalfUnits of them (4).  The five operations below are the    *)
(* functions of node_audio.c that touch the halves, from one value of the  *)
(* file's static variables to the next.  No lock protects the variables.   *)
(***************************************************************************)
EXTENDS Integers, Sequences

CONSTANTS
    HalfUnits,  \* blocks in a half
    Block       \* the blocks the microphone delivers

ASSUME HalfAssumption == HalfUnits \in Nat \ {0}

Index == {0, 1}   \* NODE_AUDIO_HALVES is 2, in the code and here
Next2(i) == (i + 1) % 2

HalfState == {"empty", "filling", "full"}
Half == [state : HalfState, data : Seq(Block)]

\* s_halves, s_fill_idx, s_drain_idx, s_total_bytes, s_overrun.
Ring == [half : [Index -> Half], fill : Index, drain : Index, total : Nat, overrun : BOOLEAN]

EmptyHalf == [state |-> "empty", data |-> <<>>]

\* halves_reset.
ResetRing ==
    [half |-> [i \in Index |-> EmptyHalf], fill |-> 0, drain |-> 0, total |-> 0,
     overrun |-> FALSE]

\* halves_push of one block: a half that is full where the recorder stands is
\* taken over, and the uploader is sent to that half.
Push(r, b) ==
    LET full == r.half[r.fill].state = "full"
        empty == r.half[r.fill].state = "empty"
        kept == IF full \/ empty THEN <<>> ELSE r.half[r.fill].data
        data == Append(kept, b)
        filled == Len(data) >= HalfUnits
    IN  [r EXCEPT !.half[r.fill] = [state |-> IF filled THEN "full" ELSE "filling",
                                    data |-> data],
                  !.fill = IF filled THEN Next2(@) ELSE @,
                  !.drain = IF full THEN r.fill ELSE @,
                  !.total = @ + 1,
                  !.overrun = @ \/ full]

\* audio_half_take_full: the half the uploader stands at, once it is full.
HasFull(r) == r.half[r.drain].state = "full"
TakeFull(r) == r.half[r.drain].data

\* audio_half_mark_empty, which looks up s_drain_idx anew.
MarkEmpty(r) == [r EXCEPT !.half[r.drain] = EmptyHalf, !.drain = Next2(@)]

\* audio_half_seal: the half being filled counts as full, the recorder stays.
Seal(r) ==
    IF r.half[r.fill].state = "filling"
    THEN [r EXCEPT !.half[r.fill].state = "full"]
    ELSE r
=============================================================================
