------------------------------ MODULE WordBuffer ------------------------------
(***************************************************************************)
(* What the buffer of input words promises to the image: the words come    *)
(* out in the order in which they were put in.  The image's sources say of *)
(* primInputWord: "Return the next word from the input buffer and remove   *)
(* the word from the buffer."                                              *)
(*                                                                         *)
(* LossySpec is what the buffer keeps of that promise: sometimes, when a   *)
(* word is put in, another one is dropped and a cleared word comes last in *)
(* its stead.  The number of words is right and the others keep their      *)
(* order.                                                                  *)
(***************************************************************************)
EXTENDS Naturals, Sequences

CONSTANTS
  Word,
  Cleared            \* the word 0

VARIABLE buffer

Without(s, k) == SubSeq(s, 1, k - 1) \o SubSeq(s, k + 1, Len(s))

Init == buffer = <<>>

Put(w) == buffer' = Append(buffer, w)

PutLosing(k, w) ==
  /\ k \in 1 .. Len(buffer)
  /\ buffer' = Append(Append(Without(buffer, k), Cleared), w)

Get ==
  /\ buffer # <<>>
  /\ buffer' = Tail(buffer)

Fifo == Get \/ \E w \in Word : Put(w)
Lossy == Fifo \/ \E w \in Word : \E k \in 1 .. Len(buffer) : PutLosing(k, w)

LossySpec == Init /\ [][Lossy]_buffer
=============================================================================
