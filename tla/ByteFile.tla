------------------------------ MODULE ByteFile ------------------------------
(***************************************************************************)
(* What a file promises its user, with no storage in sight: a sequence of  *)
(* bytes that can be resized and overwritten.  A call either does all it   *)
(* was asked or leaves the bytes alone and says why.  FileResize is shown  *)
(* to implement this.  A byte is zero, or the stamp of the position it was *)
(* written for: a byte that ends up anywhere else is told apart.           *)
(***************************************************************************)
EXTENDS Integers, Sequences

CONSTANTS
  FileSizes,     \* sizes Resize is called with
  WriteExtents   \* [pos, n] of the writes

VARIABLES contents, outcome

Zero == 0
Stamp(position) == position
Outcomes == {"ok", "no_space", "too_large"}

\* The first n bytes, zeros in the place of those the file did not have.
ResizedTo(bytes, n) == [k \in 1..n |-> IF k <= Len(bytes) THEN bytes[k] ELSE Zero]

Overwritten(bytes, write) ==
  [k \in DOMAIN bytes |->
     IF k > write.pos /\ k <= write.pos + write.n THEN Stamp(k) ELSE bytes[k]]

Init ==
  /\ contents = <<>>
  /\ outcome = "ok"

Resize(size) ==
  /\ contents' = ResizedTo(contents, size)
  /\ outcome' = "ok"

\* A write may start anywhere up to the end and extends the file as needed.
Write(write) ==
  LET end == write.pos + write.n
  IN  /\ write.pos <= Len(contents)
      /\ contents' = Overwritten(IF end > Len(contents) THEN ResizedTo(contents, end)
                                                        ELSE contents, write)
      /\ outcome' = "ok"

Refuse ==
  /\ UNCHANGED contents
  /\ outcome' \in Outcomes \ {"ok"}

Next ==
  \/ \E size \in FileSizes : Resize(size)
  \/ \E write \in WriteExtents : Write(write)
  \/ Refuse

Spec == Init /\ [][Next]_<<contents, outcome>>
=============================================================================
