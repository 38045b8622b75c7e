---------------------------- MODULE BufWriter ----------------------------
(***************************************************************************)
(* The buffered writer of a response (src/bpool/writer.go): what is        *)
(* written to it goes to the connection in chunks, a write that does not   *)
(* fit goes there directly, and the first error of the connection sticks.  *)
(* The buffer is a slice of Size bytes over an array of Capacity: bpool    *)
(* rounds the array up, Available counts it, and copy stops at the slice.  *)
(***************************************************************************)
EXTENDS Integers, Sequences

CONSTANTS Size, Capacity,
          Lengths,      \* the lengths of the writes
          MaxWritten    \* bound of the model: bytes handed to the writer

VARIABLES buffered,     \* buf.b[0:n]
          err,          \* Writer.err is set
          sent,         \* what the connection took
          taken,        \* the bytes Write said it took, of all calls
          short,        \* a Write took less than it was given, without an error
          writing,      \* a call of Write is in its loop
          rest          \* p of that call: what it has not taken yet

vars == <<buffered, err, sent, taken, short, writing, rest>>

(* The bytes are numbered in the order they are written. *)
Bytes(from, n) == [k \in 1 .. n |-> from + k]
First(s, n) == SubSeq(s, 1, n)
From(s, n) == SubSeq(s, n + 1, Len(s))
Least(a, b) == IF a < b THEN a ELSE b

(* NewWriterSize. *)
Init ==
  /\ buffered = <<>> /\ err = FALSE /\ sent = <<>> /\ taken = <<>> /\ short = FALSE
  /\ writing = FALSE /\ rest = <<>>

Available == Capacity - Len(buffered)

(* What copy puts behind the buffered bytes: the slice ends at Size. *)
Room == Least(Len(rest), Size - Len(buffered))

(* The call has taken n more bytes, and p is what is behind them. *)
Take(n) == taken' = taken \o First(rest, n) /\ rest' = From(rest, n)

\* Mutant: the buffer is emptied after a short write, too.
FlushedAll(s, k) == sent' = sent \o First(s, k) /\ buffered' = <<>> /\ err' \in {TRUE, k < Len(s)}

(* Flush of the bytes s: the connection's Write takes k of them, and what   *)
(* it did not take moves to the front.  Write may fail, and does when it    *)
(* does not take all.                                                       *)
Flushed(s, k) == sent' = sent \o First(s, k) /\ buffered' = From(s, k) /\ err' \in {TRUE, k < Len(s)}

Write(n) ==
  /\ ~writing /\ Len(taken) + n <= MaxWritten
  /\ writing' = TRUE /\ rest' = Bytes(Len(taken), n)
  /\ UNCHANGED <<buffered, err, sent, taken, short>>

(* The loop: what does not fit goes to the connection when nothing is       *)
(* buffered, and else what fits does with what is buffered.                 *)
Direct(k) ==
  /\ writing /\ ~err /\ Len(rest) > Available /\ buffered = <<>>
  /\ sent' = sent \o First(rest, k) /\ err' \in {TRUE, k < Len(rest)}
  /\ Take(k)
  /\ UNCHANGED <<buffered, short, writing>>

Fill(k) ==
  /\ writing /\ ~err /\ Len(rest) > Available /\ buffered # <<>>
  /\ Take(Room)
  /\ Flushed(buffered \o First(rest, Room), k)
  /\ UNCHANGED <<short, writing>>

(* Behind the loop. *)
Fail ==
  /\ writing /\ err
  /\ writing' = FALSE
  /\ UNCHANGED <<buffered, err, sent, taken, short, rest>>

Fits ==
  /\ writing /\ ~err /\ Len(rest) <= Available
  /\ buffered' = buffered \o First(rest, Room)
  /\ Take(Room)
  /\ short' = (short \/ Room < Len(rest))
  /\ writing' = FALSE
  /\ UNCHANGED <<err, sent>>

Flush(k) ==
  /\ ~writing /\ ~err /\ buffered # <<>>
  /\ Flushed(buffered, k)
  /\ UNCHANGED <<taken, short, writing, rest>>

Next ==
  \/ \E n \in Lengths : Write(n)
  \/ \E k \in 0 .. Len(rest) : Direct(k)
  \/ \E k \in 0 .. (Len(buffered) + Room) : Fill(k)
  \/ Fail \/ Fits
  \/ \E k \in 0 .. Len(buffered) : Flush(k)

Spec == Init /\ [][Next]_vars

----------------------------------------------------------------------------
(***************************************************************************)
(* What the connection got and what is still buffered are, in order, the   *)
(* bytes Write said it took; and it never takes less than it was given     *)
(* without an error (when the slice is the whole array, as it is for the   *)
(* size httpd uses).                                                       *)
(***************************************************************************)
WriterFaithful == sent \o buffered = taken /\ (Size = Capacity => ~short)
=============================================================================
