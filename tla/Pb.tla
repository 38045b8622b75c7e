------------------------------- MODULE Pb -------------------------------
(***************************************************************************)
(* The message coder (src/gate/pb).  A message is a pointer to a struct;   *)
(* the coder walks the definition of its type and writes the number of the *)
(* message and every field, big endian, with 2-byte sizes in front of what *)
(* has no fixed size.                                                      *)
(*                                                                         *)
(* A type is a record whose k is its kind:                                 *)
(*   "bool"; "int" with its width w in bytes; "float", its bits in w       *)
(*   bytes; "uint16"; "str", which is a string or a []byte; "slice" of a   *)
(*   type; "map" from key to of; "struct", a pointer to a struct with      *)
(*   fields; "value", a struct that is not behind a pointer; "pid", a      *)
(*   pointer to a Pid; "other", every kind the coder does not know.        *)
(* The value of a pointer is <<>> for nil and <<v>> for a pointer to v, of *)
(* a struct the sequence of its fields, of a map a function.  A nil slice  *)
(* or map is the empty one: the coder writes both alike.                   *)
(* A byte has Base values instead of 256, so that a size or an integer can *)
(* pass its width.  Panicked stands for the panic of the encoder.          *)
(***************************************************************************)
EXTENDS Integers, Sequences, SequencesExt, FiniteSets

CONSTANTS Base,    \* the values of a byte: 256 in the program
          Self,    \* the name of this node, a string of bytes
          Alive    \* the ids of the processes of this node that are alive

Panicked == <<-1>>
DeadPid == [id |-> 0, node |-> Self]

----------------------------------------------------------------------------
(***************************************************************************)
(* Which types Parse accepts.                                              *)
(***************************************************************************)
RECURSIVE FieldOk(_), InnerOk(_)

(* makeDef, checkPanic and checkStruct for a field: every kind of the      *)
(* switch, and a struct only behind a pointer.                             *)
FieldOk(t) == t.k \notin {"value", "other"} /\ InnerOk(t)

(* checkPanic, checkStruct and checkMapKey for what is inside a slice or a *)
(* map: a kind the coder does not know is refused in a field only, and a   *)
(* Pid is a struct whose channels are refused.                             *)
InnerOk(t) ==
  CASE t.k = "slice" -> t.of.k \notin {"value", "pid"} /\ InnerOk(t.of)
    [] t.k = "map" -> /\ t.key.k \in {"int", "uint16", "str", "value"}
                      /\ InnerOk(t.key)
                      /\ t.of.k \notin {"value", "pid"} /\ InnerOk(t.of)
    [] t.k \in {"struct", "value"} ->
         \A n \in DOMAIN t.fields : FieldOk(t.fields[n])
    [] OTHER -> TRUE

----------------------------------------------------------------------------
(***************************************************************************)
(* Encoding: what is appended to the buffer.                               *)
(***************************************************************************)
(* v in w bytes: uint8(v >> 8k) for every k below w, the highest first.    *)
BigEndian(w, v) == [n \in 1 .. w |-> (v \div Base ^ (w - n)) % Base]

(* encodeString, encodeByteArray, and the size that encodeSlice and        *)
(* encodeMap write over the zero they left in front of their content.      *)
Sized(s) == BigEndian(2, Len(s)) \o s

RECURSIVE Encode(_, _), EncodeAll(_, _), EncodeEntry(_, _)

(* encodeDef: the fields in their order. *)
EncodeAll(ts, vs) == FlattenSeq([n \in DOMAIN ts |-> Encode(ts[n], vs[n])])

(* The value of an entry of a map.  MapRange yields a pointer-shaped value *)
(* itself where the encoders of structs and maps expect its address, and   *)
(* they read its first word as the pointer: nothing is there when that     *)
(* word is zero, the read faults when it is not.  (The first word of the   *)
(* structs a run uses is their only field.)                                *)
EncodeEntry(t, v) ==
  CASE t.k = "struct" -> IF v # <<>> /\ v[1] = <<0>> THEN <<>> ELSE Panicked
    [] t.k = "map" -> IF v = <<>> THEN Sized(<<>>) ELSE Panicked
    [] OTHER -> Encode(t, v)

(* Pid.ToBytes: the id and the name of the node. *)
PidBytes(pid) == BigEndian(8, pid.id) \o Sized(pid.node)

Flagged(s) == IF s = <<>> THEN <<0>> ELSE <<1>> \o s

(* The functions of enMap and of makeDef; outside a field (inside a slice) *)
(* a nil struct writes nothing at all.                                     *)
Encode(t, v) ==
  CASE t.k = "bool" -> <<IF v THEN 1 ELSE 0>>
    [] t.k \in {"int", "float"} -> BigEndian(t.w, v)
    [] t.k = "uint16" -> BigEndian(2, v)
    [] t.k = "str" -> Sized(v)
    [] t.k = "slice" ->
         Sized(FlattenSeq([n \in DOMAIN v |->
           IF t.of.k = "struct"
             THEN IF v[n] = <<>> THEN <<>> ELSE EncodeAll(t.of.fields, v[n][1])
             ELSE Encode(t.of, v[n])]))
    [] t.k = "map" ->
         LET keys == SetToSeq(DOMAIN v)
         IN  Sized(FlattenSeq([n \in DOMAIN keys |->
               Encode(t.key, keys[n]) \o EncodeEntry(t.of, v[keys[n]])]))
    [] t.k = "value" -> EncodeAll(t.fields, v)
    [] t.k = "struct" ->
         Flagged(IF v = <<>> THEN <<>> ELSE EncodeAll(t.fields, v[1]))
    [] t.k = "pid" -> Flagged(IF v = <<>> THEN <<>> ELSE PidBytes(v[1]))
    [] OTHER -> Panicked

(* Coder.Encode: the size in head bytes, which counts what follows it, the *)
(* number of the message, and its fields.                                  *)
EncodeMessage(t, id, v, head) ==
  LET body == BigEndian(2, id) \o EncodeAll(t.fields, v)
  IN  BigEndian(head, Len(body)) \o body

----------------------------------------------------------------------------
(***************************************************************************)
(* Decoding from index i: the next index, the value, and whether all reads *)
(* were inside the buffer (a read outside it panics).                      *)
(***************************************************************************)
Got(i, v, ok) == [i |-> i, v |-> v, ok |-> ok]

Unsigned(b, i, w) ==
  IF i + w - 1 <= Len(b)
    THEN Got(i + w, FoldLeft(LAMBDA a, c : Base * a + c, 0, SubSeq(b, i, i + w - 1)), TRUE)
    ELSE Got(i + w, 0, FALSE)

\* Mutant: the conversion to intN is forgotten.
SignedNot(w, n) == n

(* The conversion to intN of what the bytes say. *)
Signed(w, n) == IF 2 * n >= Base ^ w THEN n - Base ^ w ELSE n

(* decodeUint16 reads the byte at index twice. *)
Twice(b, i) ==
  IF i <= Len(b) THEN Got(i + 2, (Base + 1) * b[i], TRUE) ELSE Got(i + 2, 0, FALSE)

Text(b, i) ==
  LET size == Unsigned(b, i, 2)
      end == size.i + size.v
  IN  IF size.ok /\ end - 1 <= Len(b)
        THEN Got(end, SubSeq(b, size.i, end - 1), TRUE)
        ELSE Got(end, <<>>, FALSE)

(* DecodePid: a local id that is not alive becomes deadPid. *)
PidAt(b, i) ==
  LET id == Unsigned(b, i, 8)
      node == Text(b, id.i)
  IN  Got(node.i,
          <<IF node.v = Self /\ id.v \notin Alive THEN DeadPid
            ELSE [id |-> id.v, node |-> node.v]>>,
          id.ok /\ node.ok)

RECURSIVE Decode(_, _, _), DecodeAll(_, _, _), DecodeItems(_, _, _, _)

(* decodeStructDef. *)
DecodeAll(ts, b, i) ==
  IF ts = <<>> THEN Got(i, <<>>, TRUE)
  ELSE LET first == Decode(Head(ts), b, i)
           others == DecodeAll(Tail(ts), b, first.i)
       IN  Got(others.i, <<first.v>> \o others.v, first.ok /\ others.ok)

(* The loops of decodeSlice and decodeMap: rows of the types ts until end. *)
DecodeItems(ts, b, i, end) ==
  IF i >= end THEN Got(end, <<>>, TRUE)
  ELSE LET row == DecodeAll(ts, b, i)
           others == DecodeItems(ts, b, row.i, end)
       IN  IF row.ok THEN Got(end, <<row.v>> \o others.v, others.ok)
           ELSE Got(end, <<>>, FALSE)

(* What is inside a slice or a map has no flag in front of a struct.       *)
Unflagged(t) == IF t.k = "struct" THEN [k |-> "value", fields |-> t.fields] ELSE t
Behind(t, v) == IF t.k = "struct" THEN <<v>> ELSE v

(* getDecodeFunc does not know floats: a slice or a map of them panics. *)
Decode(t, b, i) ==
  CASE t.k = "bool" -> LET c == Unsigned(b, i, 1) IN Got(c.i, c.v = 1, c.ok)
    [] t.k = "int" ->
         LET n == Unsigned(b, i, t.w) IN Got(n.i, Signed(t.w, n.v), n.ok)
    [] t.k = "float" -> Unsigned(b, i, t.w)
    [] t.k = "uint16" -> Twice(b, i)
    [] t.k = "str" -> Text(b, i)
    [] t.k = "slice" ->
         LET size == Unsigned(b, i, 2)
             rows == DecodeItems(<<Unflagged(t.of)>>, b, size.i, size.i + size.v)
         IN  Got(rows.i, [n \in DOMAIN rows.v |-> Behind(t.of, rows.v[n][1])],
                 size.ok /\ rows.ok /\ (size.v = 0 \/ t.of.k # "float"))
    [] t.k = "map" ->
         LET size == Unsigned(b, i, 2)
             rows == DecodeItems(<<t.key, Unflagged(t.of)>>, b, size.i, size.i + size.v)
             last(key) == CHOOSE n \in DOMAIN rows.v :
                            /\ rows.v[n][1] = key
                            /\ \A m \in DOMAIN rows.v : rows.v[m][1] = key => m <= n
         IN  Got(rows.i,
                 [key \in {rows.v[n][1] : n \in DOMAIN rows.v} |->
                    Behind(t.of, rows.v[last(key)][2])],
                 size.ok /\ rows.ok /\ (size.v = 0 \/ t.of.k # "float"))
    [] t.k = "value" -> DecodeAll(t.fields, b, i)
    [] t.k \in {"struct", "pid"} ->
         LET flag == Unsigned(b, i, 1)
             target == IF t.k = "pid" THEN PidAt(b, flag.i)
                       ELSE LET s == DecodeAll(t.fields, b, flag.i)
                            IN  Got(s.i, <<s.v>>, s.ok)
         IN  IF flag.v = 1 THEN target ELSE Got(flag.i, <<>>, flag.ok)
    [] OTHER -> Got(i, <<>>, FALSE)

(* Coder.Decode of a message without its head: the number, then the struct *)
(* of the type of that number.                                             *)
DecodeMessage(defs, b) ==
  LET id == Unsigned(b, 1, 2)
      v == DecodeAll(defs[id.v].fields, b, id.i)
  IN  [id |-> id.v, v |-> v.v, ok |-> id.ok /\ v.ok]
=============================================================================
