------------------------------- MODULE DbSync -------------------------------
(***************************************************************************)
(* The processes that write to the database (src/db/db_sync.go,            *)
(* db_sync_worker.go, db_mod.go).  A key belongs to one process of the     *)
(* pool, which takes its requests in order.  In the mode MODE_MULTI_INSERT *)
(* the process keeps the rows of inserts; every now and then it hands them *)
(* to a worker, which inserts them in slices and gives back those that met *)
(* a broken connection.  The process goes on while its worker inserts.     *)
(*                                                                         *)
(* One table; a row is a key and the number of the write it comes from.    *)
(* The program runs on: what waits when it ends is lost.                   *)
(***************************************************************************)
EXTENDS Naturals, Sequences, SequencesExt, FiniteSets

CONSTANTS Keys, SyncNum,
          Slice,        \* div_size, 300 in the code
          MaxWrites, MaxFaults     \* bounds of the model

Procs == 0 .. SyncNum - 1

VARIABLES multi,     \* mode = MODE_MULTI_INSERT
          mail,      \* requests to each process
          cache,     \* rows it keeps
          batches,   \* what its worker has to insert
          fail,      \* rows of the first batch that met a broken connection
          table,     \* [Keys -> the number of the row, 0 for none]
          up,        \* the connection to the database works
          faults,
          log,       \* all writes that were made, by number
          done,      \* writes that the database did (history)
          refused,   \* writes that it did not do (history)
          read       \* what this step answered to a select: key, row, writes
                     \* made before it (history)

vars == <<multi, mail, cache, batches, fail, table, up, faults, log, done, refused, read>>

(* indexKey % syncNum, when callers use the key as the index. *)
ProcOf(k) == k % SyncNum

Init ==
  /\ multi \in BOOLEAN
  /\ mail = [p \in Procs |-> <<>>] /\ cache = mail /\ batches = mail /\ fail = mail
  /\ table = [k \in Keys |-> 0] /\ up = TRUE /\ faults = 0
  /\ log = <<>> /\ done = {} /\ refused = {} /\ read = <<>>

----------------------------------------------------------------------------
(* SyncInsert, SyncUpdate, SyncDelete, SyncDeletePKey: casts. *)
Write(op, k) ==
  /\ Len(log) < MaxWrites
  /\ log' = Append(log, [op |-> op, key |-> k])
  /\ mail' = [mail EXCEPT ![ProcOf(k)] = Append(@, [op |-> op, key |-> k, n |-> Len(log) + 1])]
  /\ read' = <<>>
  /\ UNCHANGED <<multi, cache, batches, fail, table, up, faults, done, refused>>

\* Mutant: a select uses another index than the writes of its key.
SelectElsewhere(k) ==
  /\ ~\E p \in Procs : \E i \in DOMAIN mail[p] : mail[p][i].op = "select"
  /\ mail' = [mail EXCEPT ![ProcOf(k + 1)] = Append(@, [op |-> "select", key |-> k, n |-> Len(log)])]
  /\ read' = <<>>
  /\ UNCHANGED <<multi, cache, batches, fail, table, up, faults, log, done, refused>>

(* SyncSelect, SyncSelectRow: a call. *)
Select(k) ==
  /\ ~\E p \in Procs : \E i \in DOMAIN mail[p] : mail[p][i].op = "select"
  /\ mail' = [mail EXCEPT ![ProcOf(k)] = Append(@, [op |-> "select", key |-> k, n |-> Len(log)])]
  /\ read' = <<>>
  /\ UNCHANGED <<multi, cache, batches, fail, table, up, faults, log, done, refused>>

(* The statements: an insert of a row that is there is refused, an update  *)
(* of one that is not changes nothing.                                     *)
Does(op, k) == CASE op = "insert" -> table[k] = 0 [] op = "update" -> table[k] # 0 [] OTHER -> TRUE
Row(op, n) == IF op = "delete" THEN 0 ELSE n

Exec(m) ==
  IF up /\ Does(m.op, m.key)
    THEN table' = [table EXCEPT ![m.key] = Row(m.op, m.n)] /\ done' = done \union {m.n} /\ UNCHANGED refused
    ELSE refused' = refused \union {m.n} /\ UNCHANGED <<table, done>>

(* HandleCast of the process.  Errors are logged, nothing is tried again.  *)
Handle(p) ==
  LET m == mail[p][1]
  IN  /\ mail[p] # <<>> /\ mail' = [mail EXCEPT ![p] = Tail(@)]
      /\ read' = IF m.op = "select" /\ up
                   THEN <<[key |-> m.key, row |-> table[m.key], upto |-> m.n]>> ELSE <<>>
      /\ CASE m.op = "select" -> UNCHANGED <<cache, table, done, refused>>
           [] m.op = "insert" /\ multi ->
               cache' = [cache EXCEPT ![p] = Append(@, m)] /\ UNCHANGED <<table, done, refused>>
           [] m.op = "rows" ->
               cache' = [cache EXCEPT ![p] = @ \o m.rows] /\ UNCHANGED <<table, done, refused>>
           [] OTHER -> Exec(m) /\ UNCHANGED cache
      /\ UNCHANGED <<multi, batches, fail, up, faults, log>>

(* kernel.Loop: multiInsert of the process. *)
Flush(p) ==
  /\ multi /\ cache[p] # <<>>
  /\ batches' = [batches EXCEPT ![p] = Append(@, cache[p])] /\ cache' = [cache EXCEPT ![p] = <<>>]
  /\ read' = <<>>
  /\ UNCHANGED <<multi, mail, fail, table, up, faults, log, done, refused>>

(* multiInsert of the worker, one statement: the next slice of its batch.  *)
(* ModMultiInsert puts the values of all rows between one pair of          *)
(* brackets, so the database refuses every slice of two rows.  What meets  *)
(* a broken connection is kept, unless the error is not ErrBadConn.        *)
InsertSlice(p) ==
  LET rows == batches[p][1]
      size == IF Len(rows) < Slice THEN Len(rows) ELSE Slice
      slice == SubSeq(rows, 1, size)
      drop == refused' = refused \union {slice[i].n : i \in DOMAIN slice} /\ UNCHANGED <<table, done, fail>>
  IN  /\ batches[p] # <<>> /\ rows # <<>>
      /\ batches' = [batches EXCEPT ![p] = <<SubSeq(rows, size + 1, Len(rows))>> \o Tail(@)]
      /\ IF up
           THEN IF size = 1 /\ table[slice[1].key] = 0
                  THEN /\ table' = [table EXCEPT ![slice[1].key] = slice[1].n]
                       /\ done' = done \union {slice[1].n} /\ UNCHANGED <<refused, fail>>
                  ELSE drop
           ELSE \/ fail' = [fail EXCEPT ![p] = @ \o slice] /\ UNCHANGED <<table, done, refused>>
                \/ drop
      /\ read' = <<>>
      /\ UNCHANGED <<multi, mail, cache, up, faults, log>>

\* Mutant: what met a broken connection is dropped with its batch.
GiveBackNothing(p) ==
  /\ batches[p] # <<>> /\ batches[p][1] = <<>> /\ batches' = [batches EXCEPT ![p] = Tail(@)]
  /\ fail' = [fail EXCEPT ![p] = <<>>] /\ read' = <<>>
  /\ UNCHANGED <<multi, mail, cache, table, up, faults, log, done, refused>>

(* multiInsert of the worker, after the last slice. *)
GiveBack(p) ==
  /\ batches[p] # <<>> /\ batches[p][1] = <<>> /\ batches' = [batches EXCEPT ![p] = Tail(@)]
  /\ mail' = IF fail[p] = <<>> THEN mail
              ELSE [mail EXCEPT ![p] = Append(@, [op |-> "rows", rows |-> fail[p]])]
  /\ fail' = [fail EXCEPT ![p] = <<>>] /\ read' = <<>>
  /\ UNCHANGED <<multi, cache, table, up, faults, log, done, refused>>

(* The connection is lost or comes back between two statements. *)
Connection ==
  /\ up => faults < MaxFaults
  /\ up' = ~up /\ faults' = IF up THEN faults + 1 ELSE faults
  /\ read' = <<>>
  /\ UNCHANGED <<multi, mail, cache, batches, fail, table, log, done, refused>>

Next ==
  \/ \E k \in Keys : Select(k) \/ \E op \in {"insert", "update", "delete"} : Write(op, k)
  \/ \E p \in Procs : Handle(p) \/ Flush(p) \/ InsertSlice(p) \/ GiveBack(p)
  \/ Connection

Spec == Init /\ [][Next]_vars

----------------------------------------------------------------------------
(* The rows that wait in a message, and the places where a row waits.      *)
RowsIn(m) ==
  CASE m.op = "rows" -> m.rows [] m.op = "insert" -> <<m>> [] OTHER -> <<>>
At(q, n) == {j \in DOMAIN q : q[j].n = n}
Places(p, n) ==
  (UNION {{<<"mail", i, j>> : j \in At(RowsIn(mail[p][i]), n)} : i \in DOMAIN mail[p]})
  \union (UNION {{<<"worker", i, j>> : j \in At(batches[p][i], n)} : i \in DOMAIN batches[p]})
  \union {<<"cache", 1, j>> : j \in At(cache[p], n)} \union {<<"fail", 1, j>> : j \in At(fail[p], n)}

(***************************************************************************)
(* Every insert that was made waits, or the database has done it, or has   *)
(* refused it, and only one of the three; it waits in one place: in a      *)
(* mailbox, in a cache, with a worker, or among what a worker gives back.  *)
(* No row is lost on its way through these, and none inserted twice.       *)
(***************************************************************************)
InsertedOnce ==
  \A n \in DOMAIN log : log[n].op = "insert" =>
    LET k == log[n].key
        w == Places(ProcOf(k), n)
    IN  /\ w # {} \/ n \in done \/ n \in refused
        /\ \A a, b \in w : a = b
        /\ w # {} => n \notin done /\ n \notin refused
        /\ n \in refused => n \notin done
        /\ table[k] = n => n \in done

(* The row of k after the first n writes, but for those that were refused. *)
RowAfter(k, n) ==
  LET mine == {i \in 1 .. n : log[i].key = k /\ i \notin refused}
      last == CHOOSE i \in mine : \A j \in mine : j <= i
  IN  IF mine = {} THEN 0 ELSE Row(log[last].op, last)

(***************************************************************************)
(* Without MODE_MULTI_INSERT a select sees every write that was made       *)
(* before it: both go through the one process of their key.                *)
(***************************************************************************)
ReadsWrites ==
  ~multi => \A i \in DOMAIN read : read[i].row = RowAfter(read[i].key, read[i].upto)
=============================================================================
