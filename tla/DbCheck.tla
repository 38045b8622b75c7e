------------------------------ MODULE DbCheck ------------------------------
(***************************************************************************)
(* The check of the tables at the start of the database (src/db/db_check): *)
(* tables that are missing are created, tables whose definition has        *)
(* another version than the one recorded in db_version get the fields they *)
(* lack and lose those they have no more.  The versions are written by a   *)
(* synchronisation process (DbSync), so a crash may lose them, and a write *)
(* that fails is only logged.  Rows are inserted by position, so the order *)
(* of the columns is the order of the fields.                              *)
(***************************************************************************)
EXTENDS Naturals, Sequences, SequencesExt, FiniteSets

CONSTANTS Version,       \* the table db_version
          Tables,        \* the other tables
          Definitions,   \* what programs may define: [Tables -> fields]
          MaxStarts      \* bound of the model

All == Tables \union {Version}
Own == <<"TabName", "Version">>

VARIABLES columns,   \* of the tables in the database, <<>> when there is none
          version,   \* the rows of db_version: the fields a version stands for
          multi,     \* mode = MODE_MULTI_INSERT of this program
          def,       \* its definitions
          phase,     \* "off", "list", "select", "check", "running"
          tabs,      \* the versions the check knows of, <<>> for a table
          todo,      \* tables it has still to check
          adding,    \* the table whose fields were added and not yet dropped
          writes,    \* versions on their way to db_version
          cached,    \* version rows kept for a multi-insert
          starts,
          moved,     \* a program wanted the columns in another order (history)
          unsaid     \* tables that were changed by a start which was cut off
                     \* before it wrote their version, or could not (history)

vars == <<columns, version, multi, def, phase, tabs, todo, adding, writes, cached, starts, moved, unsaid>>

program == <<multi, def, starts, moved>>
CutOff == unsaid \union adding \union {writes[i].t : i \in {j \in DOMAIN writes : writes[j].op = "update"}}

Nothing == [t \in {} |-> <<>>]
Restricted(s, set) == SelectSeq(s, LAMBDA x : x \in set)
Common(a, b) == ToSet(a) \intersect ToSet(b)

Init ==
  /\ columns = [t \in All |-> <<>>] /\ version = Nothing
  /\ multi \in BOOLEAN /\ def = Nothing
  /\ phase = "off" /\ tabs = Nothing /\ todo = {} /\ adding = {}
  /\ writes = <<>> /\ cached = <<>> /\ starts = 0 /\ moved = FALSE
  /\ unsaid = {}

----------------------------------------------------------------------------
(* Start with the definitions of a program; the new program may differ.    *)
Start(d) ==
  /\ phase = "off" /\ starts < MaxStarts
  /\ phase' = "list" /\ starts' = starts + 1
  /\ multi' \in BOOLEAN
  /\ def' = [t \in All |-> IF t = Version THEN Own ELSE d[t]]
  /\ moved' = (moved \/ \E t \in Tables : LET c == Common(d[t], columns[t])
                                         IN  Restricted(d[t], c) # Restricted(columns[t], c))
  /\ UNCHANGED <<columns, version, tabs, todo, adding, writes, cached, unsaid>>

(* What createTable adds: the table, and a row of db_version.              *)
Created(t) ==
  /\ columns' = [columns EXCEPT ![t] = IF @ = <<>> THEN def[t] ELSE @]
  /\ writes' = Append(writes, [op |-> "insert", t |-> t, v |-> def[t]])

(* show tables; db_version comes first. *)
List ==
  /\ phase = "list" /\ phase' = "select"
  /\ IF columns[Version] = <<>> THEN Created(Version) ELSE UNCHANGED <<columns, writes>>
  /\ tabs' = [t \in {x \in All : columns'[x] # <<>>} |->
                IF columns[t] = <<>> THEN def[t] ELSE <<>>]
  /\ UNCHANGED <<program, version, todo, adding, cached, unsaid>>

(* SyncSelect waits until the process has done what was cast to it before. *)
(* A select that fails or times out gives no rows, so each table is        *)
(* checked.                                                                *)
SelectVersions ==
  /\ phase = "select" /\ phase' = "check"
  /\ \/ /\ writes = <<>>
        /\ tabs' = [t \in DOMAIN tabs \union DOMAIN version |->
                      IF t \in DOMAIN version THEN version[t] ELSE tabs[t]]
     \/ UNCHANGED tabs
  /\ todo' = All
  /\ UNCHANGED <<columns, version, program, adding, writes, cached, unsaid>>

CreateTable(t) ==
  /\ phase = "check" /\ t \in todo /\ adding = {} /\ t \notin DOMAIN tabs
  /\ Created(t) /\ todo' = todo \ {t}
  /\ UNCHANGED <<version, program, phase, tabs, adding, cached, unsaid>>

(* tabMd5: the version is made of the names of the fields. *)
SameVersion(t) ==
  /\ phase = "check" /\ t \in todo /\ adding = {} /\ t \in DOMAIN tabs
  /\ tabs[t] = def[t] /\ todo' = todo \ {t}
  /\ UNCHANGED <<columns, version, program, phase, tabs, adding, writes, cached, unsaid>>

(* The new fields, each placed after the one before it. *)
RECURSIVE WithFields(_, _)
WithFields(cols, fields) ==
  IF fields = <<>> THEN cols
  ELSE LET before == WithFields(cols, Front(fields))
           f == Last(fields)
           at == CHOOSE i \in DOMAIN before : before[i] = fields[Len(fields) - 1]
       IN  IF f \in ToSet(before) THEN before ELSE InsertAt(before, at + 1, f)

(* checkField: one statement adds, a second one drops, then the version is *)
(* updated.  A first field that is new has no field before it: panic.      *)
AddFields(t) ==
  /\ phase = "check" /\ t \in todo /\ adding = {} /\ t \in DOMAIN tabs /\ tabs[t] # def[t]
  /\ IF def[t][1] \in ToSet(columns[t])
       THEN /\ columns' = [columns EXCEPT ![t] = WithFields(@, def[t])]
            /\ adding' = {t} /\ UNCHANGED <<phase, todo, writes, cached, unsaid>>
       ELSE /\ phase' = "off" /\ todo' = {} /\ writes' = <<>> /\ cached' = <<>>
            /\ unsaid' = CutOff
            /\ UNCHANGED <<columns, adding>>
  /\ UNCHANGED <<version, program, tabs>>

\* Mutant: fields that are no more defined stay.
DropFieldsNever(t) ==
  /\ adding = {t} /\ adding' = {} /\ todo' = todo \ {t}
  /\ writes' = Append(writes, [op |-> "update", t |-> t, v |-> def[t]])
  /\ UNCHANGED <<columns, version, program, phase, tabs, cached, unsaid>>

DropFields(t) ==
  /\ adding = {t} /\ adding' = {} /\ todo' = todo \ {t}
  /\ columns' = [columns EXCEPT ![t] = Restricted(@, ToSet(def[t]))]
  /\ writes' = Append(writes, [op |-> "update", t |-> t, v |-> def[t]])
  /\ UNCHANGED <<version, program, phase, tabs, cached, unsaid>>

Started ==
  /\ phase = "check" /\ todo = {} /\ phase' = "running"
  /\ UNCHANGED <<columns, version, program, tabs, todo, adding, writes, cached, unsaid>>

----------------------------------------------------------------------------
(* The synchronisation process does a write of a version; in the mode of   *)
(* multi-inserts it keeps the rows, and a batch of two is refused.  The    *)
(* error of a statement that fails is logged, and nothing else is done.    *)
Set(t, v) == [x \in DOMAIN version \union {t} |-> IF x = t THEN v ELSE version[x]]

SyncWrite ==
  LET w == writes[1]
  IN  /\ writes # <<>> /\ writes' = Tail(writes)
      /\ \/ /\ w.op = "update"
            /\ version' = IF w.t \in DOMAIN version THEN Set(w.t, w.v) ELSE version
            /\ unsaid' = unsaid \ {w.t} /\ UNCHANGED cached
         \/ /\ w.op = "insert" /\ ~multi /\ UNCHANGED <<cached, unsaid>>
            /\ version' = IF w.t \notin DOMAIN version THEN Set(w.t, w.v) ELSE version
         \/ /\ w.op = "insert" /\ multi /\ UNCHANGED <<version, unsaid>>
            /\ cached' = Append(cached, w)
      /\ UNCHANGED <<columns, program, phase, tabs, todo, adding>>

SyncWriteFails ==
  LET w == writes[1]
  IN  /\ writes # <<>> /\ writes' = Tail(writes)
      /\ w.op = "update" \/ ~multi
      /\ unsaid' = IF w.op = "update" THEN unsaid \union {w.t} ELSE unsaid
      /\ UNCHANGED <<columns, version, cached, program, phase, tabs, todo, adding>>

MultiInsert ==
  /\ cached # <<>> /\ cached' = <<>>
  /\ \/ /\ Len(cached) = 1 /\ cached[1].t \notin DOMAIN version
        /\ version' = Set(cached[1].t, cached[1].v)
     \/ UNCHANGED version
  /\ UNCHANGED <<columns, program, phase, tabs, todo, adding, writes, unsaid>>

(* The program ends or crashes: what was not written is lost. *)
Crash ==
  /\ phase # "off" /\ phase' = "off"
  /\ tabs' = Nothing /\ todo' = {} /\ adding' = {} /\ writes' = <<>> /\ cached' = <<>>
  /\ unsaid' = CutOff
  /\ UNCHANGED <<columns, version, program>>

Next ==
  \/ \E d \in Definitions : Start(d)
  \/ List \/ SelectVersions \/ Started
  \/ \E t \in All : CreateTable(t) \/ SameVersion(t) \/ AddFields(t) \/ DropFields(t)
  \/ SyncWrite \/ SyncWriteFails \/ MultiInsert \/ Crash

Spec == Init /\ [][Next]_vars

----------------------------------------------------------------------------
(***************************************************************************)
(* A program that has started finds the columns of its tables as it        *)
(* defines them, whatever starts were cut off before it.  Not so when the  *)
(* version recorded for a table is the one the program defines, but a      *)
(* start of another program changed the table and its own version was not  *)
(* recorded, because the start was cut off or the write of it failed; and  *)
(* fields that only change their order keep the old one.                   *)
(***************************************************************************)
SchemaRight ==
  phase = "running" =>
    \A t \in All :
      \/ ToSet(columns[t]) = ToSet(def[t]) /\ (moved \/ columns[t] = def[t])
      \/ t \in unsaid /\ t \in DOMAIN tabs /\ tabs[t] = def[t]
=============================================================================
