------------------------------- MODULE Transfer -------------------------------
(***************************************************************************)
(* Moving the store to another backend - copy, verify, erase - while       *)
(* programs go on writing to whichever store they are pointed at.  A row   *)
(* is a member of Items; a store says which version of each it has.  The   *)
(* destination's schema is there already (see Migrations).                 *)
(***************************************************************************)
EXTENDS Schema, Naturals

CONSTANTS
  Items,           \* rows that may come to be
  TableOf, Needs,  \* the table of a row, and the rows it refers to
  Leading,         \* the first column of a row's key, which rows of a composite key share
  Number,          \* the number of a row of a numbered table
  Inserted,        \* rows a program may add
  Edited,          \* rows a program may change
  There,           \* the backend moved to
  Batch,           \* BATCH
  MaxWrites,       \* bound: writes of programs
  MaxFaults,       \* bound: backend failures
  MaxMoves         \* bound: storage-migrate commands

\* Versions of a row: none, the first, one written at home, one written away.
Versions == {"none", "first", "home", "away"}

VARIABLES
  home, away,    \* Items -> Versions
  next,          \* the numbers PostgreSQL's sequences hand out next
  pointed,       \* the store PROMETHEUS_DATABASE_URL names
  at,            \* where the command is
  table, left,   \* the table it copies, and the rows of it still to write
  copied,        \* tables whose copy is over, one way or the other
  checked,       \* tables verified so far, each with the rows found at home
  good,          \* every table verified so far agreed
  writes, faults, moves,
  problems,      \* a problem of this command's copy was printed
  told,          \* history: a problem was printed
  quiet,         \* history: nothing failed and nobody wrote since the command began
  collided       \* history: a program was handed a number in use

vars == <<home, away, next, pointed, at, table, left, copied, checked, good,
          writes, faults, moves, problems, told, quiet, collided>>

Tables == {TableOf[x] : x \in Items}
Of(t) == {x \in Items : TableOf[x] = t}
Rows(store) == {x \in Items : store[x] # "none"}
In(store, t) == Rows(store) \cap Of(t)
Numbered == {t \in Tables : Declared[t].key = "number"}
Composite(t) == Declared[t].key = "composite"

\* What the deletion of a row does to a row that refers to it.
OnDelete(x, parent) ==
  (CHOOSE r \in Declared[TableOf[x]].refs : r.to = TableOf[parent]).on

-----------------------------------------------------------------------------
(* The destination's own rules. *)

\* Rows whose deletion follows from that of `gone`.
Orphans(store, gone) ==
  {x \in Rows(store) : \E p \in Needs[x] \cap gone : OnDelete(x, p) = "cascade"}

\* The longest chain of references is that of a dependency, a plan, an objective.
Closure(store, gone) ==
  LET once == gone \cup Orphans(store, gone)
      twice == once \cup Orphans(store, once)
  IN twice \cup Orphans(store, twice)

DeletionRefused(store, gone) ==
  LET all == Closure(store, gone) IN
  \E x \in Rows(store) \ all : Needs[x] \cap all # {}

Without(store, gone) == [x \in Items |-> IF x \in Closure(store, gone) THEN "none" ELSE store[x]]

\* delete(table).where(keys[0].in_(..)), and for a key of several columns the whole
\* table.
Replaced(t, batch) ==
  IF Composite(t) THEN In(away, t) ELSE {x \in In(away, t) : x \in DOMAIN batch}

-----------------------------------------------------------------------------
(* storage-migrate. *)

Start ==
  /\ at = "idle" /\ moves < MaxMoves
  /\ pointed = "home"
  /\ at' = "copy" /\ moves' = moves + 1
  /\ table' = "none" /\ left' = <<>> /\ copied' = {} /\ checked' = <<>> /\ good' = TRUE
  /\ problems' = FALSE /\ quiet' = TRUE
  /\ UNCHANGED <<home, away, next, pointed, writes, faults, told, collided>>

\* The rows of a table are read as of one moment.
OpenTable(t) ==
  /\ at = "copy" /\ table = "none" /\ t \notin copied
  /\ Parents(t) \cap Tables \subseteq copied
  /\ table' = t /\ left' = [x \in In(home, t) |-> home[x]]
  /\ UNCHANGED <<home, away, next, pointed, at, copied, checked, good, writes, faults, moves,
                 problems, told, quiet, collided>>

\* Rows come in the order they were first written: none before one it refers to.
Batches ==
  {b \in SUBSET DOMAIN left :
     /\ b # {} /\ Cardinality(b) <= Batch
     /\ (Cardinality(b) = Batch \/ b = DOMAIN left)
     /\ \A x \in b : (Needs[x] \cap DOMAIN left) \subseteq b}

CloseTable ==
  /\ table' = "none" /\ left' = <<>> /\ copied' = copied \cup {table}

\* One transaction at the destination: delete by key, insert.
CopyBatch(b) ==
  LET batch == [x \in b |-> left[x]]
      gone == Replaced(table, batch)
      rest == Without(away, gone)
      refused == \/ DeletionRefused(away, gone)
                 \/ \E x \in b : \E p \in Needs[x] : p \notin b /\ rest[p] = "none"
                 \/ \E x \in b : rest[x] # "none"
  IN
  /\ at = "copy" /\ table # "none" /\ b \in Batches
  /\ IF refused
     THEN CloseTable /\ problems' = TRUE /\ told' = TRUE /\ UNCHANGED away
     ELSE /\ away' = [x \in Items |-> IF x \in b THEN left[x] ELSE rest[x]]
          /\ left' = [x \in DOMAIN left \ b |-> left[x]]
          /\ UNCHANGED <<table, copied, problems, told>>
  /\ UNCHANGED <<home, next, pointed, at, checked, good, writes, faults, moves, quiet, collided>>

TableCopied ==
  /\ at = "copy" /\ table # "none" /\ left = <<>>
  /\ CloseTable
  /\ UNCHANGED <<home, away, next, pointed, at, checked, good, writes, faults, moves,
                 problems, told, quiet, collided>>

\* A backend failure ends the copy of one table, not the command.
CopyFails ==
  /\ at = "copy" /\ table # "none" /\ faults < MaxFaults
  /\ CloseTable /\ faults' = faults + 1 /\ problems' = TRUE /\ told' = TRUE
  /\ quiet' = FALSE
  /\ UNCHANGED <<home, away, next, pointed, at, checked, good, writes, moves, collided>>

HighestNumber(store, t) ==
  CHOOSE n \in 0..Cardinality(Items) :
    /\ \A x \in In(store, t) : Number[x] <= n
    /\ n = 0 \/ \E x \in In(store, t) : Number[x] = n

\* advance_identity, table by table.
AdvanceSequences ==
  next' = [t \in Numbered |->
             IF There = "postgresql" THEN HighestNumber(away, t) + 1 ELSE next[t]]

Advance ==
  /\ at = "copy" /\ copied = Tables
  /\ at' = "verify"
  /\ \/ AdvanceSequences /\ UNCHANGED <<faults, problems, told>>
     \/ /\ faults < MaxFaults /\ There = "postgresql"
        /\ faults' = faults + 1 /\ problems' = TRUE /\ told' = TRUE /\ UNCHANGED next
  /\ UNCHANGED <<home, away, pointed, table, left, copied, checked, good, writes, moves, quiet, collided>>

\* Fault: a table agrees when it holds as many rows.
SameCount(t, mine, theirs) == Cardinality(In(home, t)) = Cardinality(In(away, t))

\* Counts, then rows by the first column of their key: of those that share it, one of
\* either side is compared.
Agrees(t, mine, theirs) ==
  /\ Cardinality(In(home, t)) = Cardinality(In(away, t))
  /\ \A x \in In(home, t) :
       LET k == Leading[x] IN
       /\ k \in DOMAIN theirs
       /\ mine[k] = theirs[k] /\ home[mine[k]] = away[theirs[k]]

\* The row each first column stands for, the last that was read.
Read(store, t) ==
  LET keys == {Leading[x] : x \in In(store, t)} IN
  {f \in [keys -> In(store, t)] : \A k \in keys : Leading[f[k]] = k}

\* Table t joins those verified, with these rows of it found at home.
NowChecked(t, rows) ==
  [u \in DOMAIN checked \cup {t} |-> IF u = t THEN rows ELSE checked[u]]

Verify(t) ==
  /\ at = "verify" /\ t \in Tables \ DOMAIN checked
  /\ \E mine \in Read(home, t), theirs \in Read(away, t) :
       good' = (good /\ Agrees(t, mine, theirs))
  /\ checked' = NowChecked(t, [x \in In(home, t) |-> home[x]])
  /\ UNCHANGED <<home, away, next, pointed, at, table, left, copied, writes, faults, moves,
                 problems, told, quiet, collided>>

\* A table that cannot be read is a problem, and the move is not verified.
VerifyFails(t) ==
  /\ at = "verify" /\ t \in Tables \ DOMAIN checked /\ faults < MaxFaults
  /\ faults' = faults + 1 /\ good' = FALSE /\ told' = TRUE
  /\ checked' = NowChecked(t, <<>>)
  /\ UNCHANGED <<home, away, next, pointed, at, table, left, copied, writes, moves,
                 problems, quiet, collided>>

\* Only a verified move goes on to the question; problems of the copy were printed
\* and stop nothing.
Conclude ==
  /\ at = "verify" /\ DOMAIN checked = Tables
  /\ at' = IF good THEN "ask" ELSE "idle"
  /\ UNCHANGED <<home, away, next, pointed, table, left, copied, checked, good, writes, faults,
                 moves, problems, told, quiet, collided>>

\* erase: every table in one transaction, children first.
Erase ==
  /\ at = "ask"
  /\ home' = [x \in Items |-> "none"] /\ at' = "idle"
  /\ UNCHANGED <<away, next, pointed, table, left, copied, checked, good, writes, faults, moves,
                 problems, told, quiet, collided>>

LeftAlone ==
  /\ at = "ask"
  /\ at' = "idle"
  /\ UNCHANGED <<home, away, next, pointed, table, left, copied, checked, good, writes, faults,
                 moves, problems, told, quiet, collided>>

Kill ==
  /\ at # "idle" /\ faults < MaxFaults
  /\ at' = "idle" /\ faults' = faults + 1
  /\ table' = "none" /\ left' = <<>>
  /\ UNCHANGED <<home, away, next, pointed, copied, checked, good, writes, moves,
                 problems, told, quiet, collided>>

-----------------------------------------------------------------------------
(* Programs at the store they are pointed at. *)

\* What the command says once the rows agree: point the setting at the new store. A
\* shell that has not heard of it still says home (Start).
Point ==
  /\ pointed = "home" /\ good /\ DOMAIN checked = Tables /\ at # "copy"
  /\ pointed' = "away"
  /\ UNCHANGED <<home, away, next, at, table, left, copied, checked, good, writes, faults, moves,
                 problems, told, quiet, collided>>

\* Another shell, where it was never exported.
PointBack ==
  /\ pointed = "away" /\ at = "idle"
  /\ pointed' = "home"
  /\ UNCHANGED <<home, away, next, at, table, left, copied, checked, good, writes, faults, moves,
                 problems, told, quiet, collided>>

Here == IF pointed = "home" THEN home ELSE away

Put(x) ==
  IF pointed = "home" THEN home' = [home EXCEPT ![x] = "home"] /\ UNCHANGED away
  ELSE away' = [away EXCEPT ![x] = "away"] /\ UNCHANGED home

Write(x) ==
  /\ writes < MaxWrites
  /\ \/ x \in Edited /\ Here[x] # "none"
     \/ x \in Inserted /\ Here[x] = "none" /\ TableOf[x] \notin Numbered
        /\ \A p \in Needs[x] : Here[p] # "none"
  /\ Put(x) /\ writes' = writes + 1
  /\ quiet' = FALSE
  /\ UNCHANGED <<next, pointed, at, table, left, copied, checked, good, faults, moves,
                 problems, told, collided>>

\* A row that is numbered by its store: SQLite takes the next after the highest.
WriteNumbered(x) ==
  LET t == TableOf[x]
      asks == pointed = "away" /\ There = "postgresql" IN
  /\ writes < MaxWrites /\ t \in Numbered
  /\ \A p \in Needs[x] : Here[p] # "none"
  /\ Number[x] = IF asks THEN next[t] ELSE HighestNumber(Here, t) + 1
  /\ next' = IF asks THEN [next EXCEPT ![t] = @ + 1] ELSE next
  /\ IF Here[x] # "none" THEN collided' = TRUE /\ UNCHANGED <<home, away>>
     ELSE Put(x) /\ UNCHANGED collided
  /\ writes' = writes + 1
  /\ quiet' = FALSE
  /\ UNCHANGED <<pointed, at, table, left, copied, checked, good, faults, moves, problems, told>>

Init ==
  /\ home = [x \in Items |-> IF x \in Inserted THEN "none" ELSE "first"]
  /\ away = [x \in Items |-> "none"]
  /\ next = [t \in Numbered |-> 1]
  /\ pointed = "home" /\ at = "idle" /\ table = "none" /\ left = <<>>
  /\ copied = {} /\ checked = <<>> /\ good = FALSE
  /\ writes = 0 /\ faults = 0 /\ moves = 0
  /\ problems = FALSE /\ told = FALSE /\ quiet = TRUE /\ collided = FALSE

Next ==
  \/ Start \/ Advance \/ TableCopied \/ CopyFails \/ Conclude \/ Erase \/ LeftAlone \/ Kill
  \/ Point \/ PointBack
  \/ \E t \in Tables : OpenTable(t) \/ Verify(t) \/ VerifyFails(t)
  \/ \E b \in SUBSET DOMAIN left : CopyBatch(b)
  \/ \E x \in Items : Write(x) \/ WriteNumbered(x)

Spec == Init /\ [][Next]_vars

-----------------------------------------------------------------------------
(* Properties. *)

TypeOK ==
  /\ home \in [Items -> Versions] /\ away \in [Items -> Versions]
  /\ pointed \in {"home", "away"} /\ at \in {"idle", "copy", "verify", "ask"}
  /\ table \in Tables \cup {"none"} /\ copied \subseteq Tables /\ DOMAIN checked \subseteq Tables
  /\ {good, problems, told, quiet, collided} \subseteq BOOLEAN

\* Every row the verification found at home was away in that version, or in one
\* written there since.
HadArrived(t) ==
  \A x \in DOMAIN checked[t] : away[x] \in {checked[t][x], "away"}

\* Nothing is erased here that had not arrived there, whatever was interrupted,
\* refused, failed or copied twice on the way; of a table with a key of several
\* columns, whose rows are compared by one of those that share the first, when this
\* command's copy went through and nobody wrote meanwhile.
ErasedOnlyWhatArrived ==
  [][Erase => \A t \in DOMAIN checked :
                (Composite(t) => quiet /\ ~problems) => HadArrived(t)]_vars

\* A store that was moved takes new rows: no program is handed a number the copy
\* brought along, unless the command printed a problem.
NumbersAreFresh == collided => told

\* Not so: a program at home writes between the verification and the answer to the
\* question, which is about a number of rows and locks nothing.
NothingErasedUncopied ==
  [][Erase => \A x \in Items : home[x] # "none" => away[x] \in {home[x], "away"}]_vars

\* Not so: a move is made, one dependency of a plan is written at the new store and
\* one, from a shell that still says so, at the old, and the second copy of plans and
\* dependencies fails: as many rows of the plan on either side, and the one that is
\* compared is the one both have.
KeyOfSeveralColumnsArrived ==
  [][Erase => \A t \in DOMAIN checked : HadArrived(t)]_vars

\* Not so: the first copy's tasks refer to its employees, so a second copy may not
\* delete them to bring a newer version, nor bring any other of their batch; and the
\* second batch of a table with a key of several columns deletes the first.
CopyEndsWithTheSource ==
  [][Advance /\ quiet => \A x \in Rows(home) : away[x] = home[x]]_vars

\* Not so: the command is run again, as it says one may, from a shell whose setting
\* still names the old store, and what was written at the new one since is replaced.
WorkIsKept ==
  [][\A x \in Items : away[x] = "away" => away'[x] = "away"]_vars
=============================================================================
