---------------------------- MODULE StateDatabase ----------------------------
(***************************************************************************)
(* Opening, migrating and copying .diffowl/state.db (src/state/db.ts,      *)
(* sqlite.ts, read-snapshot.ts).  Hooks, commands and agents open the      *)
(* database in processes of their own, and not all of them need to run the *)
(* same build: a build knows the migrations 1 .. Current[b], and a fork    *)
(* runs other statements under some of these numbers.  The readiness query *)
(* copies the database file and its WAL while the others write.            *)
(*                                                                         *)
(* A content is the rows of schema_migrations, each with the statements    *)
(* that really ran, and a number of other writes.  "log" holds every       *)
(* committed content; the database file and the WAL say which of them they *)
(* hold.  A transaction is one step (sqlite.ts 99-124: it commits, or rolls*)
(* back and throws), every other statement is a step of its own.           *)
(***************************************************************************)
EXTENDS Naturals, Sequences

CONSTANTS Openers,     \* processes that open the database to write
          Builds,      \* builds of diffowl
          Current,     \* CURRENT_SCHEMA_VERSION of each build
          Forked,      \* versions under which a build runs other statements
          Nameless,    \* builds whose identity migration adds no identity
          Identity,    \* MIGRATION_IDENTITY_SCHEMA_VERSION
          Shaped,      \* versions that show in the columns of the four tables
          MaxWrites    \* bound on the writes besides migrations

VARIABLES log,         \* committed contents, oldest first
          main, wal,   \* what the database file and the WAL hold of the log
          build, at,   \* build and place of every opener
          version,     \* the version an opener applies next
          reader,      \* place of the query
          seen,        \* the copies it took
          again,       \* its second read of the database file
          compared     \* commits when its first comparison was made

dbVars == <<log, main, wal, build, at, version, reader, seen, again, compared>>
openerVars == <<build, at, version>>
readerVars == <<reader, seen, again, compared>>

Main == "main"
Sql(b, v) == IF v \in Forked[b] THEN b ELSE Main
Rows == log[Len(log)].rows
Empty == [from |-> 0, upto |-> 0]

(* A history that one build left, up to any version it knows.               *)
Left(b, k) == [i \in 1 .. k |->
  [sql |-> Sql(b, i), sha |-> IF k >= Identity /\ b \notin Nameless THEN Sql(b, i) ELSE "none"]]

DatabaseInit ==
  /\ \E b \in Builds : \E k \in 0 .. Current[b] :
       log = <<[rows |-> Left(b, k), writes |-> 0]>>
  /\ main = [from |-> 1, upto |-> 1] /\ wal = Empty
  /\ build \in [Openers -> Builds]
  /\ at = [p \in Openers |-> "start"] /\ version = [p \in Openers |-> 1]
  /\ reader \in {"none", "start"}
  /\ seen = [db |-> main, wal |-> wal] /\ again = main /\ compared = 0

-----------------------------------------------------------------------------
(* The checks of db.ts                                                      *)

(* hasMigrationIdentityColumns                                              *)
WithNames(rows) == Len(rows) >= Identity /\ rows[Identity].sql \notin Nameless

(* assertCompatibleSchema; the versions are contiguous by their types here. *)
Compatible(b, rows) == Len(rows) <= Current[b]

(* assertMigrationIdentity                                                  *)
Identified(b, rows) ==
  IF WithNames(rows) THEN \A v \in DOMAIN rows : v <= Current[b] /\ rows[v].sha = Sql(b, v)
                 ELSE Len(rows) < Identity

(* assertCurrentReviewSchema: the columns are those that this build's       *)
(* migrations make.                                                         *)
InShape(b, rows) == \A v \in Shaped :
  (v <= Len(rows) \/ v <= Current[b]) =>
    v <= Len(rows) /\ v <= Current[b] /\ rows[v].sql = Sql(b, v)

(* assertReadableSchema                                                     *)
Readable(b, rows) ==
  /\ Compatible(b, rows) /\ Identified(b, rows)
  /\ Len(rows) = Current[b] /\ InShape(b, rows)

-----------------------------------------------------------------------------
(* openStateDatabase                                                        *)

Go(p, here, there) == at[p] = here /\ at' = [at EXCEPT ![p] = there]

(* A commit is appended to the WAL; when the database file has all of it,   *)
(* the WAL may be begun anew.                                               *)
Commit(content) ==
  /\ log' = Append(log, content)
  /\ \/ wal' = [from |-> IF wal = Empty THEN Len(log) ELSE wal.from, upto |-> Len(log) + 1]
     \/ main.from = Len(log) /\ wal' = [from |-> Len(log), upto |-> Len(log) + 1]
  /\ UNCHANGED <<main, readerVars>>

Check(p, here, passed, there) ==
  /\ Go(p, here, IF passed THEN there ELSE "closing")
  /\ UNCHANGED <<log, main, wal, build, version, readerVars>>

CheckCompatible(p) == Check(p, "start", Compatible(build[p], Rows), "compatible")
CheckIdentity(p) == Check(p, "compatible", Identified(build[p], Rows), "identified")

(* applyMigrations asks once which versions the database has.               *)
ListApplied(p) ==
  /\ Go(p, "identified", IF Compatible(build[p], Rows) THEN "migrating" ELSE "closing")
  /\ version' = [version EXCEPT ![p] = Len(Rows) + 1]
  /\ UNCHANGED <<log, main, wal, build, readerVars>>

Migrated_AskedBefore(b, v) ==
  LET rows == Append(Rows, [sql |-> Sql(b, v), sha |-> "none"]) IN
  IF WithNames(Rows)
    THEN [i \in DOMAIN rows |->
           IF rows[i].sha = "none" THEN [rows[i] EXCEPT !.sha = Sql(b, i)] ELSE rows[i]]
    ELSE rows
(* The migration and its row; backfillMigrationIdentity names every row     *)
(* that has no name yet.                                                    *)
Migrated(b, v) ==
  LET rows == Append(Rows, [sql |-> Sql(b, v), sha |-> "none"]) IN
  IF WithNames(rows)
    THEN [i \in DOMAIN rows |->
           IF rows[i].sha = "none" THEN [rows[i] EXCEPT !.sha = Sql(b, i)] ELSE rows[i]]
    ELSE rows

(* The statements fail on tables that are already there, and so does a      *)
(* second row of one version.                                               *)
Applies(p) == version[p] = Len(Rows) + 1 /\ version[p] <= Current[build[p]]

ApplyMigration(p) ==
  /\ at[p] = "migrating" /\ Applies(p)
  /\ Commit([log[Len(log)] EXCEPT !.rows = Migrated(build[p], version[p])])
  /\ version' = [version EXCEPT ![p] = @ + 1]
  /\ UNCHANGED <<build, at>>
MigrationThere(p) ==
  /\ version[p] <= Current[build[p]] /\ ~Applies(p)
  /\ Go(p, "migrating", "closing")
  /\ UNCHANGED <<log, main, wal, build, version, readerVars>>
AllApplied(p) ==
  /\ version[p] > Current[build[p]]
  /\ Go(p, "migrating", "migrated")
  /\ UNCHANGED <<log, main, wal, build, version, readerVars>>

CheckAgain(p) == Check(p, "migrated", Identified(build[p], Rows), "verified")
CheckShape(p) == Check(p, "verified", InShape(build[p], Rows), "open")

Write(p) ==
  /\ at[p] = "open" /\ log[Len(log)].writes < MaxWrites
  /\ Commit([log[Len(log)] EXCEPT !.writes = @ + 1])
  /\ UNCHANGED openerVars

(* A command closes the database, and so does an open that fails: refused,  *)
(* or by a lock that the others hold for longer than the busy timeout.      *)
Close(p) ==
  /\ at[p] \notin {"closing", "copying", "copied", "gone"}
  /\ at' = [at EXCEPT ![p] = "closing"]
  /\ UNCHANGED <<log, main, wal, build, version, readerVars>>

(* closeDatabaseConnection: PRAGMA wal_checkpoint(TRUNCATE) copies the WAL  *)
(* into the database file page by page and empties it; it can be turned     *)
(* away by others at both ends.                                             *)
Checkpoint(p) ==
  /\ \A q \in Openers : at[q] \notin {"copying", "copied"}
  /\ wal # Empty
  /\ Go(p, "closing", "copying")
  /\ main' = [main EXCEPT !.upto = Len(log)]
  /\ UNCHANGED <<log, wal, build, version, readerVars>>
Copied(p) ==
  /\ Go(p, "copying", "copied")
  /\ main' = [main EXCEPT !.from = main.upto]
  /\ UNCHANGED <<log, wal, build, version, readerVars>>
Truncate(p) ==
  /\ main.from = Len(log)
  /\ Go(p, "copied", "gone")
  /\ wal' = Empty
  /\ UNCHANGED <<log, main, build, version, readerVars>>

(* The connection is closed without a checkpoint, or the process dies; its  *)
(* locks go with it.                                                        *)
Gone(p) ==
  /\ at[p] # "gone"
  /\ at' = [at EXCEPT ![p] = "gone"]
  /\ UNCHANGED <<log, main, wal, build, version, readerVars>>

-----------------------------------------------------------------------------
(* readStateSnapshot                                                        *)

Reads(here, there) ==
  reader = here /\ reader' = there /\ UNCHANGED <<log, main, wal, openerVars>>

ReadDatabase ==
  /\ Reads("start", "wal")
  /\ seen' = [seen EXCEPT !.db = main]
  /\ UNCHANGED <<again, compared>>
ReadWal ==
  /\ Reads("wal", "again")
  /\ seen' = [seen EXCEPT !.wal = wal]
  /\ UNCHANGED <<again, compared>>
ReadAgain ==
  /\ Reads("again", "compare") \/ Reads("queried", "finish")
  /\ again' = main
  /\ UNCHANGED <<seen, compared>>

Same_WalOnly(db, w) == seen.wal = w
Same(db, w) == seen.db = db /\ seen.wal = w

(* What SQLite finds in the copies: the last commit of the WAL, else the    *)
(* database file as it is.                                                  *)
Found == IF seen.wal = Empty THEN seen.db.upto ELSE seen.wal.upto

CompareCopies ==
  /\ Reads("compare", IF Same(again, wal) THEN "query" ELSE "failed")
  /\ compared' = Len(log)
  /\ UNCHANGED <<seen, again>>
QueryCopy ==
  /\ \E b \in Builds :
       Reads("query", IF Readable(b, log[Found].rows) THEN "queried" ELSE "failed")
  /\ UNCHANGED <<seen, again, compared>>
Finish ==
  /\ Reads("finish", IF Same(again, wal) THEN "answered" ELSE "failed")
  /\ UNCHANGED <<seen, again, compared>>

DatabaseNext ==
  \/ \E p \in Openers :
       \/ CheckCompatible(p) \/ CheckIdentity(p) \/ ListApplied(p)
       \/ ApplyMigration(p) \/ MigrationThere(p) \/ AllApplied(p)
       \/ CheckAgain(p) \/ CheckShape(p) \/ Write(p)
       \/ Close(p) \/ Checkpoint(p) \/ Copied(p) \/ Truncate(p) \/ Gone(p)
  \/ ReadDatabase \/ ReadWal \/ ReadAgain \/ CompareCopies \/ QueryCopy \/ Finish

DatabaseSpec == DatabaseInit /\ [][DatabaseNext]_dbVars

-----------------------------------------------------------------------------
(* Properties                                                               *)

(* What the database records of a migration is what ran: nobody who reads   *)
(* the record later takes the statements of a fork for its own.  Versions   *)
(* before the identity migration are named by whoever ran that one.         *)
HistoryIsTrue ==
  /\ \A v \in DOMAIN Rows : v >= Identity /\ WithNames(Rows) => Rows[v].sha = Rows[v].sql
  /\ \A v \in DOMAIN Rows : WithNames(Rows) <=> Rows[v].sha # "none"

(* Whoever gets to write has found all of its migrations there, run with    *)
(* its own statements as far as identity or columns can tell, in spite of   *)
(* the others that migrate between its checks.                              *)
OpensItsOwn ==
  \A p \in Openers : at[p] # "open" /\ at'[p] = "open" =>
    /\ Len(Rows) >= Current[build[p]]
    /\ \A v \in 1 .. Current[build[p]] :
         v >= Identity \/ v \in Shaped => Rows[v].sql = Sql(build[p], v)
OpenedIsMine == [][OpensItsOwn]_dbVars

(* The copies fit together: every page that the database file lacks is in   *)
(* the WAL beside it.                                                       *)
Whole == IF seen.wal = Empty THEN seen.db.from = seen.db.upto
         ELSE seen.wal.from <= seen.db.from /\ seen.db.upto <= seen.wal.upto

(* An answered query has read one committed content, at least as new as     *)
(* when it compared its copies, whatever writes and checkpoints came        *)
(* between its reads.                                                       *)
SnapshotIsCommitted == reader = "answered" => Whole /\ Found >= compared

-----------------------------------------------------------------------------
(* What the proofs need                                                     *)

Extents == [from : Nat, upto : Nat]
Statements == Builds \cup {Main}
Places == {"start", "compatible", "identified", "migrating", "migrated", "verified", "open",
           "closing", "copying", "copied", "gone"}
DatabaseTypes ==
  /\ log \in Seq([rows : Seq([sql : Statements, sha : Statements \cup {"none"}]), writes : Nat])
  /\ main \in Extents /\ wal \in Extents
  /\ build \in [Openers -> Builds] /\ at \in [Openers -> Places]
  /\ version \in [Openers -> Nat]
  /\ seen \in [db : Extents, wal : Extents] /\ again \in Extents /\ compared \in Nat

(* The database file never has more than the log, and what it lacks of the  *)
(* log is in the WAL.                                                       *)
FilesFit ==
  /\ 1 <= main.from /\ main.from <= main.upto /\ main.upto <= Len(log)
  /\ wal = Empty => main.from = Len(log)
  /\ wal # Empty => wal.from <= main.from /\ wal.upto = Len(log)

(* As long as the database file is the one that was copied, so is what is   *)
(* known of the copies: the file only gains pages, and never looks again as *)
(* it did before.                                                           *)
Older(one, other) == one.from <= other.from /\ one.upto <= other.upto
CopiesFit ==
  /\ reader \notin {"none", "start"} => Older(seen.db, main)
  /\ reader = "again" /\ main = seen.db => Whole
  /\ reader = "compare" /\ again = seen.db => Whole
  /\ reader \in {"query", "queried", "finish", "answered"} => Whole
  /\ reader \in {"query", "queried"} /\ main = seen.db => Found >= compared
  /\ reader = "finish" /\ again = seen.db => Found >= compared
  /\ reader = "answered" => Found >= compared

(* What an opener has found stays true, for rows are only appended.         *)
OpenerFits(p) ==
  /\ at[p] = "migrating" => version[p] <= Len(Rows) + 1
  /\ at[p] \in {"migrated", "verified"} => Len(Rows) >= Current[build[p]]
  /\ at[p] = "verified" =>
       \A v \in 1 .. Current[build[p]] : v >= Identity => Rows[v].sql = Sql(build[p], v)
OpenersFit == \A p \in Openers : OpenerFits(p)
=============================================================================
