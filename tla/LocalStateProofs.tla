---------------------------- MODULE LocalStateProofs ----------------------------
(***************************************************************************)
(* Proofs about the parts of LocalParts that keep state for others, and    *)
(* about those that read what other programs wrote.  A behaviour is one of *)
(* a single part, so each part has an invariant of its own: the state      *)
(* database (DatabaseFits: what its files hold, what copies and openers    *)
(* rely on), a verification run (RunFits: who executes, what is recorded), *)
(* the hook (InstallationFits, and MarkersFit: whose section it is), the   *)
(* preferences (PreferenceFits: models of their backends, variants as asked*)
(* for), the state directory (RootFits: only the remembered lookup may     *)
(* still succeed), the links between findings (MatchFits: what a recorded  *)
(* suggestion was chosen by), the text of a diff (TextFits: what both      *)
(* readers have of each file), the text of an answer (any sequence of      *)
(* tokens), and the files of an agent (SetupFits: what was there, or what  *)
(* one setup makes of it).                                                 *)
(***************************************************************************)
EXTENDS LocalReviewProofs

-----------------------------------------------------------------------------
(* The state database                                                       *)

LEMMA DatabaseAlone == part = "database" /\ PartsNext => Database!DatabaseNext
BY DEF PartsNext, OpenDatabase, InstallHook, SetUpAgent, ChoosePreference,
  FindStateRoot, KeepFindings, SuggestDuplicate, SummariseFindings, GatherContext,
  ReadDiff, ReadDocument, PublishFindings, RecordTelemetry, RunCommand, CheckProtocol,
  ScoreCase, RunEvaluation, RunVerification, Runs, Rest

HistoryRows == [sql : Database!Statements, sha : Database!Statements \cup {"none"}]
FileContents == [rows : Seq(HistoryRows), writes : Nat]

History(rows) ==
  /\ \A v \in DOMAIN rows : v >= Identity /\ Database!WithNames(rows) => rows[v].sha = rows[v].sql
  /\ \A v \in DOMAIN rows : Database!WithNames(rows) <=> rows[v].sha # "none"

LEMMA Appended ==
  ASSUME NEW S, NEW s \in Seq(S), NEW e \in S
  PROVE  /\ Append(s, e) \in Seq(S) /\ Len(Append(s, e)) = Len(s) + 1
         /\ DOMAIN Append(s, e) = 1 .. Len(s) + 1
         /\ \A i \in 1 .. Len(s) : Append(s, e)[i] = s[i]
         /\ Append(s, e)[Len(s) + 1] = e
OBVIOUS

(* A statement that ran is not the name of a row that has none.             *)
LEMMA SqlType ==
  ASSUME NEW b \in Builds, NEW v
  PROVE  Database!Sql(b, v) \in Database!Statements /\ Database!Sql(b, v) # "none"
BY DatabaseAssumption DEF Database!Sql, Database!Main, Database!Statements

LEMMA LeftHistory ==
  ASSUME NEW b \in Builds, NEW k \in Nat
  PROVE  Database!Left(b, k) \in Seq(HistoryRows) /\ History(Database!Left(b, k))
<1> DEFINE rows == Database!Left(b, k)
           sha(i) == IF k >= Identity /\ b \notin Nameless THEN Database!Sql(b, i) ELSE "none"
<1>1. rows = [i \in 1 .. k |-> [sql |-> Database!Sql(b, i), sha |-> sha(i)]]
  BY DEF Database!Left
<1>2. \A i \in 1 .. k : [sql |-> Database!Sql(b, i), sha |-> sha(i)] \in HistoryRows
  BY SqlType DEF HistoryRows
<1>3. rows \in Seq(HistoryRows) /\ Len(rows) = k /\ DOMAIN rows = 1 .. k
  BY <1>1, <1>2
<1>4. \A i \in 1 .. k : rows[i].sql = Database!Sql(b, i) /\ rows[i].sha = sha(i)
  BY <1>1
<1>5. Database!WithNames(rows) <=> k >= Identity /\ b \notin Nameless
  <2>1. CASE k < Identity
    BY <2>1, <1>3, DatabaseAssumption DEF Database!WithNames
  <2>2. CASE k >= Identity
    <3>1. Identity \in 1 .. k
      BY <2>2, DatabaseAssumption
    <3>2. rows[Identity].sql = Database!Sql(b, Identity)
      BY <3>1, <1>4
    <3>3. Database!Sql(b, Identity) \notin Nameless <=> b \notin Nameless
      BY DatabaseAssumption DEF Database!Sql, Database!Main
    <3> QED
      BY <2>2, <3>2, <3>3, <1>3 DEF Database!WithNames
  <2> QED
    BY <2>1, <2>2, DatabaseAssumption
<1>6. \A i \in 1 .. k : rows[i].sha # "none" <=> Database!WithNames(rows)
  BY <1>4, <1>5, SqlType
<1>7. \A i \in 1 .. k : Database!WithNames(rows) => rows[i].sha = rows[i].sql
  BY <1>4, <1>5
<1> QED
  BY <1>3, <1>6, <1>7 DEF History

LEMMA DatabaseStart ==
  ASSUME Database!DatabaseInit
  PROVE  Database!DatabaseTypes /\ Database!HistoryIsTrue
<1>1. PICK b \in Builds : \E k \in 0 .. Current[b] :
        s1 = <<[rows |-> Database!Left(b, k), writes |-> 0]>>
  BY DEF Database!DatabaseInit
<1>0. PICK k \in 0 .. Current[b] :
        s1 = <<[rows |-> Database!Left(b, k), writes |-> 0]>>
  BY <1>1
<1>2. k \in Nat
  BY DatabaseAssumption
<1> DEFINE rows == Database!Left(b, k)
<1>6. rows \in Seq(HistoryRows) /\ History(rows)
  BY <1>2, LeftHistory
<1> HIDE DEF rows
<1>7. s1 = <<[rows |-> rows, writes |-> 0]>>
  BY <1>0 DEF rows
<1>3. s1 \in Seq(FileContents) /\ Len(s1) = 1 /\ Database!Rows = rows
  BY <1>6, <1>7 DEF FileContents, Database!Rows
<1>4. Database!HistoryIsTrue
  BY <1>6, <1>3 DEF Database!HistoryIsTrue, History
<1>5. Database!DatabaseTypes
  BY <1>3 DEF Database!DatabaseInit, Database!DatabaseTypes, FileContents, HistoryRows,
    Database!Extents, Database!Empty, Database!Places
<1> QED
  BY <1>4, <1>5

LEMMA DatabaseFitsAtStart ==
  ASSUME Database!DatabaseInit
  PROVE  Database!FilesFit /\ Database!CopiesFit /\ Database!OpenersFit
<1>1. Len(s1) = 1 /\ s2 = [from |-> 1, upto |-> 1] /\ s3 = Database!Empty
  BY DEF Database!DatabaseInit
<1>2. Database!FilesFit
  BY <1>1 DEF Database!FilesFit
<1>3. Database!CopiesFit
  BY DEF Database!DatabaseInit, Database!CopiesFit
<1>4. Database!OpenersFit
  BY DEF Database!DatabaseInit, Database!OpenersFit, Database!OpenerFits
<1> QED
  BY <1>2, <1>3, <1>4

-----------------------------------------------------------------------------
(* A commit                                                                 *)

LEMMA RowsType ==
  ASSUME Database!DatabaseTypes, Database!FilesFit
  PROVE  /\ s1 \in Seq(FileContents) /\ Len(s1) \in Nat \ {0}
         /\ s1[Len(s1)] \in FileContents /\ Database!Rows \in Seq(HistoryRows)
<1>1. s1 \in Seq(FileContents)
  BY DEF Database!DatabaseTypes, FileContents, HistoryRows
<1>2. Len(s1) \in Nat /\ Len(s1) >= 1
  <2>1. s2.from \in Nat /\ s2.upto \in Nat /\ Len(s1) \in Nat
    BY <1>1 DEF Database!DatabaseTypes, Database!Extents
  <2>2. 1 <= s2.from /\ s2.from <= s2.upto /\ s2.upto <= Len(s1)
    BY DEF Database!FilesFit
  <2> QED
    BY <2>1, <2>2
<1>3. s1[Len(s1)] \in FileContents
  BY <1>1, <1>2
<1> QED
  BY <1>1, <1>2, <1>3 DEF FileContents, Database!Rows

(* A migration appends its row, keeps the statements of the others and     *)
(* leaves a true history: the names it gives are those of this build, and   *)
(* with the identity migration they go to rows that had none.               *)
LEMMA MigratedHistory ==
  ASSUME NEW b \in Builds, Database!Rows \in Seq(HistoryRows), History(Database!Rows)
  PROVE  LET rows == Database!Migrated(b, Len(Database!Rows) + 1) IN
         /\ rows \in Seq(HistoryRows) /\ Len(rows) = Len(Database!Rows) + 1
         /\ \A v \in 1 .. Len(Database!Rows) : rows[v].sql = Database!Rows[v].sql
         /\ History(rows)
<1> DEFINE old == Database!Rows
           n == Len(old)
           row == [sql |-> Database!Sql(b, n + 1), sha |-> "none"]
           new == Append(old, row)
           name(i) == IF new[i].sha = "none" THEN [new[i] EXCEPT !.sha = Database!Sql(b, i)] ELSE new[i]
           rows == Database!Migrated(b, n + 1)
<1>1. n \in Nat /\ old \in Seq(HistoryRows)
  OBVIOUS
<1>2. row \in HistoryRows /\ row.sha = "none" /\ row.sql = Database!Sql(b, n + 1)
  BY SqlType DEF HistoryRows
<1>3. /\ new \in Seq(HistoryRows) /\ Len(new) = n + 1 /\ DOMAIN new = 1 .. n + 1
      /\ \A i \in 1 .. n : new[i] = old[i]
      /\ new[n + 1] = row
  BY <1>1, <1>2, Appended
<1>4. rows = IF Database!WithNames(new) THEN [i \in DOMAIN new |-> name(i)] ELSE new
  BY DEF Database!Migrated
<1>5. History(old)
  OBVIOUS
<1> HIDE DEF old, n, row, new, rows
<1>6. \A i \in 1 .. n + 1 : new[i] \in HistoryRows
  BY <1>1, <1>3
<1>7. Database!WithNames(old) => Database!WithNames(new)
  <2>1. n >= Identity => new[Identity] = old[Identity]
    <3>1. n >= Identity => Identity \in 1 .. n
      BY <1>1, DatabaseAssumption
    <3> QED
      BY <1>3, <3>1
  <2> QED
    BY <1>1, <1>3, <2>1, DatabaseAssumption DEF Database!WithNames, n
<1>8. ~Database!WithNames(old) => \A i \in 1 .. n + 1 : new[i].sha = "none"
  <2>1. DOMAIN old = 1 .. n
    BY <1>1 DEF n
  <2> QED
    BY SMTT(20), <1>1, <1>2, <1>3, <1>5, <2>1 DEF History
<1>9. CASE ~Database!WithNames(new)
  <2>1. rows = new /\ ~Database!WithNames(old)
    BY <1>4, <1>7, <1>9
  <2>2. History(rows)
    BY <2>1, <1>3, <1>8, <1>9 DEF History
  <2> QED
    BY <2>1, <2>2, <1>3 DEF rows, n, old
<1>10. CASE Database!WithNames(new)
  <2>1. rows = [i \in 1 .. n + 1 |-> name(i)]
    BY <1>3, <1>4, <1>10
  <2>2. \A i \in 1 .. n + 1 :
          /\ name(i) \in HistoryRows /\ name(i).sql = new[i].sql /\ name(i).sha # "none"
          /\ new[i].sha = "none" => name(i).sha = Database!Sql(b, i)
          /\ new[i].sha # "none" => name(i) = new[i]
    BY <1>1, <1>6, SqlType DEF HistoryRows
  <2> HIDE DEF name
  <2>3. rows \in Seq(HistoryRows) /\ Len(rows) = n + 1 /\ DOMAIN rows = 1 .. n + 1
    BY <1>1, <2>1, <2>2
  <2>4. \A i \in 1 .. n + 1 : rows[i] = name(i)
    BY <2>1
  <2>5. Database!WithNames(rows)
    BY <1>1, <1>3, <1>10, <2>2, <2>3, <2>4, DatabaseAssumption DEF Database!WithNames
  <2>6. ASSUME NEW v \in 1 .. n + 1, v >= Identity
        PROVE  rows[v].sha = rows[v].sql
    <3>1. CASE v = n + 1
      BY <3>1, <1>1, <1>2, <1>3, <2>2, <2>4
    <3>2. CASE v # n + 1
      <4>1. v \in 1 .. n /\ v \in Nat /\ DOMAIN old = 1 .. n
        BY <3>2, <1>1 DEF n
      <4>2. n >= Identity /\ Identity \in 1 .. n
        BY <4>1, <2>6, <1>1, DatabaseAssumption
      <4>3. Database!WithNames(old)
        BY <1>3, <1>10, <4>2, <1>1 DEF Database!WithNames, n
      <4>4. old[v].sha = old[v].sql /\ old[v].sha # "none"
        BY <4>1, <4>3, <1>5, <2>6 DEF History
      <4> QED
        BY <4>1, <4>4, <1>3, <2>2, <2>4
    <3> QED
      BY <3>1, <3>2
  <2>7. History(rows)
    BY <2>2, <2>3, <2>4, <2>5, <2>6 DEF History
  <2>8. \A v \in 1 .. n : rows[v].sql = old[v].sql
    BY <1>1, <1>3, <2>2, <2>4
  <2> QED
    BY <2>3, <2>7, <2>8 DEF rows, n, old
<1> QED
  BY <1>9, <1>10

DatabaseFits ==
  /\ Database!DatabaseTypes /\ Database!HistoryIsTrue
  /\ Database!FilesFit /\ Database!CopiesFit /\ Database!OpenersFit

(* What a commit adds: rows after those that are there.                     *)
Extends(content) ==
  /\ content \in FileContents /\ History(content.rows)
  /\ Len(content.rows) >= Len(Database!Rows)
  /\ \A v \in 1 .. Len(Database!Rows) : content.rows[v].sql = Database!Rows[v].sql

LEMMA MigrationCommits ==
  ASSUME DatabaseFits, NEW p \in Two, Database!ApplyMigration(p)
  PROVE  /\ \E content : Database!Commit(content) /\ Extends(content)
                         /\ Len(content.rows) = s6[p]
         /\ s4' = s4 /\ s5' = s5 /\ s6' = [s6 EXCEPT ![p] = @ + 1]
<1> DEFINE rows == Database!Migrated(s4[p], s6[p])
           content == [s1[Len(s1)] EXCEPT !.rows = rows]
<1>1. /\ s1[Len(s1)] \in FileContents /\ Database!Rows \in Seq(HistoryRows)
      /\ History(Database!Rows)
  BY RowsType DEF DatabaseFits, Database!HistoryIsTrue, History
<1>2. s4[p] \in Builds /\ s6[p] = Len(Database!Rows) + 1
  BY DEF DatabaseFits, Database!DatabaseTypes, Database!ApplyMigration, Database!Applies
<1>3. /\ rows \in Seq(HistoryRows) /\ Len(rows) = Len(Database!Rows) + 1
      /\ \A v \in 1 .. Len(Database!Rows) : rows[v].sql = Database!Rows[v].sql
      /\ History(rows)
  BY <1>1, <1>2, MigratedHistory
<1>4. Database!Commit(content) /\ s4' = s4 /\ s5' = s5 /\ s6' = [s6 EXCEPT ![p] = @ + 1]
  BY DEF Database!ApplyMigration
<1> HIDE DEF rows
<1>5. content \in FileContents /\ content.rows = rows
  BY <1>1, <1>3 DEF FileContents
<1>6. Extends(content) /\ Len(content.rows) = s6[p]
  BY <1>1, <1>2, <1>3, <1>5 DEF Extends
<1> HIDE DEF content
<1> QED
  BY <1>4, <1>6

LEMMA WriteCommits ==
  ASSUME DatabaseFits, NEW p \in Two, Database!Write(p)
  PROVE  /\ \E content : Database!Commit(content) /\ Extends(content)
         /\ s4' = s4 /\ s5' = s5 /\ s6' = s6
<1> DEFINE content == [s1[Len(s1)] EXCEPT !.writes = @ + 1]
<1>1. s1[Len(s1)] \in FileContents /\ Database!Rows \in Seq(HistoryRows)
  BY RowsType DEF DatabaseFits
<1>2. Database!Commit(content) /\ s4' = s4 /\ s5' = s5 /\ s6' = s6
  BY DEF Database!Write, Database!openerVars
<1>3. content \in FileContents /\ content.rows = Database!Rows
  BY <1>1 DEF FileContents, Database!Rows
<1>4. Extends(content)
  BY <1>1, <1>3 DEF Extends, DatabaseFits, Database!HistoryIsTrue, History
<1> HIDE DEF content
<1> QED
  BY <1>2, <1>4

(* A commit leaves the files and the copies as they must be.                *)
LEMMA CommitFits ==
  ASSUME DatabaseFits, NEW content, Database!Commit(content), Extends(content)
  PROVE  /\ s1' \in Seq(FileContents) /\ Database!Rows' = content.rows
         /\ s2' = s2 /\ s3' \in Database!Extents
         /\ Database!FilesFit' /\ Database!CopiesFit'
         /\ s8' = s8 /\ s9' = s9 /\ s10' = s10
<1>1. s1 \in Seq(FileContents) /\ Len(s1) \in Nat \ {0} /\ content \in FileContents
  BY RowsType DEF DatabaseFits, Extends
<1>2. s1' = Append(s1, content)
  BY DEF Database!Commit
<1>3. /\ s1' \in Seq(FileContents) /\ Len(s1') = Len(s1) + 1
      /\ s1'[Len(s1')] = content
  BY <1>1, <1>2, Appended
<1>4. s2' = s2 /\ s7' = s7 /\ s8' = s8 /\ s9' = s9 /\ s10' = s10
  BY DEF Database!Commit, Database!readerVars
<1>5. /\ s2.from \in Nat /\ s2.upto \in Nat /\ s3 \in Database!Extents
      /\ s3.from \in Nat /\ s3.upto \in Nat
  BY DEF DatabaseFits, Database!DatabaseTypes, Database!Extents
<1>6. \E from \in Nat : s3' = [from |-> from, upto |-> Len(s1) + 1] /\ from <= s2.from
  <2>1. CASE s3 = Database!Empty
    BY <2>1, <1>1, <1>5 DEF Database!Commit, DatabaseFits, Database!FilesFit
  <2>2. CASE s3 # Database!Empty
    BY <2>2, <1>1, <1>5 DEF Database!Commit, DatabaseFits, Database!FilesFit
  <2> QED
    BY <2>1, <2>2
<1>7. s3' \in Database!Extents /\ s3' # Database!Empty /\ s3'.upto = Len(s1') /\ s3'.from <= s2.from
  BY <1>1, <1>3, <1>6 DEF Database!Extents, Database!Empty
<1>8. Database!FilesFit'
  BY <1>1, <1>3, <1>4, <1>5, <1>7 DEF DatabaseFits, Database!FilesFit, Database!Empty
<1>9. Database!CopiesFit'
  BY <1>4 DEF DatabaseFits, Database!CopiesFit, Database!Older, Database!Whole, Database!Found, Database!Empty
<1> QED
  BY <1>3, <1>4, <1>7, <1>8, <1>9 DEF Database!Rows

(* Openers do not lose what they found when rows are appended.              *)
LEMMA OpenersKeep ==
  ASSUME DatabaseFits, NEW content, Database!Rows' = content.rows, Extends(content),
         s4' = s4, s5' = s5, NEW p \in Two, s6'[p] <= Len(content.rows) + 1 \/ s6'[p] = s6[p]
  PROVE  Database!OpenerFits(p)'
<1>1. Database!OpenerFits(p)
  BY DEF DatabaseFits, Database!OpenersFit
<1>2. /\ Len(content.rows) \in Nat /\ Len(Database!Rows) \in Nat
      /\ s6[p] \in Nat /\ Current[s4[p]] \in Nat
  BY RowsType, DatabaseAssumption DEF Extends, FileContents, DatabaseFits, Database!DatabaseTypes
<1>3. s5[p] = "migrating" => s6'[p] <= Len(content.rows) + 1
  BY <1>1, <1>2 DEF Database!OpenerFits, Extends
<1>4. s5[p] \in {"migrated", "verified"} => Len(content.rows) >= Current[s4[p]]
  BY <1>1, <1>2 DEF Database!OpenerFits, Extends
<1>5. ASSUME s5[p] = "verified", NEW v \in 1 .. Current[s4[p]], v >= Identity
      PROVE  content.rows[v].sql = Database!Sql(s4[p], v)
  <2>1. v \in 1 .. Len(Database!Rows) /\ Database!Rows[v].sql = Database!Sql(s4[p], v)
    BY <1>1, <1>2, <1>5 DEF Database!OpenerFits
  <2> QED
    BY <2>1 DEF Extends
<1> QED
  BY <1>3, <1>4, <1>5 DEF Database!OpenerFits, Database!Sql, Database!Main

LEMMA MigrationFits ==
  ASSUME DatabaseFits, NEW p \in Two, Database!ApplyMigration(p)
  PROVE  DatabaseFits'
<1>1. PICK content : Database!Commit(content) /\ Extends(content) /\ Len(content.rows) = s6[p]
  BY MigrationCommits
<1>2. s4' = s4 /\ s5' = s5 /\ s6' = [s6 EXCEPT ![p] = @ + 1]
  BY MigrationCommits
<1>3. /\ s1' \in Seq(FileContents) /\ Database!Rows' = content.rows
      /\ s2' = s2 /\ s3' \in Database!Extents
      /\ Database!FilesFit' /\ Database!CopiesFit'
      /\ s8' = s8 /\ s9' = s9 /\ s10' = s10
  BY <1>1, CommitFits
<1>4. Database!DatabaseTypes'
  BY <1>2, <1>3 DEF DatabaseFits, Database!DatabaseTypes, FileContents, HistoryRows
<1>5. Database!HistoryIsTrue'
  BY <1>1, <1>3 DEF Extends, History, Database!HistoryIsTrue, Database!WithNames
<1>6. \A q \in Two : s6'[q] <= Len(content.rows) + 1 \/ s6'[q] = s6[q]
  BY <1>1, <1>2 DEF DatabaseFits, Database!DatabaseTypes
<1>7. Database!OpenersFit'
  BY <1>1, <1>2, <1>3, <1>6, OpenersKeep DEF Database!OpenersFit
<1> QED
  BY <1>3, <1>4, <1>5, <1>7 DEF DatabaseFits

LEMMA WriteFits ==
  ASSUME DatabaseFits, NEW p \in Two, Database!Write(p)
  PROVE  DatabaseFits'
<1>1. PICK content : Database!Commit(content) /\ Extends(content)
  BY WriteCommits
<1>2. s4' = s4 /\ s5' = s5 /\ s6' = s6
  BY WriteCommits
<1>3. /\ s1' \in Seq(FileContents) /\ Database!Rows' = content.rows
      /\ s2' = s2 /\ s3' \in Database!Extents
      /\ Database!FilesFit' /\ Database!CopiesFit'
      /\ s8' = s8 /\ s9' = s9 /\ s10' = s10
  BY <1>1, CommitFits
<1>4. Database!DatabaseTypes'
  BY <1>2, <1>3 DEF DatabaseFits, Database!DatabaseTypes, FileContents, HistoryRows
<1>5. Database!HistoryIsTrue'
  BY <1>1, <1>3 DEF Extends, History, Database!HistoryIsTrue, Database!WithNames
<1>6. Database!OpenersFit'
  BY <1>1, <1>2, <1>3, OpenersKeep DEF Database!OpenersFit
<1> QED
  BY <1>3, <1>4, <1>5, <1>6 DEF DatabaseFits

-----------------------------------------------------------------------------
(* The other steps                                                          *)

LEMMA SameLog ==
  ASSUME DatabaseFits, s1' = s1
  PROVE  Database!Rows' = Database!Rows /\ Database!HistoryIsTrue'
BY DEF DatabaseFits, Database!HistoryIsTrue, Database!WithNames, Database!Rows

(* A step of one opener that finds something out.                           *)
OpenerStep(p) ==
  \/ Database!CheckCompatible(p) \/ Database!CheckIdentity(p) \/ Database!ListApplied(p)
  \/ Database!MigrationThere(p) \/ Database!AllApplied(p) \/ Database!CheckAgain(p)
  \/ Database!CheckShape(p) \/ Database!Close(p) \/ Database!Gone(p)

LEMMA OpenerStays ==
  ASSUME DatabaseFits, NEW p \in Two, OpenerStep(p)
  PROVE  /\ s1' = s1 /\ s2' = s2 /\ s3' = s3 /\ s4' = s4
         /\ s7' = s7 /\ s8' = s8 /\ s9' = s9 /\ s10' = s10
         /\ s5' \in [Two -> Database!Places] /\ s6' \in [Two -> Nat]
         /\ \A q \in Two : q # p => s5'[q] = s5[q] /\ s6'[q] = s6[q]
<1>1. s5 \in [Two -> Database!Places] /\ s6 \in [Two -> Nat] /\ Len(Database!Rows) \in Nat
  BY RowsType DEF DatabaseFits, Database!DatabaseTypes
<1>2. \E there \in Database!Places : s5' = [s5 EXCEPT ![p] = there]
  BY DEF OpenerStep, Database!CheckCompatible, Database!CheckIdentity, Database!ListApplied,
    Database!MigrationThere, Database!AllApplied, Database!CheckAgain, Database!CheckShape,
    Database!Close, Database!Gone, Database!Check, Database!Go, Database!Places
<1>3. s6' = s6 \/ s6' = [s6 EXCEPT ![p] = Len(Database!Rows) + 1]
  BY DEF OpenerStep, Database!CheckCompatible, Database!CheckIdentity, Database!ListApplied,
    Database!MigrationThere, Database!AllApplied, Database!CheckAgain, Database!CheckShape,
    Database!Close, Database!Gone, Database!Check
<1>4. /\ s1' = s1 /\ s2' = s2 /\ s3' = s3 /\ s4' = s4
      /\ s7' = s7 /\ s8' = s8 /\ s9' = s9 /\ s10' = s10
  BY DEF OpenerStep, Database!CheckCompatible, Database!CheckIdentity, Database!ListApplied,
    Database!MigrationThere, Database!AllApplied, Database!CheckAgain, Database!CheckShape,
    Database!Close, Database!Gone, Database!Check, Database!readerVars
<1> QED
  BY <1>1, <1>2, <1>3, <1>4

(* Of the second check of identity the version is known that no row can     *)
(* have been given by another build.                                        *)
LEMMA OpenerFinds ==
  ASSUME DatabaseFits, NEW p \in Two, OpenerStep(p)
  PROVE  Database!OpenerFits(p)'
<1> DEFINE rows == Database!Rows  b == s4[p]
<1>1. /\ s5 \in [Two -> Database!Places] /\ s6 \in [Two -> Nat] /\ b \in Builds
      /\ rows \in Seq(HistoryRows) /\ Len(rows) \in Nat /\ Current[b] \in Nat
  BY RowsType, DatabaseAssumption DEF DatabaseFits, Database!DatabaseTypes
<1>2. s1' = s1 /\ s4' = s4 /\ Database!Rows' = rows
  BY OpenerStays, SameLog
<1>3. Database!OpenerFits(p) /\ History(rows)
  BY DEF DatabaseFits, Database!OpenersFit, Database!HistoryIsTrue, History
<1>4. ASSUME s5'[p] \notin {"migrating", "migrated", "verified"}
      PROVE  Database!OpenerFits(p)'
  BY <1>4 DEF Database!OpenerFits
<1>5. ASSUME Database!ListApplied(p)
      PROVE  Database!OpenerFits(p)'
  <2>1. s5'[p] \in {"migrating", "closing"} /\ s6'[p] = Len(rows) + 1
    BY <1>1, <1>5 DEF Database!ListApplied, Database!Go
  <2> QED
    BY <1>1, <1>2, <2>1 DEF Database!OpenerFits
<1>6. ASSUME Database!AllApplied(p)
      PROVE  Database!OpenerFits(p)'
  <2>1. s5[p] = "migrating" /\ s5'[p] = "migrated" /\ s6[p] > Current[b]
    BY <1>1, <1>6 DEF Database!AllApplied, Database!Go
  <2>2. Len(rows) >= Current[b]
    BY <1>1, <1>3, <2>1 DEF Database!OpenerFits
  <2> QED
    BY <1>2, <2>1, <2>2 DEF Database!OpenerFits
<1>7. ASSUME Database!CheckAgain(p), s5'[p] = "verified"
      PROVE  Database!OpenerFits(p)'
  <2>1. s5[p] = "migrated" /\ Database!Identified(b, rows)
    BY <1>1, <1>7 DEF Database!CheckAgain, Database!Check, Database!Go
  <2>2. Len(rows) >= Current[b]
    BY <1>3, <2>1 DEF Database!OpenerFits
  <2>3. ASSUME NEW v \in 1 .. Current[b], v >= Identity
        PROVE  rows[v].sql = Database!Sql(b, v)
    <3>1. v \in DOMAIN rows /\ Len(rows) >= Identity
      BY <1>1, <2>2, <2>3, DatabaseAssumption
    <3>2. Database!WithNames(rows) /\ rows[v].sha = Database!Sql(b, v)
      BY <1>1, <2>1, <3>1, DatabaseAssumption DEF Database!Identified
    <3> QED
      BY <1>3, <2>3, <3>1, <3>2 DEF History
  <2> QED
    BY <1>2, <1>7, <2>2, <2>3 DEF Database!OpenerFits, Database!Sql, Database!Main
<1>8. s5'[p] \in {"migrating", "migrated", "verified"} =>
        \/ Database!ListApplied(p) \/ Database!AllApplied(p)
        \/ Database!CheckAgain(p) /\ s5'[p] = "verified"
  BY <1>1 DEF OpenerStep, Database!CheckCompatible, Database!CheckIdentity,
    Database!MigrationThere, Database!CheckShape, Database!AllApplied, Database!CheckAgain,
    Database!Close, Database!Gone, Database!Check, Database!Go
<1> QED
  BY <1>4, <1>5, <1>6, <1>7, <1>8

LEMMA OpenerStepFits ==
  ASSUME DatabaseFits, NEW p \in Two, OpenerStep(p)
  PROVE  DatabaseFits'
<1>1. /\ s1' = s1 /\ s2' = s2 /\ s3' = s3 /\ s4' = s4
      /\ s7' = s7 /\ s8' = s8 /\ s9' = s9 /\ s10' = s10
      /\ s5' \in [Two -> Database!Places] /\ s6' \in [Two -> Nat]
      /\ \A q \in Two : q # p => s5'[q] = s5[q] /\ s6'[q] = s6[q]
      /\ Database!Rows' = Database!Rows
  BY OpenerStays, SameLog
<1>2. Database!DatabaseTypes'
  BY <1>1 DEF DatabaseFits, Database!DatabaseTypes
<1>3. Database!FilesFit' /\ Database!CopiesFit'
  BY <1>1 DEF DatabaseFits, Database!FilesFit, Database!CopiesFit, Database!Older,
    Database!Whole, Database!Found, Database!Empty
<1>4. ASSUME NEW q \in Two, q # p
      PROVE  Database!OpenerFits(q)'
  BY <1>1, <1>4 DEF DatabaseFits, Database!OpenersFit, Database!OpenerFits, Database!Sql, Database!Main
<1>5. Database!OpenersFit'
  BY <1>4, OpenerFinds DEF Database!OpenersFit
<1> QED
  BY <1>1, <1>2, <1>3, <1>5, SameLog DEF DatabaseFits

(* A step that moves pages from the WAL to the database file, or empties    *)
(* the WAL.                                                                 *)
FileStep(p) == Database!Checkpoint(p) \/ Database!Copied(p) \/ Database!Truncate(p)

LEMMA FileStays ==
  ASSUME DatabaseFits, NEW p \in Two, FileStep(p)
  PROVE  /\ s1' = s1 /\ s4' = s4 /\ s6' = s6
         /\ s7' = s7 /\ s8' = s8 /\ s9' = s9 /\ s10' = s10
         /\ s5' \in [Two -> Database!Places]
         /\ s5'[p] \notin {"migrating", "migrated", "verified"}
         /\ \A q \in Two : q # p => s5'[q] = s5[q]
<1>1. s5 \in [Two -> Database!Places]
  BY DEF DatabaseFits, Database!DatabaseTypes
<1>2. \E there \in {"copying", "copied", "gone"} : s5' = [s5 EXCEPT ![p] = there]
  BY DEF FileStep, Database!Checkpoint, Database!Copied, Database!Truncate, Database!Go
<1>3. /\ s1' = s1 /\ s4' = s4 /\ s6' = s6
      /\ s7' = s7 /\ s8' = s8 /\ s9' = s9 /\ s10' = s10
  BY DEF FileStep, Database!Checkpoint, Database!Copied, Database!Truncate, Database!readerVars
<1> QED
  BY <1>1, <1>2, <1>3 DEF Database!Places

LEMMA FilesMove ==
  ASSUME DatabaseFits, NEW p \in Two, FileStep(p)
  PROVE  /\ s2' \in Database!Extents /\ s3' \in Database!Extents
         /\ Database!FilesFit' /\ Database!Older(s2, s2')
<1>1. /\ s2 \in Database!Extents /\ s3 \in Database!Extents /\ Len(s1) \in Nat
      /\ s2.from \in Nat /\ s2.upto \in Nat /\ s3.from \in Nat /\ s3.upto \in Nat
  BY RowsType DEF DatabaseFits, Database!DatabaseTypes, Database!Extents
<1>2. Database!FilesFit /\ s1' = s1
  BY FileStays DEF DatabaseFits
<1>3. CASE Database!Checkpoint(p)
  <2>1. s2' = [s2 EXCEPT !.upto = Len(s1)] /\ s3' = s3 /\ s3 # Database!Empty
    BY <1>3 DEF Database!Checkpoint
  <2>2. s2' \in Database!Extents /\ s2'.from = s2.from /\ s2'.upto = Len(s1)
    BY <1>1, <2>1 DEF Database!Extents
  <2> QED
    BY <1>1, <1>2, <2>1, <2>2 DEF Database!FilesFit, Database!Older, Database!Empty
<1>4. CASE Database!Copied(p)
  <2>1. s2' = [s2 EXCEPT !.from = s2.upto] /\ s3' = s3
    BY <1>4 DEF Database!Copied
  <2>2. s2' \in Database!Extents /\ s2'.from = s2.upto /\ s2'.upto = s2.upto
    BY <1>1, <2>1 DEF Database!Extents
  <2> QED
    BY <1>1, <1>2, <2>1, <2>2 DEF Database!FilesFit, Database!Older, Database!Empty
<1>5. CASE Database!Truncate(p)
  <2>1. s2' = s2 /\ s3' = Database!Empty /\ s2.from = Len(s1)
    BY <1>5 DEF Database!Truncate
  <2> QED
    BY <1>1, <1>2, <2>1 DEF Database!FilesFit, Database!Older, Database!Empty, Database!Extents
<1> QED
  BY <1>3, <1>4, <1>5 DEF FileStep

LEMMA FileStepFits ==
  ASSUME DatabaseFits, NEW p \in Two, FileStep(p)
  PROVE  DatabaseFits'
<1>1. /\ s1' = s1 /\ s4' = s4 /\ s6' = s6
      /\ s7' = s7 /\ s8' = s8 /\ s9' = s9 /\ s10' = s10
      /\ s5' \in [Two -> Database!Places]
      /\ s5'[p] \notin {"migrating", "migrated", "verified"}
      /\ \A q \in Two : q # p => s5'[q] = s5[q]
      /\ Database!Rows' = Database!Rows
  BY FileStays, SameLog
<1>2. /\ s2' \in Database!Extents /\ s3' \in Database!Extents
      /\ Database!FilesFit' /\ Database!Older(s2, s2')
  BY FilesMove
<1>3. Database!DatabaseTypes'
  BY <1>1, <1>2 DEF DatabaseFits, Database!DatabaseTypes
<1>4. Database!OpenersFit'
  <2>1. Database!OpenerFits(p)'
    BY <1>1 DEF Database!OpenerFits
  <2>2. ASSUME NEW q \in Two, q # p
        PROVE  Database!OpenerFits(q)'
    BY <1>1, <2>2 DEF DatabaseFits, Database!OpenersFit, Database!OpenerFits, Database!Sql, Database!Main
  <2> QED
    BY <2>1, <2>2 DEF Database!OpenersFit
<1>5. Database!CopiesFit'
  <2>1. s2 \in Database!Extents /\ s8.db \in Database!Extents
    BY DEF DatabaseFits, Database!DatabaseTypes
  <2>2. Database!Older(s8.db, s2) => Database!Older(s8.db, s2') /\ (s2' = s8.db => s2 = s8.db)
    BY <1>2, <2>1 DEF Database!Older, Database!Extents
  <2> QED
    BY <1>1, <2>2 DEF DatabaseFits, Database!CopiesFit, Database!Whole, Database!Found, Database!Older, Database!Empty
<1> QED
  BY <1>1, <1>2, <1>3, <1>4, <1>5, SameLog DEF DatabaseFits

-----------------------------------------------------------------------------
(* The query                                                                *)

ReaderStep ==
  \/ Database!ReadDatabase \/ Database!ReadWal \/ Database!ReadAgain
  \/ Database!CompareCopies \/ Database!QueryCopy \/ Database!Finish

LEMMA ReaderStays ==
  ASSUME ReaderStep
  PROVE  s1' = s1 /\ s2' = s2 /\ s3' = s3 /\ s4' = s4 /\ s5' = s5 /\ s6' = s6
BY DEF ReaderStep, Database!ReadDatabase, Database!ReadWal, Database!ReadAgain,
  Database!CompareCopies, Database!QueryCopy, Database!Finish, Database!Reads, Database!openerVars

LEMMA CopiesType ==
  ASSUME DatabaseFits, ReaderStep
  PROVE  /\ s8' \in [db : Database!Extents, wal : Database!Extents]
         /\ s9' \in Database!Extents /\ s10' \in Nat
<1>1. /\ s8 \in [db : Database!Extents, wal : Database!Extents] /\ s9 \in Database!Extents
      /\ s10 \in Nat /\ s2 \in Database!Extents /\ s3 \in Database!Extents /\ Len(s1) \in Nat
  BY RowsType DEF DatabaseFits, Database!DatabaseTypes
<1> QED
  BY <1>1 DEF ReaderStep, Database!ReadDatabase, Database!ReadWal, Database!ReadAgain,
    Database!CompareCopies, Database!QueryCopy, Database!Finish

(* Each reading of the query leaves the copies fitting.                     *)
LEMMA CopiesStayFit ==
  ASSUME DatabaseFits, ReaderStep
  PROVE  Database!CopiesFit'
<1>1. /\ s8 \in [db : Database!Extents, wal : Database!Extents] /\ s9 \in Database!Extents
      /\ s10 \in Nat /\ s2 \in Database!Extents /\ s3 \in Database!Extents /\ Len(s1) \in Nat
      /\ s2.from \in Nat /\ s2.upto \in Nat /\ s3.from \in Nat /\ s3.upto \in Nat
  BY RowsType DEF DatabaseFits, Database!DatabaseTypes, Database!Extents
<1>2. Database!CopiesFit /\ Database!FilesFit
  BY DEF DatabaseFits
<1>3. s1' = s1 /\ s2' = s2 /\ s3' = s3
  BY ReaderStays
<1>4. CASE Database!ReadDatabase
  <2>1. s7' = "wal" /\ s8' = [s8 EXCEPT !.db = s2]
    BY <1>4 DEF Database!ReadDatabase, Database!Reads
  <2>2. s8'.db = s2
    BY <1>1, <2>1
  <2> QED
    BY <1>1, <1>3, <2>1, <2>2 DEF Database!CopiesFit, Database!Older
<1>5. CASE Database!ReadWal
  <2>1. s7 = "wal" /\ s7' = "again" /\ s8' = [s8 EXCEPT !.wal = s3]
    BY <1>5 DEF Database!ReadWal, Database!Reads
  <2>2. s8'.db = s8.db /\ s8'.wal = s3
    BY <1>1, <2>1
  <2>3. s2 = s8.db => Database!Whole'
    BY <1>1, <1>2, <2>2 DEF Database!Whole, Database!FilesFit, Database!Empty
  <2> QED
    BY <1>2, <1>3, <2>1, <2>2, <2>3 DEF Database!CopiesFit, Database!Older
<1>6. CASE Database!ReadAgain
  <2>1. /\ s8' = s8 /\ s10' = s10 /\ s9' = s2
        /\ \/ s7 = "again" /\ s7' = "compare"
           \/ s7 = "queried" /\ s7' = "finish"
    BY <1>6 DEF Database!ReadAgain, Database!Reads
  <2> QED
    BY <1>2, <1>3, <2>1 DEF Database!CopiesFit, Database!Older, Database!Whole, Database!Found, Database!Empty
<1>7. CASE Database!CompareCopies
  <2>1. /\ s7 = "compare" /\ s8' = s8 /\ s9' = s9 /\ s10' = Len(s1)
        /\ s7' = "failed" \/ (s7' = "query" /\ s8.db = s9 /\ s8.wal = s3)
    BY <1>7 DEF Database!CompareCopies, Database!Reads, Database!Same
  <2>2. s8.db = s9 => Database!Whole
    BY <1>2, <2>1 DEF Database!CopiesFit
  <2>3. s2 = s8.db /\ s8.wal = s3 => Database!Found >= Len(s1)
    BY <1>1, <1>2 DEF Database!Found, Database!FilesFit, Database!Empty
  <2>4. Database!Older(s8.db, s2)
    BY <1>2, <2>1 DEF Database!CopiesFit
  <2> QED
    BY <1>3, <2>1, <2>2, <2>3, <2>4 DEF Database!CopiesFit, Database!Older, Database!Whole, Database!Found, Database!Empty
<1>8. CASE Database!QueryCopy
  <2>1. /\ s7 = "query" /\ s8' = s8 /\ s9' = s9 /\ s10' = s10
        /\ s7' \in {"failed", "queried"}
    BY <1>8 DEF Database!QueryCopy, Database!Reads
  <2> QED
    BY <1>2, <1>3, <2>1 DEF Database!CopiesFit, Database!Older, Database!Whole, Database!Found, Database!Empty
<1>9. CASE Database!Finish
  <2>1. /\ s7 = "finish" /\ s8' = s8 /\ s9' = s9 /\ s10' = s10
        /\ s7' = "failed" \/ (s7' = "answered" /\ s8.db = s9)
    BY <1>9 DEF Database!Finish, Database!Reads, Database!Same
  <2> QED
    BY <1>2, <1>3, <2>1 DEF Database!CopiesFit, Database!Older, Database!Whole, Database!Found, Database!Empty
<1> QED
  BY <1>4, <1>5, <1>6, <1>7, <1>8, <1>9 DEF ReaderStep

LEMMA ReaderStepFits ==
  ASSUME DatabaseFits, ReaderStep
  PROVE  DatabaseFits'
<1>1. /\ s1' = s1 /\ s2' = s2 /\ s3' = s3 /\ s4' = s4 /\ s5' = s5 /\ s6' = s6
      /\ Database!Rows' = Database!Rows
  BY ReaderStays, SameLog
<1>2. Database!DatabaseTypes'
  BY <1>1, CopiesType DEF DatabaseFits, Database!DatabaseTypes
<1>3. Database!FilesFit' /\ Database!OpenersFit'
  BY <1>1 DEF DatabaseFits, Database!FilesFit, Database!Empty, Database!OpenersFit,
    Database!OpenerFits, Database!Sql, Database!Main
<1> QED
  BY <1>1, <1>2, <1>3, CopiesStayFit, SameLog DEF DatabaseFits

-----------------------------------------------------------------------------
(* The invariant of the state database, and what follows                    *)

LEMMA DatabaseStepFits ==
  ASSUME DatabaseFits, Database!DatabaseNext
  PROVE  DatabaseFits'
<1>1. \/ \E p \in Two : Database!ApplyMigration(p) \/ Database!Write(p) \/ OpenerStep(p) \/ FileStep(p)
      \/ ReaderStep
  BY DEF Database!DatabaseNext, OpenerStep, FileStep, ReaderStep
<1> QED
  BY <1>1, MigrationFits, WriteFits, OpenerStepFits, FileStepFits, ReaderStepFits

(* Whoever passes the last check has found its own statements: those that   *)
(* show in the columns just now, the others when it checked the identity.   *)
LEMMA OpensOnlyItsOwn ==
  ASSUME DatabaseFits, Database!DatabaseNext
  PROVE  Database!OpensItsOwn
<1> SUFFICES ASSUME NEW p \in Two, s5[p] # "open", s5'[p] = "open"
             PROVE  /\ Len(Database!Rows) >= Current[s4[p]]
                    /\ \A v \in 1 .. Current[s4[p]] :
                         v >= Identity \/ v \in Shaped => Database!Rows[v].sql = Database!Sql(s4[p], v)
  BY DEF Database!OpensItsOwn
<1>1. /\ s5 \in [Two -> Database!Places] /\ Current[s4[p]] \in Nat /\ Len(Database!Rows) \in Nat
  BY RowsType, DatabaseAssumption DEF DatabaseFits, Database!DatabaseTypes
<1>2. Database!CheckShape(p)
  <2>1. ASSUME NEW q \in Two, Database!ApplyMigration(q) \/ Database!Write(q)
        PROVE  FALSE
    BY <2>1 DEF Database!ApplyMigration, Database!Write, Database!openerVars
  <2>2. ASSUME NEW q \in Two, FileStep(q)
        PROVE  FALSE
    BY <2>2, <1>1 DEF FileStep, Database!Checkpoint, Database!Copied, Database!Truncate, Database!Go
  <2>3. ~ReaderStep
    BY ReaderStays
  <2>4. ASSUME NEW q \in Two, OpenerStep(q), q # p
        PROVE  FALSE
    BY <2>4, OpenerStays
  <2>5. OpenerStep(p)
    BY <2>1, <2>2, <2>3, <2>4 DEF Database!DatabaseNext, OpenerStep, FileStep, ReaderStep
  <2> QED
    BY <2>5, <1>1 DEF OpenerStep, Database!CheckCompatible, Database!CheckIdentity,
      Database!ListApplied, Database!MigrationThere, Database!AllApplied, Database!CheckAgain,
      Database!Close, Database!Gone, Database!Check, Database!Go
<1>3. s5[p] = "verified" /\ Database!InShape(s4[p], Database!Rows)
  BY <1>1, <1>2 DEF Database!CheckShape, Database!Check, Database!Go
<1>4. Database!OpenerFits(p)
  BY DEF DatabaseFits, Database!OpenersFit
<1> QED
  BY <1>1, <1>3, <1>4 DEF Database!OpenerFits, Database!InShape

DatabaseInv == part = "database" => DatabaseFits

LEMMA DatabaseInductive == PartsSpec => []DatabaseInv
<1>1. PartsInit => DatabaseInv
  BY DatabaseStart, DatabaseFitsAtStart DEF PartsInit, DatabaseInv, DatabaseFits
<1>2. DatabaseInv /\ [PartsNext]_partsVars => DatabaseInv'
  <2>1. ASSUME DatabaseInv, PartsNext
        PROVE  DatabaseInv'
    BY <2>1, PartStays, DatabaseAlone, DatabaseStepFits DEF DatabaseInv
  <2>2. ASSUME DatabaseInv, UNCHANGED partsVars
        PROVE  DatabaseInv'
    <3>1. /\ s1' = s1 /\ s2' = s2 /\ s3' = s3 /\ s4' = s4 /\ s5' = s5 /\ s6' = s6
          /\ s7' = s7 /\ s8' = s8 /\ s9' = s9 /\ s10' = s10 /\ part' = part
      BY <2>2 DEF partsVars
    <3>2. DatabaseFits => DatabaseFits'
      BY <3>1 DEF DatabaseFits, Database!DatabaseTypes, Database!HistoryIsTrue, Database!WithNames,
        Database!Rows, Database!FilesFit, Database!Empty, Database!CopiesFit, Database!Older,
        Database!Whole, Database!Found, Database!OpenersFit, Database!OpenerFits, Database!Sql,
        Database!Main
    <3> QED
      BY <2>2, <3>1, <3>2 DEF DatabaseInv
  <2> QED
    BY <2>1, <2>2
<1> QED
  BY <1>1, <1>2, PTL DEF PartsSpec

(* Processes of any builds that open and migrate the state database at once *)
(* leave a true record of its history, and an answered query has read one   *)
(* committed state, no older than its comparison (StateIsSafe;              *)
(* src/state/db.ts:293, read-snapshot.ts:16).                               *)
THEOREM DatabaseSafe == PartsSpec => []StateIsSafe
<1>1. DatabaseInv => StateIsSafe
  BY DEF DatabaseInv, DatabaseFits, StateIsSafe, Database!CopiesFit, Database!SnapshotIsCommitted
<1> QED
  BY <1>1, DatabaseInductive, PTL

-----------------------------------------------------------------------------
(* A verification run                                                       *)

LEMMA VerificationAlone == part = "verification" /\ PartsNext => Run!RunNext
BY DEF PartsNext, OpenDatabase, InstallHook, SetUpAgent, ChoosePreference,
  FindStateRoot, KeepFindings, SuggestDuplicate, SummariseFindings, GatherContext,
  ReadDiff, ReadDocument, PublishFindings, RecordTelemetry, RunCommand, CheckProtocol,
  ScoreCase, RunEvaluation, RunVerification, Runs, Rest

RunFits == Run!RunTypes /\ Run!OwnerExecutes /\ Run!ProcessesKnown

Turns(r, there, verdict) == s5' = [s5 EXCEPT ![r] = [at |-> there, verdict |-> verdict]]

LEMMA RunnerTurns ==
  ASSUME Run!RunTypes, NEW r \in Two, NEW there
  PROVE  /\ Run!Goto(r, there) => Turns(r, there, s5[r].verdict)
         /\ Run!Ends(r) => Turns(r, "ended", "good")
<1>1. s5 \in [Two -> Run!RunnerStates] /\ s5[r] \in Run!RunnerStates
  BY DEF Run!RunTypes
<1>2. [s5[r] EXCEPT !.at = there] = [at |-> there, verdict |-> s5[r].verdict]
  BY <1>1 DEF Run!RunnerStates
<1> QED
  BY <1>1, <1>2 DEF Run!Goto, Run!Ends, Turns

LEMMA RunnerTurnsBoth ==
  ASSUME Run!RunTypes, NEW r \in Two, NEW there, NEW verdict,
         s5' = [s5 EXCEPT ![r].at = there, ![r].verdict = verdict]
  PROVE  Turns(r, there, verdict)
<1>1. s5 \in [Two -> Run!RunnerStates] /\ s5[r] \in Run!RunnerStates
  BY DEF Run!RunTypes
<1>2. [[s5[r] EXCEPT !.at = there] EXCEPT !.verdict = verdict] = [at |-> there, verdict |-> verdict]
  <2>1. [s5[r] EXCEPT !.at = there] = [at |-> there, verdict |-> s5[r].verdict]
    BY <1>1 DEF Run!RunnerStates
  <2>2. [[at |-> there, verdict |-> s5[r].verdict] EXCEPT !.verdict = verdict]
          = [at |-> there, verdict |-> verdict]
    OBVIOUS
  <2> QED
    BY <2>1, <2>2
<1>3. s5' = [s5 EXCEPT ![r] = [[s5[r] EXCEPT !.at = there] EXCEPT !.verdict = verdict]]
  BY <1>1
<1> QED
  BY <1>2, <1>3 DEF Turns

LEMMA Turned ==
  ASSUME Run!RunTypes, NEW r \in Two, NEW there \in Run!RunnerPlaces, NEW verdict \in Run!Verdicts,
         Turns(r, there, verdict)
  PROVE  /\ s5' \in [Two -> Run!RunnerStates]
         /\ s5'[r].at = there /\ s5'[r].verdict = verdict
         /\ \A q \in Two : q # r => s5'[q] = s5[q]
BY DEF Run!RunTypes, Run!RunnerStates, Turns

LEMMA RunnerType ==
  ASSUME Run!RunTypes, NEW r \in Two
  PROVE  s5[r].at \in Run!RunnerPlaces /\ s5[r].verdict \in Run!Verdicts
BY DEF Run!RunTypes, Run!RunnerStates

LEMMA UnlessType ==
  ASSUME NEW verdict \in Run!Verdicts, NEW ok \in BOOLEAN
  PROVE  /\ Run!Unless(verdict, ok) \in Run!Verdicts
         /\ Run!Unless(verdict, ok) = "good" => verdict = "good" /\ ok
BY DEF Run!Unless, Run!Verdicts

(* Of one runner: its processes are known as long as its verdict is good.   *)
KnownTo(r) ==
  Run!Executing(r) /\ s5[r].verdict = "good" =>
    /\ s5[r].at # "record server" /\ s3["server"] = "ours" => s2["server"].state # "unknown"
    /\ s5[r].at # "record child" /\ s3["child"] = "ours" => s2["child"].state # "unknown"
    /\ s5[r].at \in {"preserve", "complete"} => \A p \in Run!Pids : s3[p] # "ours"

Inside == Run!RunnerPlaces \ {"check", "claim", "ended"}

(* A step of a run that goes on.                                            *)
Worked(r, there, verdict) ==
  /\ Run!Executing(r) /\ Turns(r, there, verdict)
  /\ there \in Inside /\ verdict \in Run!Verdicts
  /\ s1' = s1 /\ s6' = s6
  /\ s2' \in [Run!Pids -> [state : {"unknown", "running", "exited"}, launched : Run!Holders]]
  /\ s3' \in [Run!Pids -> Run!Holders]
LEMMA RunGoesOn ==
  ASSUME RunFits, NEW r \in Two, NEW there, NEW verdict, Worked(r, there, verdict), KnownTo(r)'
  PROVE  RunFits' /\ Run!KeepsVerdict
<1>1. there \in Run!RunnerPlaces /\ verdict \in Run!Verdicts /\ Run!RunTypes
  BY DEF Worked, Inside, RunFits
<1>2. /\ s5' \in [Two -> Run!RunnerStates]
      /\ s5'[r].at = there /\ s5'[r].verdict = verdict
      /\ \A q \in Two : q # r => s5'[q] = s5[q]
  BY <1>1, Turned DEF Worked
<1>3. s1.state = "running" /\ s1.owner = r /\ \A q \in Two : q # r => ~Run!Executing(q)
  BY DEF RunFits, Run!OwnerExecutes, Worked
<1>4. \A q \in Two : q # r => ~Run!Executing(q)'
  BY <1>2, <1>3 DEF Run!Executing
<1>5. Run!RunTypes'
  BY <1>1, <1>2 DEF Worked, Run!RunTypes
<1>6. Run!OwnerExecutes'
  BY <1>3, <1>4 DEF Worked, RunFits, Run!OwnerExecutes
<1>7. Run!ProcessesKnown'
  BY <1>3, <1>4 DEF Worked, RunFits, Run!ProcessesKnown, KnownTo
<1> QED
  BY <1>5, <1>6, <1>7 DEF RunFits, Worked, Run!KeepsVerdict

(* What the next place of a runner asks of its processes.                   *)
Known(there, verdict) ==
  verdict = "good" =>
    /\ there # "record server" /\ s3'["server"] = "ours" => s2'["server"].state # "unknown"
    /\ there # "record child" /\ s3'["child"] = "ours" => s2'["child"].state # "unknown"
    /\ there \in {"preserve", "complete"} => \A p \in Run!Pids : s3'[p] # "ours"
LEMMA KnownThere ==
  ASSUME Run!RunTypes, NEW r \in Two, NEW there, NEW verdict,
         Worked(r, there, verdict), Known(there, verdict)
  PROVE  KnownTo(r)'
<1>1. s5'[r].at = there /\ s5'[r].verdict = verdict
  BY Turned DEF Worked, Inside
<1> QED
  BY <1>1 DEF KnownTo, Known

LEMMA RunWorks ==
  ASSUME RunFits, NEW r \in Two,
         \/ Run!Snapshot(r) \/ Run!StartServer(r) \/ Run!Spawn(r)
         \/ \E p \in Run!Pids : Run!RecordOwned(r, p)
         \/ Run!ChildClosed(r) \/ Run!StopServer(r) \/ Run!RecordStopped(r)
         \/ Run!FeatureThrows(r) \/ Run!Teardown(r) \/ Run!Preserve(r)
  PROVE  RunFits' /\ Run!KeepsVerdict
<1> DEFINE a == s5[r].at
           v == s5[r].verdict
<1> USE DEF Inside, Run!RunnerPlaces
<1>1. Run!RunTypes /\ a \in Run!RunnerPlaces /\ v \in Run!Verdicts
  BY RunnerType DEF RunFits
<1>k. Run!Executing(r) /\ v = "good" =>
        /\ a # "record server" /\ s3["server"] = "ours" => s2["server"].state # "unknown"
        /\ a # "record child" /\ s3["child"] = "ours" => s2["child"].state # "unknown"
        /\ a \in {"preserve", "complete"} => \A p \in Run!Pids : s3[p] # "ours"
  BY DEF RunFits, Run!ProcessesKnown
<1>2. /\ s2 \in [Run!Pids -> [state : {"unknown", "running", "exited"}, launched : Run!Holders]]
      /\ s3 \in [Run!Pids -> Run!Holders]
  BY <1>1 DEF Run!RunTypes
<1>3. SUFFICES \E there, verdict : Worked(r, there, verdict) /\ Known(there, verdict)
  BY <1>1, RunGoesOn, KnownThere
<1>4. CASE Run!Snapshot(r)
  <2>1. CASE Run!At(r, "before") /\ Run!Goto(r, "server")
    <3>1. Turns(r, "server", v)
      BY <1>1, <2>1, RunnerTurns
    <3>2. Worked(r, "server", v) /\ Known("server", v)
      BY <1>1, <1>k, <1>2, <1>4, <2>1, <3>1 DEF Worked, Known, Run!At, Run!Executing, Run!Snapshot
    <3> QED
      BY <3>2
  <2>2. ASSUME Run!At(r, "after"), NEW same \in BOOLEAN,
               s5' = [s5 EXCEPT ![r].at = "teardown", ![r].verdict = Run!Unless(@, same)]
        PROVE  \E there, verdict : Worked(r, there, verdict) /\ Known(there, verdict)
    <3> DEFINE w == Run!Unless(v, same)
    <3>1. Turns(r, "teardown", w)
      BY <1>1, <2>2, RunnerTurnsBoth DEF Run!RunTypes, Run!RunnerStates
    <3>2. w \in Run!Verdicts /\ (w = "good" => v = "good")
      BY <1>1, UnlessType
    <3>3. Worked(r, "teardown", w) /\ Known("teardown", w)
      <4> HIDE DEF w
      <4> QED
        BY <1>1, <1>k, <1>2, <1>4, <2>2, <3>1, <3>2 DEF Worked, Known, Run!At, Run!Executing, Run!Snapshot
    <3> QED
      BY <3>3
  <2> QED
    BY <1>4, <2>1, <2>2 DEF Run!Snapshot
<1>5. CASE Run!StartServer(r)
  <2>1. \E there \in {"record server", "spawn"} : Turns(r, there, v)
                /\ (there = "spawn" => s3' = s3) /\ s3' \in [Run!Pids -> Run!Holders]
                /\ s3'["child"] = s3["child"]
    BY <1>1, <1>2, <1>5, RunnerTurns DEF Run!StartServer, Run!Pids, Run!Holders
  <2> QED
    BY <1>1, <1>k, <1>2, <1>5, <2>1 DEF Worked, Known, Run!At, Run!Executing, Run!StartServer
<1>6. CASE Run!Spawn(r)
  <2>1. \E there \in {"record child", "stop"} : Turns(r, there, v)
                /\ (there = "stop" => s3' = s3) /\ s3' \in [Run!Pids -> Run!Holders]
                /\ s3'["server"] = s3["server"]
    BY <1>1, <1>2, <1>6, RunnerTurns DEF Run!Spawn, Run!Pids, Run!Holders
  <2> QED
    BY <1>1, <1>k, <1>2, <1>6, <2>1 DEF Worked, Known, Run!At, Run!Executing, Run!Spawn
<1>7. ASSUME NEW p \in Run!Pids, Run!RecordOwned(r, p)
      PROVE  \E there, verdict : Worked(r, there, verdict) /\ Known(there, verdict)
  <2>1. CASE p = "server" /\ s5' = [s5 EXCEPT ![r] = [at |-> "spawn", verdict |-> "bad"]] /\ s2' = s2
    <3>1. Worked(r, "spawn", "bad") /\ Known("spawn", "bad")
      BY <1>2, <1>7, <2>1 DEF Worked, Known, Turns, Run!At, Run!Executing, Run!RecordOwned, Run!Verdicts
    <3> QED
      BY <3>1
  <2>2. CASE /\ s2' = [s2 EXCEPT ![p] = [state |-> "running", launched |-> s3[p]]]
             /\ Run!Goto(r, IF p = "server" THEN "spawn" ELSE "wait")
    <3> DEFINE to == IF p = "server" THEN "spawn" ELSE "wait"
    <3>1. Turns(r, to, v)
      BY <1>1, <2>2, RunnerTurns
    <3>2. /\ s2' \in [Run!Pids -> [state : {"unknown", "running", "exited"}, launched : Run!Holders]]
          /\ s2'[p].state = "running" /\ \A q \in Run!Pids : q # p => s2'[q] = s2[q]
      BY <1>2, <2>2
    <3>3. s5[r].at = (IF p = "server" THEN "record server" ELSE "record child")
          /\ s1' = s1 /\ s3' = s3 /\ s6' = s6
      BY <1>7 DEF Run!RecordOwned, Run!At
    <3>4. Worked(r, to, v) /\ Known(to, v)
      BY <1>1, <1>k, <1>2, <3>1, <3>2, <3>3 DEF Worked, Known, Run!Executing, Run!Pids
    <3> QED
      BY <3>4
  <2> QED
    BY <1>7, <2>1, <2>2 DEF Run!RecordOwned
<1>8. ASSUME Run!ChildClosed(r), NEW agrees \in BOOLEAN,
             s5' = [s5 EXCEPT ![r].at = "stop", ![r].verdict = Run!Unless(@, agrees)]
      PROVE  \E there, verdict : Worked(r, there, verdict) /\ Known(there, verdict)
  <2> DEFINE w == Run!Unless(v, agrees)
  <2>1. Turns(r, "stop", w)
    BY ZenonT(40), <1>1, <1>8, RunnerTurnsBoth DEF Run!RunTypes, Run!RunnerStates
  <2>2. w \in Run!Verdicts /\ (w = "good" => v = "good")
    BY <1>1, UnlessType
  <2>3. /\ s2' \in [Run!Pids -> [state : {"unknown", "running", "exited"}, launched : Run!Holders]]
        /\ s2'["child"].state = "exited" /\ s2'["server"] = s2["server"]
    BY <1>2, <1>8 DEF Run!ChildClosed, Run!Pids
  <2>4. Worked(r, "stop", w) /\ Known("stop", w)
    <3> HIDE DEF w
    <3> QED
      BY <1>1, <1>k, <1>2, <1>8, <2>1, <2>2, <2>3 DEF Worked, Known, Run!At, Run!Executing, Run!ChildClosed
  <2> QED
    BY <2>4
<1>9. CASE Run!StopServer(r)
  <2>1. \E there \in {"after", "stopped"} : Turns(r, there, v)
    BY <1>1, <1>9, RunnerTurns DEF Run!StopServer
  <2>2. /\ s3' \in [Run!Pids -> Run!Holders] /\ s3'["child"] = s3["child"]
        /\ s3'["server"] = "ours" => s3["server"] = "ours"
    BY <1>2, <1>9 DEF Run!StopServer, Run!Pids, Run!Holders
  <2> QED
    BY <1>1, <1>k, <1>2, <1>9, <2>1, <2>2 DEF Worked, Known, Run!At, Run!Executing, Run!StopServer
<1>10. CASE Run!RecordStopped(r)
  <2> DEFINE w == IF Run!Alive("server") THEN "bad" ELSE v
  <2>1. Turns(r, "after", w)
    BY <1>1, <1>10, RunnerTurnsBoth DEF Run!RunTypes, Run!RunnerStates, Run!RecordStopped
  <2>2. w \in Run!Verdicts /\ (w = "good" => v = "good" /\ s3["server"] # "ours")
    BY <1>1 DEF Run!Verdicts, Run!Alive
  <2>3. /\ s2' \in [Run!Pids -> [state : {"unknown", "running", "exited"}, launched : Run!Holders]]
        /\ s2'["child"] = s2["child"]
    BY <1>2, <1>10 DEF Run!RecordStopped, Run!Pids
  <2>4. Worked(r, "after", w) /\ Known("after", w)
    <3> HIDE DEF w
    <3> QED
      BY <1>1, <1>k, <1>2, <1>10, <2>1, <2>2, <2>3 DEF Worked, Known, Run!At, Run!Executing, Run!RecordStopped
  <2> QED
    BY <2>4
<1>11. CASE Run!FeatureThrows(r)
  <2> DEFINE to == IF a \in {"spawn", "record child", "wait"} THEN "stop" ELSE "after"
  <2>1. s5' = [s5 EXCEPT ![r].at = to, ![r].verdict = "unknown"]
    <3>1. s5' = [s5 EXCEPT ![r].verdict = "unknown",
                           ![r].at = IF @ \in {"spawn", "record child", "wait"} THEN "stop" ELSE "after"]
      BY <1>11 DEF Run!FeatureThrows
    <3> QED
      BY <1>1, <3>1 DEF Run!RunTypes, Run!RunnerStates
  <2>2. Turns(r, to, "unknown")
    BY <1>1, <2>1, RunnerTurnsBoth
  <2>3. Worked(r, to, "unknown") /\ Known(to, "unknown")
    BY <1>2, <1>11, <2>2 DEF Worked, Known, Run!Executing, Run!FeatureThrows, Run!Verdicts
  <2> QED
    BY <2>3
<1>12. CASE Run!Teardown(r)
  <2> DEFINE gone == \A p \in Run!Pids : s2[p].state # "unknown" => ~Run!Alive(p)
             w == Run!Unless(v, gone)
  <2>1. Turns(r, "preserve", w)
    BY <1>1, <1>12, RunnerTurnsBoth DEF Run!RunTypes, Run!RunnerStates, Run!Teardown
  <2>2. w \in Run!Verdicts /\ (w = "good" => v = "good" /\ gone)
    <3> HIDE DEF gone
    <3> QED
      BY <1>1, Zenon DEF Run!Unless, Run!Verdicts
  <2>3. gone => \A p \in Run!Pids : s3[p] = "ours" => s2[p].state = "unknown"
    BY DEF Run!Alive
  <2>4. Worked(r, "preserve", w) /\ Known("preserve", w)
    <3> HIDE DEF w, gone
    <3> QED
      BY <1>1, <1>k, <1>2, <1>12, <2>1, <2>2, <2>3
      DEF Worked, Known, Run!At, Run!Executing, Run!Teardown, Run!Pids
  <2> QED
    BY <2>4
<1>13. ASSUME Run!Preserve(r), NEW kept \in BOOLEAN,
              s5' = [s5 EXCEPT ![r].at = "complete", ![r].verdict = Run!Unless(@, kept)]
       PROVE  \E there, verdict : Worked(r, there, verdict) /\ Known(there, verdict)
  <2> DEFINE w == Run!Unless(v, kept)
  <2>1. Turns(r, "complete", w)
    BY ZenonT(40), <1>1, <1>13, RunnerTurnsBoth DEF Run!RunTypes, Run!RunnerStates
  <2>2. w \in Run!Verdicts /\ (w = "good" => v = "good")
    BY <1>1, UnlessType
  <2>3. Worked(r, "complete", w) /\ Known("complete", w)
    <3> HIDE DEF w
    <3> QED
      BY <1>1, <1>k, <1>2, <1>13, <2>1, <2>2
      DEF Worked, Known, Run!At, Run!Executing, Run!Preserve
  <2> QED
    BY <2>3
<1>14. Run!ChildClosed(r) => \E there, verdict : Worked(r, there, verdict) /\ Known(there, verdict)
  BY <1>8 DEF Run!ChildClosed
<1>15. Run!Preserve(r) => \E there, verdict : Worked(r, there, verdict) /\ Known(there, verdict)
  BY <1>13 DEF Run!Preserve
<1> QED
  BY <1>4, <1>5, <1>6, <1>7, <1>9, <1>10, <1>11, <1>12, <1>14, <1>15

(* A step that starts no work: another owner's run, or one that is over.    *)
LEMMA RunRests ==
  ASSUME RunFits, NEW r \in Two, s1' = s1, s2' = s2, s3' = s3, s6' = s6,
         s5' \in [Two -> Run!RunnerStates], ~Run!Executing(r)',
         \A q \in Two : q # r => s5'[q] = s5[q]
  PROVE  RunFits' /\ Run!KeepsVerdict
<1>1. \A q \in Two : Run!Executing(q)' => Run!Executing(q) /\ s5'[q] = s5[q]
  BY DEF Run!Executing
<1>2. Run!RunTypes'
  BY DEF RunFits, Run!RunTypes
<1>3. Run!OwnerExecutes'
  BY <1>1 DEF RunFits, Run!OwnerExecutes
<1>4. Run!ProcessesKnown'
  BY <1>1 DEF RunFits, Run!ProcessesKnown
<1> QED
  BY <1>2, <1>3, <1>4 DEF RunFits, Run!KeepsVerdict

(* The executing run ends with a receipt that is final.                     *)
LEMMA RunConcludes ==
  ASSUME RunFits, NEW r \in Two, Run!Executing(r), NEW state \in {"failed", "completed"},
         NEW result \in Run!Results, Run!Update(state, result),
         s2' = s2, s3' = s3, s6' = s6,
         s5' \in [Two -> Run!RunnerStates], ~Run!Executing(r)',
         \A q \in Two : q # r => s5'[q] = s5[q],
         result = "VERIFIED" => state = "completed" /\ \A p \in Run!Pids : s3[p] # "ours"
  PROVE  RunFits' /\ Run!KeepsVerdict
<1>1. /\ s1.state = "running" /\ s1.owner = r /\ s1 \in Run!Receipts
      /\ \A q \in Two : q # r => ~Run!Executing(q)
  BY DEF RunFits, Run!OwnerExecutes, Run!RunTypes
<1>2. /\ s1'.state = state /\ s1'.result = result /\ s1'.owner = r /\ s1' \in Run!Receipts
  BY <1>1 DEF Run!Update, Run!Receipts, Run!States, Run!Terminal
<1>3. \A q \in Two : ~Run!Executing(q)'
  BY <1>1 DEF Run!Executing
<1>4. Run!RunTypes'
  BY <1>2 DEF RunFits, Run!RunTypes
<1>5. Run!OwnerExecutes'
  BY <1>1, <1>2, <1>3 DEF RunFits, Run!OwnerExecutes
<1>6. Run!ProcessesKnown'
  BY <1>2, <1>3 DEF RunFits, Run!ProcessesKnown
<1> QED
  BY <1>1, <1>4, <1>5, <1>6 DEF RunFits, Run!KeepsVerdict, Run!Terminal
LEMMA RunnerStep ==
  ASSUME RunFits, NEW r \in Two,
         Run!Check(r) \/ Run!Claim(r) \/ Run!Preflight(r) \/ Run!Complete(r) \/ Run!Break(r)
  PROVE  RunFits' /\ Run!KeepsVerdict
<1>t. ASSUME NEW there \in Run!RunnerPlaces, Turns(r, there, s5[r].verdict)
      PROVE  /\ s5' \in [Two -> Run!RunnerStates] /\ s5'[r].at = there
             /\ \A q \in Two : q # r => s5'[q] = s5[q]
  BY <1>t, RunnerType, Turned DEF RunFits
<1> USE DEF Inside, Run!RunnerPlaces
<1>1. Run!RunTypes /\ s5[r].at \in Run!RunnerPlaces /\ s5[r].verdict \in Run!Verdicts
  BY RunnerType DEF RunFits
<1>2. "good" \in Run!Verdicts /\ {"INCONCLUSIVE", "VERIFIED", "NOT VERIFIED"} \subseteq Run!Results
  BY DEF Run!Verdicts, Run!Results
<1>3. Run!Ends(r) => /\ s5' \in [Two -> Run!RunnerStates] /\ ~Run!Executing(r)'
                     /\ \A q \in Two : q # r => s5'[q] = s5[q]
  BY <1>1, <1>2, RunnerTurns, Turned DEF Run!Executing
<1>4. CASE Run!Check(r)
  <2>1. \E there \in {"claim", "ended"} : Turns(r, there, s5[r].verdict)
    BY <1>1, <1>4, RunnerTurns DEF Run!Check
  <2>2. s5' \in [Two -> Run!RunnerStates] /\ ~Run!Executing(r)' /\ \A q \in Two : q # r => s5'[q] = s5[q]
    BY <2>1, <1>t DEF Run!Executing
  <2> QED
    BY <1>4, <2>2, RunRests DEF Run!Check
<1>5. CASE Run!Claim(r)
  <2>1. CASE s1.state = "created"
    <3>1. Turns(r, "preflight", s5[r].verdict)
      BY <1>1, <1>5, <2>1, RunnerTurns DEF Run!Claim
    <3>2. /\ s5' \in [Two -> Run!RunnerStates] /\ s5'[r].at = "preflight"
          /\ \A q \in Two : q # r => s5'[q] = s5[q]
      BY <3>1, <1>t
    <3>3. /\ s1' = [s1 EXCEPT !.state = "running", !.owner = r] /\ s1 \in Run!Receipts
          /\ s2' = s2 /\ s3' = s3 /\ s6' = s6
      BY <1>5, <2>1 DEF Run!Claim, RunFits, Run!RunTypes
    <3>4. /\ s1'.state = "running" /\ s1'.owner = r /\ s1'.result = s1.result /\ s1' \in Run!Receipts
      BY <3>3 DEF Run!Receipts, Run!States
    <3>5. /\ \A q \in Two : ~Run!Executing(q)
          /\ \A p \in Run!Pids : s3[p] = "unborn"
          /\ s1.result # "VERIFIED"
          /\ \A c \in Cleaners : s6[c].at \notin {"find owner", "abandon"}
      BY <2>1 DEF RunFits, Run!OwnerExecutes, Run!ProcessesKnown
    <3>6. Run!RunTypes'
      BY <3>2, <3>3, <3>4 DEF RunFits, Run!RunTypes
    <3>7. Run!OwnerExecutes'
      BY <3>2, <3>3, <3>4, <3>5 DEF Run!OwnerExecutes, Run!Executing
    <3>8. Run!ProcessesKnown'
      BY <3>2, <3>3, <3>4, <3>5 DEF Run!ProcessesKnown, Run!Executing, Run!Pids
    <3> QED
      BY <2>1, <3>6, <3>7, <3>8 DEF RunFits, Run!KeepsVerdict, Run!Terminal
  <2> QED
    BY <1>3, <1>5, <2>1, RunRests DEF Run!Claim
<1>6. CASE Run!Preflight(r)
  <2>1. CASE Run!Goto(r, "before") /\ s1' = s1
    <3>1. Turns(r, "before", s5[r].verdict)
      BY <1>1, <2>1, RunnerTurns
    <3>2. /\ s2 \in [Run!Pids -> [state : {"unknown", "running", "exited"}, launched : Run!Holders]]
          /\ s3 \in [Run!Pids -> Run!Holders]
      BY <1>1 DEF Run!RunTypes
    <3>3. s5[r].at = "preflight" /\ s2' = s2 /\ s3' = s3 /\ s6' = s6
      BY <1>6 DEF Run!Preflight, Run!At
    <3>4. Worked(r, "before", s5[r].verdict)
      BY <1>1, <2>1, <3>1, <3>2, <3>3 DEF Worked, Run!Executing
    <3>5. Known("before", s5[r].verdict)
      BY <3>3 DEF Known, RunFits, Run!ProcessesKnown, Run!Executing
    <3> QED
      BY <1>1, <3>4, <3>5, RunGoesOn, KnownThere
  <2>2. CASE Run!Ends(r) /\ Run!Update("failed", "INCONCLUSIVE")
    <3>1. Run!Executing(r) /\ s2' = s2 /\ s3' = s3 /\ s6' = s6
      BY <1>6 DEF Run!Preflight, Run!At, Run!Executing
    <3> QED
      BY <1>2, <1>3, <2>2, <3>1, RunConcludes
  <2> QED
    BY <1>6, <2>1, <2>2 DEF Run!Preflight
<1>7. CASE Run!Complete(r)
  <2>1. s5[r].at = "complete" /\ Run!Executing(r) /\ Run!Ends(r) /\ s2' = s2 /\ s3' = s3 /\ s6' = s6
    BY <1>7 DEF Run!Complete, Run!At, Run!Executing
  <2>2. \E result \in Run!Results :
          /\ Run!Update("completed", result)
          /\ result = "VERIFIED" => s5[r].verdict = "good"
    BY <1>2, <1>7 DEF Run!Complete
  <2>3. s5[r].verdict = "good" => \A p \in Run!Pids : s3[p] # "ours"
    BY <2>1 DEF RunFits, Run!ProcessesKnown
  <2> QED
    BY <1>3, <2>1, <2>2, <2>3, RunConcludes
<1>8. CASE Run!Break(r)
  <2>1. Run!Executing(r) /\ Run!Ends(r) /\ s2' = s2 /\ s3' = s3 /\ s6' = s6
        /\ (Run!Update("failed", "INCONCLUSIVE") \/ s1' = s1)
    BY <1>8 DEF Run!Break
  <2> QED
    BY <1>2, <1>3, <2>1, RunConcludes, RunRests
<1> QED
  BY <1>4, <1>5, <1>6, <1>7, <1>8

(* What a cleaner may do to the receipt: fail a run whose owner is gone, and*)
(* count one that never began as cleaned.                                   *)
Cleans(c) ==
  /\ s1' \in Run!Receipts /\ s1'.owner = s1.owner
  /\ \/ s1'.state = s1.state /\ s1'.result = s1.result
     \/ /\ s6[c].at = "abandon" /\ s1.state = "running"
        /\ s1'.state = "failed" /\ s1'.result = "INCONCLUSIVE"
     \/ s1.state = "created" /\ s1'.state = "cleaned" /\ s1'.result = s1.result
  /\ s2' = s2 /\ s5' = s5
  /\ s3' \in [Run!Pids -> Run!Holders]
  /\ \A p \in Run!Pids : s3'[p] = s3[p] \/ (s3'[p] = "none" /\ s3[p] # "unborn")
  /\ s6' \in [Cleaners -> Run!CleanerStates]
  /\ \A d \in Cleaners : d # c => s6'[d] = s6[d]
  /\ s6'[c].at = "find owner" => s1.state = "running" /\ s1' = s1
  /\ s6'[c].at = "abandon" =>
       s1' = s1 /\ (s6[c].at = "abandon" \/ (s6[c].at = "find owner" /\ s5[s1.owner].at = "ended"))
LEMMA CleanerKeeps ==
  ASSUME RunFits, NEW c \in Cleaners, Cleans(c)
  PROVE  RunFits' /\ Run!KeepsVerdict
<1>1. Run!RunTypes'
  BY DEF Cleans, RunFits, Run!RunTypes
<1>2. /\ \A r \in Two : Run!Executing(r)' <=> Run!Executing(r)
      /\ s6[c].at = "abandon" => \A r \in Two : ~Run!Executing(r)
      /\ s1.state = "created" => \A r \in Two : ~Run!Executing(r)
  BY DEF Cleans, Run!Executing, RunFits, Run!OwnerExecutes
<1>3. Run!OwnerExecutes'
  <2>1. \A r \in Two : Run!Executing(r)' => s1'.state = "running" /\ s1'.owner = r
    BY <1>2 DEF Cleans, RunFits, Run!OwnerExecutes
  <2>2. s1'.state = "running" => s1'.owner \in Two
    BY DEF Cleans, RunFits, Run!OwnerExecutes
  <2>3. ASSUME NEW d \in Cleaners, s6'[d].at = "find owner"
        PROVE  s1'.state # "created" /\ s1'.owner \in Two
    BY <2>3 DEF Cleans, RunFits, Run!OwnerExecutes
  <2>4. ASSUME NEW d \in Cleaners, s6'[d].at = "abandon"
        PROVE  s1'.state # "created" /\ \A r \in Two : ~Run!Executing(r)'
    <3>1. CASE d # c
      BY <1>2, <2>4, <3>1 DEF Cleans, RunFits, Run!OwnerExecutes
    <3>2. CASE d = c
      BY <1>2, <2>4, <3>2 DEF Cleans, RunFits, Run!OwnerExecutes, Run!Executing
    <3> QED
      BY <3>1, <3>2
  <2> QED
    BY <2>1, <2>2, <2>3, <2>4 DEF Run!OwnerExecutes
<1>4. Run!ProcessesKnown'
  <2>1. s1'.state = "created" => \A p \in Run!Pids : s3'[p] = "unborn"
    BY DEF Cleans, RunFits, Run!ProcessesKnown
  <2>2. \A r \in Two : KnownTo(r)'
    BY <1>2 DEF Cleans, RunFits, Run!ProcessesKnown, KnownTo, Run!Pids
  <2>3. s1'.result = "VERIFIED" => s1'.state = "completed" /\ \A p \in Run!Pids : s3'[p] # "ours"
    BY DEF Cleans, RunFits, Run!ProcessesKnown
  <2> QED
    BY <2>1, <2>2, <2>3 DEF Run!ProcessesKnown, KnownTo
<1> QED
  BY <1>1, <1>3, <1>4 DEF RunFits, Cleans, Run!KeepsVerdict, Run!Terminal

LEMMA CleanerMoves ==
  ASSUME Run!RunTypes, NEW c \in Cleaners, NEW there \in Run!CleanerPlaces, Run!Moves(c, there)
  PROVE  /\ s6' \in [Cleaners -> Run!CleanerStates] /\ s6'[c].at = there
         /\ \A d \in Cleaners : d # c => s6'[d] = s6[d]
<1>1. [Run!Idle EXCEPT !.at = there] = [at |-> there, command |-> "none", seen |-> [p \in Run!Pids |-> "none"]]
  BY DEF Run!Idle
<1>2. [Run!Idle EXCEPT !.at = there] \in Run!CleanerStates
  BY <1>1 DEF Run!CleanerStates, Run!Holders
<1> QED
  BY <1>1, <1>2 DEF Run!RunTypes, Run!Moves

(* A signal only frees PIDs of those it is sent to.                         *)
LEMMA HitsFree ==
  ASSUME Run!RunTypes, NEW pids \in SUBSET Run!Pids, Run!Hits(pids)
  PROVE  /\ s3' \in [Run!Pids -> Run!Holders]
         /\ \A p \in Run!Pids : \/ s3'[p] = s3[p]
                                \/ p \in pids /\ s3'[p] = "none" /\ s3[p] # "unborn"
<1>1. PICK hit \in SUBSET {p \in pids : Run!Alive(p)} :
        s3' = [p \in Run!Pids |-> IF p \in hit THEN "none" ELSE s3[p]]
  BY DEF Run!Hits
<1>2. s3 \in [Run!Pids -> Run!Holders] /\ "none" \in Run!Holders
  BY DEF Run!RunTypes, Run!Holders
<1>3. \A p \in hit : p \in pids /\ s3[p] # "unborn"
  BY DEF Run!Alive
<1> QED
  BY <1>1, <1>2, <1>3

LEMMA CleanerStep ==
  ASSUME RunFits, NEW c \in Cleaners,
         \/ Run!Look(c) \/ Run!Signal(c) \/ Run!Await(c) \/ Run!ReadState(c) \/ Run!FindOwner(c)
         \/ Run!Abandon(c) \/ Run!Mark(c) \/ Run!HelperLooks(c) \/ Run!HelperStops(c)
         \/ Run!HelperRefuses(c) \/ Run!HelperRemoves(c) \/ Run!Finish(c) \/ Run!GiveUp(c)
  PROVE  RunFits' /\ Run!KeepsVerdict
<1>1. /\ Run!RunTypes /\ s1 \in Run!Receipts /\ s3 \in [Run!Pids -> Run!Holders]
      /\ s6 \in [Cleaners -> Run!CleanerStates]
  BY DEF RunFits, Run!RunTypes
<1>2. SUFFICES Cleans(c)
  BY CleanerKeeps
<1> USE DEF Run!CleanerPlaces
<1>3. CASE Run!Look(c)
  <2>1. PICK command \in {"cancel", "cleanup"}, seen \in [Run!Pids -> Run!Holders], there \in {"ended", "signal"} :
          s6' = [s6 EXCEPT ![c] = [command |-> command, seen |-> seen, at |-> there]]
    <3>1. \A p \in Run!Pids :
            (IF s2[p].state = "running" /\ Run!Alive(p) THEN s3[p] ELSE "none") \in Run!Holders
      BY <1>1 DEF Run!Holders
    <3> QED
      BY <1>3, <3>1 DEF Run!Look
  <2>2. [command |-> command, seen |-> seen, at |-> there] \in Run!CleanerStates
    BY DEF Run!CleanerStates
  <2> QED
    BY <1>1, <1>3, <2>1, <2>2 DEF Cleans, Run!Look
<1>4. CASE Run!Signal(c)
  <2>3. /\ s3' \in [Run!Pids -> Run!Holders]
        /\ \A p \in Run!Pids : s3'[p] = s3[p] \/ (s3'[p] = "none" /\ s3[p] # "unborn")
    <3>1. Run!Told(c) \in SUBSET Run!Pids
      BY DEF Run!Told, Run!Pids
    <3> QED
      BY <1>1, <1>4, <3>1, HitsFree DEF Run!Signal
  <2>1. CASE Run!Moves(c, "ended")
    BY <1>1, <1>4, <2>1, <2>3, CleanerMoves DEF Cleans, Run!Signal
  <2>2. CASE s6' = [s6 EXCEPT ![c].at = "await", ![c].seen["server"] = "none"]
    <3>1. /\ s6' \in [Cleaners -> Run!CleanerStates] /\ s6'[c].at = "await"
          /\ \A d \in Cleaners : d # c => s6'[d] = s6[d]
      BY ZenonT(40), <1>1, <2>2 DEF Run!CleanerStates, Run!Holders, Run!Pids
    <3> QED
      BY <1>1, <1>4, <2>3, <3>1 DEF Cleans, Run!Signal
  <2> QED
    BY <1>4, <2>1, <2>2 DEF Run!Signal
<1>5. CASE Run!Await(c) \/ Run!ReadState(c) \/ Run!FindOwner(c) \/ Run!GiveUp(c)
  <2>1. /\ s1' = s1 /\ s2' = s2 /\ s3' = s3 /\ s5' = s5
    BY <1>5 DEF Run!Await, Run!ReadState, Run!FindOwner, Run!GiveUp
  <2>2. \E there \in Run!CleanerPlaces :
          /\ Run!Moves(c, there)
          /\ there = "find owner" => s1.state = "running"
          /\ there = "abandon" => s6[c].at = "find owner" /\ s5[s1.owner].at = "ended"
    BY <1>5 DEF Run!Await, Run!ReadState, Run!FindOwner, Run!GiveUp, Run!Stands, Run!At
  <2> QED
    BY <1>1, <2>1, <2>2, CleanerMoves DEF Cleans
<1>6. CASE Run!Abandon(c) \/ Run!Mark(c) \/ Run!HelperRefuses(c) \/ Run!Finish(c)
  <2>1. /\ s2' = s2 /\ s3' = s3 /\ s5' = s5
        /\ \E there \in Run!CleanerPlaces \ {"find owner", "abandon"} : Run!Moves(c, there)
    BY <1>6 DEF Run!Abandon, Run!Mark, Run!HelperRefuses, Run!Finish
  <2>2. /\ s1' \in Run!Receipts /\ s1'.owner = s1.owner
        /\ \/ s1'.state = s1.state /\ s1'.result = s1.result
           \/ /\ s6[c].at = "abandon" /\ s1.state = "running"
              /\ s1'.state = "failed" /\ s1'.result = "INCONCLUSIVE"
           \/ s1.state = "created" /\ s1'.state = "cleaned" /\ s1'.result = s1.result
    BY <1>1, <1>6 DEF Run!Abandon, Run!Mark, Run!HelperRefuses, Run!Finish, Run!Update, Run!Stands,
                      Run!Receipts, Run!States, Run!Results, Run!Terminal
  <2> QED
    BY <1>1, <2>1, <2>2, CleanerMoves DEF Cleans
<1>7. CASE Run!HelperStops(c)
  <2>1. /\ Run!Moves(c, "killed") /\ s1' = s1 /\ s2' = s2 /\ s5' = s5 /\ Run!Hits({"server"})
    BY <1>7 DEF Run!HelperStops
  <2>2. /\ s3' \in [Run!Pids -> Run!Holders]
        /\ \A p \in Run!Pids : s3'[p] = s3[p] \/ (s3'[p] = "none" /\ s3[p] # "unborn")
    BY <1>1, <2>1, HitsFree DEF Run!Pids
  <2> QED
    BY <1>1, <2>1, <2>2, CleanerMoves DEF Cleans
<1>8. CASE Run!HelperRemoves(c)
  BY <1>1, <1>8, CleanerMoves DEF Cleans, Run!HelperRemoves
<1>9. CASE Run!HelperLooks(c)
  <2>1. /\ s6' \in [Cleaners -> Run!CleanerStates] /\ s6'[c].at = "kill"
        /\ \A d \in Cleaners : d # c => s6'[d] = s6[d]
    <3>1. s6' = [s6 EXCEPT ![c].at = "kill", ![c].seen["server"] = s3["server"]]
          /\ s3["server"] \in Run!Holders
      BY <1>1, <1>9 DEF Run!HelperLooks, Run!Pids
    <3> QED
      BY ZenonT(40), <1>1, <3>1 DEF Run!CleanerStates, Run!Pids
  <2> QED
    BY <1>1, <1>9, <2>1 DEF Cleans, Run!HelperLooks
<1> QED
  BY <1>3, <1>4, <1>5, <1>6, <1>7, <1>8, <1>9

LEMMA WorldStep ==
  ASSUME RunFits, NEW p \in Run!Pids, Run!Exit(p) \/ Run!Reuse(p)
  PROVE  RunFits' /\ Run!KeepsVerdict
<1>1. s1' = s1 /\ s2' = s2 /\ s5' = s5 /\ s6' = s6
  BY DEF Run!Exit, Run!Reuse
<1>2. \E who \in Run!Holders \ {"ours", "unborn"} : s3' = [s3 EXCEPT ![p] = who]
  BY DEF Run!Exit, Run!Reuse, Run!Holders
<1>3. s3[p] # "unborn"
  BY DEF Run!Exit, Run!Reuse
<1>4. /\ s3' \in [Run!Pids -> Run!Holders]
      /\ \A q \in Run!Pids : s3'[q] = s3[q] \/ (q = p /\ s3'[q] # "ours")
  BY <1>2 DEF RunFits, Run!RunTypes
<1>5. Run!RunTypes'
  BY <1>1, <1>4 DEF RunFits, Run!RunTypes
<1>6. Run!OwnerExecutes'
  BY <1>1 DEF RunFits, Run!OwnerExecutes, Run!Executing
<1>7. Run!ProcessesKnown'
  <2>1. s1'.state = "created" => \A q \in Run!Pids : s3'[q] = "unborn"
    BY <1>1, <1>3 DEF RunFits, Run!ProcessesKnown
  <2>2. \A r \in Two : KnownTo(r)'
    BY <1>1, <1>4 DEF RunFits, Run!ProcessesKnown, KnownTo, Run!Pids, Run!Executing
  <2>3. s1'.result = "VERIFIED" => s1'.state = "completed" /\ \A q \in Run!Pids : s3'[q] # "ours"
    BY <1>1, <1>4 DEF RunFits, Run!ProcessesKnown
  <2> QED
    BY <2>1, <2>2, <2>3 DEF Run!ProcessesKnown, KnownTo
<1> QED
  BY <1>1, <1>5, <1>6, <1>7 DEF RunFits, Run!KeepsVerdict

LEMMA RunKeeps ==
  ASSUME RunFits, Run!RunNext
  PROVE  RunFits' /\ Run!KeepsVerdict
BY RunWorks, RunnerStep, CleanerStep, WorldStep DEF Run!RunNext

(* Only the signals of commands and their helper free the PID of a process  *)
(* that is not the run's.                                                   *)
LEMMA OnlySignals ==
  ASSUME RunFits, Run!RunNext, NEW p \in Run!Pids, s3[p] \in {"other", "alike"}, s3'[p] # s3[p]
  PROVE  \E c \in Cleaners : Run!Signal(c) \/ Run!HelperStops(c)
<1>1. s3 \in [Run!Pids -> Run!Holders] /\ s3' # s3
  BY DEF RunFits, Run!RunTypes
<1>2. ASSUME NEW r \in Two
      PROVE  /\ ~Run!StartServer(r) /\ ~Run!Spawn(r) /\ ~Run!StopServer(r)
  BY <1>1 DEF Run!StartServer, Run!Spawn, Run!StopServer, Run!Alive
<1>3. ASSUME NEW q \in Run!Pids
      PROVE  ~Run!Exit(q) /\ ~Run!Reuse(q)
  BY <1>1 DEF Run!Exit, Run!Reuse
<1>4. ASSUME NEW r \in Two
      PROVE  /\ ~Run!Check(r) /\ ~Run!Claim(r) /\ ~Run!Preflight(r) /\ ~Run!Snapshot(r)
             /\ \A q \in Run!Pids : ~Run!RecordOwned(r, q)
             /\ ~Run!ChildClosed(r) /\ ~Run!RecordStopped(r) /\ ~Run!FeatureThrows(r)
             /\ ~Run!Teardown(r) /\ ~Run!Preserve(r) /\ ~Run!Complete(r) /\ ~Run!Break(r)
  BY <1>1 DEF Run!Check, Run!Claim, Run!Preflight, Run!Snapshot, Run!RecordOwned, Run!ChildClosed,
    Run!RecordStopped, Run!FeatureThrows, Run!Teardown, Run!Preserve, Run!Complete, Run!Break
<1>5. ASSUME NEW c \in Cleaners
      PROVE  /\ ~Run!Look(c) /\ ~Run!Await(c) /\ ~Run!ReadState(c) /\ ~Run!FindOwner(c)
             /\ ~Run!Abandon(c) /\ ~Run!Mark(c) /\ ~Run!HelperLooks(c) /\ ~Run!HelperRefuses(c)
             /\ ~Run!HelperRemoves(c) /\ ~Run!Finish(c) /\ ~Run!GiveUp(c)
  BY <1>1 DEF Run!Look, Run!Await, Run!ReadState, Run!FindOwner, Run!Abandon, Run!Mark,
    Run!HelperLooks, Run!HelperRefuses, Run!HelperRemoves, Run!Finish, Run!GiveUp
<1> QED
  BY <1>2, <1>3, <1>4, <1>5 DEF Run!RunNext

(* What the helper has looked at is the server, by its command line.        *)
HelperSaw == \A c \in Cleaners : s6[c].at = "kill" => s6[c].seen["server"] \in {"ours", "alike"}

LEMMA SparesForeign ==
  ASSUME RunFits, HelperSaw, Run!RunNext
  PROVE  Run!ForeignSpared
<1>1. SUFFICES ASSUME NEW p \in Run!Pids, s3[p] \in {"other", "alike"}, s3'[p] # s3[p]
              PROVE  \E c \in Cleaners : s6[c].seen[p] # "none" /\
                       \/ (Run!Signal(c) \/ Run!HelperStops(c)) /\ s6[c].seen[p] # s3[p]
                       \/ s3[p] = "alike" /\
                            (Run!HelperStops(c) \/ (Run!Signal(c) /\ s2[p].launched = "alike"))
  BY DEF Run!ForeignSpared
<1>2. PICK c \in Cleaners : Run!Signal(c) \/ Run!HelperStops(c)
  BY <1>1, OnlySignals
<1>3. Run!RunTypes
  BY DEF RunFits
<1>4. CASE Run!Signal(c)
  <2>1. Run!Told(c) \in SUBSET Run!Pids
    BY DEF Run!Told, Run!Pids
  <2>2. p \in Run!Told(c)
    BY <1>1, <1>3, <1>4, <2>1, HitsFree DEF Run!Signal
  <2>3. s6[c].seen[p] # "none" /\ s6[c].seen[p] # "other" /\ s6[c].seen[p] = s2[p].launched
    BY <2>2 DEF Run!Told, Run!Wrong, Run!SameProcess, Run!Pids
  <2> QED
    BY <1>1, <1>4, <2>3
<1>5. CASE Run!HelperStops(c)
  <2>1. p = "server"
    <3>1. {"server"} \in SUBSET Run!Pids
      BY DEF Run!Pids
    <3> QED
      BY <1>1, <1>3, <1>5, <3>1, HitsFree DEF Run!HelperStops
  <2>2. s6[c].seen[p] \in {"ours", "alike"}
    BY <1>5, <2>1 DEF HelperSaw, Run!HelperStops, Run!Stands
  <2> QED
    BY <1>1, <1>5, <2>2
<1> QED
  BY <1>2, <1>4, <1>5

LEMMA HelperSees ==
  ASSUME RunFits, HelperSaw, Run!RunNext
  PROVE  HelperSaw'
<1>1. s6 \in [Cleaners -> Run!CleanerStates]
  BY DEF RunFits, Run!RunTypes
<1>2. ASSUME NEW c \in Cleaners, NEW there, there # "kill", Run!Moves(c, there)
      PROVE  HelperSaw'
  <2>1. s6'[c].at = there /\ \A d \in Cleaners : d # c => s6'[d] = s6[d]
    BY <1>1, <1>2 DEF Run!Moves, Run!Idle
  <2> QED
    BY <1>2, <2>1 DEF HelperSaw
<1>3. ASSUME s6' = s6
      PROVE  HelperSaw'
  BY <1>3 DEF HelperSaw
<1>4. ASSUME NEW r \in Two,
             \/ Run!Check(r) \/ Run!Claim(r) \/ Run!Preflight(r) \/ Run!Snapshot(r)
             \/ Run!StartServer(r) \/ Run!Spawn(r) \/ \E p \in Run!Pids : Run!RecordOwned(r, p)
             \/ Run!ChildClosed(r) \/ Run!StopServer(r) \/ Run!RecordStopped(r)
             \/ Run!FeatureThrows(r) \/ Run!Teardown(r)
             \/ Run!Preserve(r) \/ Run!Complete(r) \/ Run!Break(r)
      PROVE  HelperSaw'
  BY <1>3, <1>4 DEF Run!Check, Run!Claim, Run!Preflight, Run!Snapshot, Run!StartServer, Run!Spawn,
    Run!RecordOwned, Run!ChildClosed, Run!StopServer, Run!RecordStopped, Run!FeatureThrows,
    Run!Teardown, Run!Preserve, Run!Complete, Run!Break
<1>5. ASSUME NEW p \in Run!Pids, Run!Exit(p) \/ Run!Reuse(p)
      PROVE  HelperSaw'
  BY <1>3, <1>5 DEF Run!Exit, Run!Reuse
<1>6. ASSUME NEW c \in Cleaners,
             \/ Run!Await(c) \/ Run!ReadState(c) \/ Run!FindOwner(c) \/ Run!Abandon(c)
             \/ Run!Mark(c) \/ Run!HelperStops(c) \/ Run!HelperRefuses(c)
             \/ Run!HelperRemoves(c) \/ Run!Finish(c) \/ Run!GiveUp(c)
      PROVE  HelperSaw'
  BY <1>2, <1>6 DEF Run!Await, Run!ReadState, Run!FindOwner, Run!Abandon, Run!Mark, Run!HelperStops,
    Run!HelperRefuses, Run!HelperRemoves, Run!Finish, Run!GiveUp
<1>7. ASSUME NEW c \in Cleaners, Run!Look(c)
      PROVE  HelperSaw'
  <2>1. s6'[c].at # "kill" /\ \A d \in Cleaners : d # c => s6'[d] = s6[d]
    BY <1>1, <1>7 DEF Run!Look
  <2> QED
    BY <2>1 DEF HelperSaw
<1>8. ASSUME NEW c \in Cleaners, Run!Signal(c)
      PROVE  HelperSaw'
  <2>1. CASE Run!Moves(c, "ended")
    BY <1>2, <2>1
  <2>2. CASE s6' = [s6 EXCEPT ![c].at = "await", ![c].seen["server"] = "none"]
    <3>1. s6'[c].at = "await" /\ \A d \in Cleaners : d # c => s6'[d] = s6[d]
      BY <1>1, <2>2 DEF Run!CleanerStates
    <3> QED
      BY <3>1 DEF HelperSaw
  <2> QED
    BY <1>8, <2>1, <2>2 DEF Run!Signal
<1>9. ASSUME NEW c \in Cleaners, Run!HelperLooks(c)
      PROVE  HelperSaw'
  <2>1. s6' = [s6 EXCEPT ![c].at = "kill", ![c].seen["server"] = s3["server"]]
        /\ s3["server"] \in {"ours", "alike"}
    BY <1>9 DEF Run!HelperLooks
  <2>2. s6'[c].seen["server"] = s3["server"] /\ \A d \in Cleaners : d # c => s6'[d] = s6[d]
    BY <1>1, <2>1 DEF Run!CleanerStates, Run!Pids
  <2> QED
    BY <2>1, <2>2 DEF HelperSaw
<1> QED
  BY <1>4, <1>5, <1>6, <1>7, <1>8, <1>9 DEF Run!RunNext

LEMMA RunStarts ==
  ASSUME Run!RunInit
  PROVE  RunFits
<1>1. Run!RunTypes
  <2>1. s1 \in Run!Receipts
    BY DEF Run!RunInit, Run!Receipts, Run!States, Run!Results, Run!Terminal
  <2>2. /\ s2 \in [Run!Pids -> [state : {"unknown", "running", "exited"}, launched : Run!Holders]]
        /\ s3 \in [Run!Pids -> Run!Holders]
    BY DEF Run!RunInit, Run!Holders
  <2>3. s5 \in [Two -> Run!RunnerStates]
    BY DEF Run!RunInit, Run!RunnerStates, Run!RunnerPlaces, Run!Verdicts
  <2>4. s6 \in [Cleaners -> Run!CleanerStates]
    BY DEF Run!RunInit, Run!CleanerStates, Run!CleanerPlaces, Run!Idle, Run!Holders
  <2> QED
    BY <2>1, <2>2, <2>3, <2>4 DEF Run!RunTypes
<1>2. /\ s1.state # "running" /\ s1.result = "INCONCLUSIVE"
      /\ \A r \in Two : ~Run!Executing(r)
      /\ \A p \in Run!Pids : s3[p] = "unborn"
      /\ \A c \in Cleaners : s6[c].at = "idle"
  BY DEF Run!RunInit, Run!Executing, Run!Idle
<1>3. Run!OwnerExecutes
  BY <1>2 DEF Run!OwnerExecutes
<1>4. Run!ProcessesKnown
  BY <1>2 DEF Run!ProcessesKnown
<1> QED
  BY <1>1, <1>3, <1>4 DEF RunFits

LEMMA RunIsSound ==
  ASSUME RunFits
  PROVE  Run!EvidenceIsSound
<1>1. \A q, r \in Two : Run!Executing(q) /\ Run!Executing(r) => q = r
  BY DEF RunFits, Run!OwnerExecutes
<1>2. s1.result = "VERIFIED" => s3["child"] # "ours" /\ s3["server"] # "ours"
  BY DEF RunFits, Run!ProcessesKnown, Run!Pids
<1> QED
  BY <1>1, <1>2, Zenon DEF Run!EvidenceIsSound

RunInv == part = "verification" => RunFits /\ HelperSaw

LEMMA RunInductive == PartsSpec => []RunInv
<1>1. PartsInit => RunInv
  <2>1. Run!RunInit => HelperSaw
    BY DEF Run!RunInit, Run!Idle, HelperSaw
  <2> QED
    BY <2>1, RunStarts DEF PartsInit, RunInv
<1>2. RunInv /\ [PartsNext]_partsVars => RunInv'
  <2>1. ASSUME RunInv, PartsNext
        PROVE  RunInv'
    BY <2>1, PartStays, VerificationAlone, RunKeeps, HelperSees DEF RunInv
  <2>2. ASSUME RunInv, UNCHANGED partsVars
        PROVE  RunInv'
    <3>1. s1' = s1 /\ s2' = s2 /\ s3' = s3 /\ s5' = s5 /\ s6' = s6 /\ part' = part
      BY <2>2 DEF partsVars
    <3>2. RunFits /\ HelperSaw => RunFits' /\ HelperSaw'
      BY <3>1 DEF RunFits, Run!RunTypes, Run!OwnerExecutes, Run!ProcessesKnown, Run!Executing, HelperSaw
    <3> QED
      BY <2>2, <3>1, <3>2 DEF RunInv
  <2> QED
    BY <2>1, <2>2
<1> QED
  BY <1>1, <1>2, PTL DEF PartsSpec

(* However the commands of a verification run race and die, one process at  *)
(* most executes it, and a verified one has left no process of its own      *)
(* (EvidenceIsReal; skills/verify-diffowl/controller/run-command.mjs:107).  *)
THEOREM VerifiedIsSound == PartsSpec => []EvidenceIsReal
<1>1. RunInv => EvidenceIsReal
  BY RunIsSound DEF RunInv, EvidenceIsReal
<1> QED
  BY <1>1, RunInductive, PTL

-----------------------------------------------------------------------------
(* No step of one process or build undoes what belongs to another: a build  *)
(* calls no database open whose history is not its own, the verdict of a    *)
(* finished verification stands, and the signals of a cancel or cleanup end *)
(* a foreign process only if it took the PID over too late to be told       *)
(* (NothingForeignChanged; src/state/db.ts:154, skills/verify-diffowl/      *)
(* controller/commands.mjs:662, 691).                                       *)
THEOREM OthersKeepTheirs == PartsSpec => NothingForeignChanged
<1> DEFINE A == /\ part = "database" => Database!OpensItsOwn
                /\ part = "verification" => Run!KeepsVerdict /\ Run!ForeignSpared
<1>1. ASSUME DatabaseInv, RunInv, PartsNext
      PROVE  A
  <2>1. part = "database" => Database!OpensItsOwn
    BY <1>1, DatabaseAlone, OpensOnlyItsOwn DEF DatabaseInv
  <2>2. part = "verification" => Run!KeepsVerdict /\ Run!ForeignSpared
    BY <1>1, VerificationAlone, RunKeeps, SparesForeign DEF RunInv
  <2> QED
    BY <2>1, <2>2
<1>2. DatabaseInv /\ RunInv /\ [PartsNext]_partsVars => [A]_partsVars
  BY <1>1
<1> HIDE DEF A
<1>3. PartsSpec => [][A]_partsVars
  BY <1>2, DatabaseInductive, RunInductive, PTL DEF PartsSpec
<1> QED
  BY <1>3 DEF A, NothingForeignChanged

-----------------------------------------------------------------------------
(* The hook                                                                 *)

LEMMA InstallationAlone == part = "installation" /\ PartsNext => Installation!InstallationNext
BY DEF PartsNext, OpenDatabase, InstallHook, SetUpAgent, ChoosePreference,
  FindStateRoot, KeepFindings, SuggestDuplicate, SummariseFindings, GatherContext,
  ReadDiff, ReadDocument, PublishFindings, RecordTelemetry, RunCommand, CheckProtocol,
  ScoreCase, RunEvaluation, RunVerification, Runs, Rest

LEMMA LowestExists ==
  ASSUME NEW n \in Nat, NEW S \in SUBSET (1..n)
  PROVE  /\ S = {} => Installation!FirstOf(S) = 0
         /\ S # {} => Installation!FirstOf(S) \in S /\ \A i \in S : Installation!FirstOf(S) <= i
<1>1. CASE S = {}
  BY <1>1 DEF Installation!FirstOf
<1>2. CASE S # {}
  <2> DEFINE f == [i \in 1..n |-> n - i]
  <2>1. IsFiniteSet(S)
    <3>1. IsFiniteSet(1..n)
      BY FS_Interval
    <3> QED
      BY <3>1, FS_Subset
  <2>2. \A i \in S : f[i] \in Nat /\ f[i] = n - i
    OBVIOUS
  <2> HIDE DEF f
  <2>3. PICK m \in S : \A i \in S : f[i] <= f[m]
    BY <1>2, <2>1, <2>2, HighestExists
  <2>4. \A i \in S : m <= i
    BY <2>2, <2>3
  <2> QED
    BY <1>2, <2>4 DEF Installation!FirstOf
<1> QED
  BY <1>1, <1>2

LEMMA IndexIs ==
  ASSUME NEW text, Len(text) \in Nat, NEW l
  PROVE  LET i == Installation!Index(text, l) IN
         /\ i \in 0..Len(text)
         /\ i = 0 <=> \A j \in 1..Len(text) : text[j] # l
         /\ i # 0 => text[i] = l
<1> DEFINE S == {i \in 1..Len(text) : text[i] = l}
<1>1. S \in SUBSET (1..Len(text))
  OBVIOUS
<1>2. Installation!Index(text, l) = Installation!FirstOf(S)
  BY DEF Installation!Index
<1>3. S = {} <=> \A j \in 1..Len(text) : text[j] # l
  OBVIOUS
<1>4. \A j \in S : j \in 1..Len(text) /\ text[j] = l
  OBVIOUS
<1> HIDE DEF S
<1> DEFINE i == Installation!Index(text, l)
<1>5. /\ S = {} => i = 0
      /\ S # {} => i \in S
  BY <1>1, <1>2, LowestExists
<1> HIDE DEF i
<1>6. i \in 0..Len(text) /\ (i = 0 <=> S = {}) /\ (i # 0 => text[i] = l)
  BY <1>4, <1>5
<1> QED
  BY <1>3, <1>6 DEF i

LEMMA EndAfterIs ==
  ASSUME NEW text, Len(text) \in Nat, NEW start \in Nat
  PROVE  LET e == Installation!EndAfter(text, start) IN
         \/ e = 0 /\ \A j \in start + 1..Len(text) : text[j] # "end"
         \/ e \in start + 1..Len(text) /\ text[e] = "end"
<1> DEFINE S == {i \in start + 1..Len(text) : text[i] = "end"}
<1>1. S \in SUBSET (1..Len(text))
  OBVIOUS
<1>2. Installation!EndAfter(text, start) = Installation!FirstOf(S)
  BY DEF Installation!EndAfter
<1>3. /\ \A j \in S : j \in start + 1..Len(text) /\ text[j] = "end"
      /\ S = {} => \A j \in start + 1..Len(text) : text[j] # "end"
  OBVIOUS
<1> HIDE DEF S
<1> QED
  BY <1>1, <1>2, <1>3, LowestExists

LEMMA PartOfText ==
  ASSUME NEW S, NEW s \in Seq(S), NEW m \in 1..Len(s) + 1, NEW n \in m - 1..Len(s)
  PROVE  SubSeq(s, m, n) \in Seq(S)
BY SubSeqProperties

(* What a command makes of a text is a text.                                *)
LEMMA TextsStay ==
  ASSUME NEW text \in Seq(Installation!Lines)
  PROVE  /\ Installation!RemoveManaged(text) \in Seq(Installation!Lines)
         /\ Installation!Uninstalled(text) \in Seq(Installation!Lines)
<1> DEFINE L == Installation!Lines
           start == Installation!Index(text, "start")
           end == Installation!EndAfter(text, start)
           from == (IF end = 0 THEN start ELSE end) + 1
<1>1. Len(text) \in Nat /\ start \in 0..Len(text)
  BY IndexIs
<1>2. end = 0 \/ end \in start + 1..Len(text)
  BY <1>1, EndAfterIs
<1> HIDE DEF start, end
<1>3. start # 0 => SubSeq(text, 1, start - 1) \in Seq(L) /\ SubSeq(text, from, Len(text)) \in Seq(L)
  <2>1. start # 0 => from \in 1..Len(text) + 1 /\ Len(text) \in from - 1..Len(text)
    BY <1>1, <1>2
  <2> HIDE DEF from
  <2>2. start # 0 => SubSeq(text, from, Len(text)) \in Seq(L)
    BY <2>1, PartOfText
  <2>3. start # 0 => 1 \in 1..Len(text) + 1 /\ start - 1 \in 1 - 1..Len(text)
    BY <1>1
  <2> QED
    BY <2>2, <2>3, PartOfText
<1>4. Installation!RemoveManaged(text)
        = IF start = 0 THEN text ELSE SubSeq(text, 1, start - 1) \o SubSeq(text, from, Len(text))
  BY DEF Installation!RemoveManaged, start, end
<1>5. Installation!RemoveManaged(text) \in Seq(L)
  <2> HIDE DEF from
  <2> QED
    BY <1>3, <1>4
<1>6. Installation!NoScript \in Seq(L)
  BY DEF Installation!NoScript, Installation!Lines
<1> QED
  BY <1>5, <1>6 DEF Installation!Uninstalled

LEMMA InstalledStays ==
  ASSUME NEW text \in Seq(Installation!Lines), s5 \in Runtimes
  PROVE  Installation!Installed(text) \in Seq(Installation!Lines)
<1> DEFINE base == IF text = Installation!NoScript THEN <<>> ELSE Installation!RemoveManaged(text)
           top == IF Installation!OnlyShebangs(base) THEN <<"shebang">> ELSE base
<1>1. base \in Seq(Installation!Lines)
  BY TextsStay
<1> HIDE DEF base
<1>2. top \in Seq(Installation!Lines)
  <2>1. <<"shebang">> \in Seq(Installation!Lines)
    BY DEF Installation!Lines
  <2> QED
    BY <1>1, <2>1
<1> HIDE DEF top
<1>3. Installation!Section \in Seq(Installation!Lines)
  BY DEF Installation!Section, Installation!Lines
<1>4. Installation!Installed(text) = top \o Installation!Section
  BY DEF Installation!Installed, base, top
<1> QED
  BY <1>2, <1>3, <1>4

LEMMA InstallationStarts ==
  ASSUME Installation!InstallationInit
  PROVE  Installation!InstallationFits
<1>1. Installation!NoScript \in Seq(Installation!Lines)
  BY DEF Installation!NoScript, Installation!Lines
<1> QED
  BY <1>1, InstallationAssumption DEF Installation!InstallationInit, Installation!InstallationFits,
    Installation!Idle

(* Each step leaves the scripts as they are or writes one that is a text.   *)
LEMMA InstallationKeeps ==
  ASSUME Installation!InstallationFits, Installation!InstallationNext
  PROVE  Installation!InstallationFits'
<1> DEFINE L == Installation!Lines
<1>1. /\ s1 \in BOOLEAN /\ s5 \in Runtimes
      /\ s2 \in [Trees -> Seq(L)]
      /\ DOMAIN s6 = {"at", "tree", "previous"} /\ s6.tree \in Trees /\ s6.previous \in Seq(L)
  BY DEF Installation!InstallationFits
<1>2. \A w \in Trees : Installation!Target(w) \in Trees
  BY InstallationAssumption DEF Installation!Target
<1>3. Installation!NoScript \in Seq(L) /\ <<>> \in Seq(L)
  BY DEF Installation!NoScript, Installation!Lines
<1>4. /\ Installation!Idle.tree \in Trees /\ Installation!Idle.previous \in Seq(L)
      /\ DOMAIN Installation!Idle = {"at", "tree", "previous"}
  BY <1>3, InstallationAssumption DEF Installation!Idle
<1> DEFINE Kept == DOMAIN s6' = {"at", "tree", "previous"} /\ s6'.tree \in Trees /\ s6'.previous \in Seq(L)
           Texts == s2' = s2 \/ \E w \in Trees, t \in Seq(L) : s2' = [s2 EXCEPT ![w] = t]
           Goal == s1' = s1 /\ s5' \in Runtimes /\ Texts /\ Kept
<1> HIDE DEF L
<1>5. ASSUME NEW w \in Trees, Installation!Install(w) \/ Installation!Uninstall(w)
      PROVE  Goal
  <2>1. s1' = s1 /\ s2' = s2 /\ s5' = s5
    BY <1>5 DEF Installation!Install, Installation!Uninstall
  <2>2. PICK there : s6' = [Installation!Idle EXCEPT !.at = there, !.tree = w]
    BY <1>5 DEF Installation!Install, Installation!Uninstall, Installation!Starts
  <2> QED
    BY <1>1, <1>4, <2>1, <2>2
<1>6. ASSUME NEW w \in Trees, \/ Installation!ChangeMode(w) \/ Installation!Occupy(w)
                              \/ Installation!Upgrade
      PROVE  Goal
  BY <1>1, <1>6 DEF Installation!ChangeMode, Installation!Occupy, Installation!Upgrade
<1>7. ASSUME NEW w \in Trees, Installation!AddLine(w) PROVE Goal
  <2>1. PICK line \in UserLines \cup {"shebang"} :
          s2' = [s2 EXCEPT ![w] =
            IF s2[w] = Installation!NoScript THEN <<line>>
            ELSE IF line = "shebang" THEN <<line>> \o s2[w] ELSE Append(s2[w], line)]
    BY <1>1, <1>7 DEF Installation!AddLine
  <2>2. line \in L /\ s2[w] \in Seq(L)
    BY <1>1 DEF L, Installation!Lines
  <2>3. <<line>> \in Seq(L) /\ <<line>> \o s2[w] \in Seq(L) /\ Append(s2[w], line) \in Seq(L)
    BY <2>2
  <2> QED
    BY <1>1, <1>7, <2>1, <2>3 DEF Installation!AddLine
<1>8. ASSUME NEW w \in Trees, Installation!LoseEndMarker(w) PROVE Goal
  <2> DEFINE text == s2[w]
             i == Installation!Index(text, "end")
  <2>1. text \in Seq(L) /\ Len(text) \in Nat
    BY <1>1
  <2>2. i \in 1..Len(text)
    BY <1>8, <2>1, IndexIs DEF Installation!LoseEndMarker
  <2> HIDE DEF i, text
  <2>3. SubSeq(text, 1, i - 1) \in Seq(L) /\ SubSeq(text, i + 1, Len(text)) \in Seq(L)
    <3>1. 1 \in 1..Len(text) + 1 /\ i - 1 \in 1 - 1..Len(text)
      BY <2>1, <2>2
    <3>2. i + 1 \in 1..Len(text) + 1 /\ Len(text) \in (i + 1) - 1..Len(text)
      BY <2>1, <2>2
    <3> QED
      BY <2>1, <3>1, <3>2, PartOfText
  <2>4. Installation!Without(text, i) \in Seq(L)
    BY <2>3 DEF Installation!Without
  <2>5. s2' = [s2 EXCEPT ![w] = Installation!Without(text, i)]
    BY <1>1, <1>8 DEF Installation!LoseEndMarker, text, i
  <2> QED
    BY <1>1, <1>8, <2>4, <2>5 DEF Installation!LoseEndMarker
<1>9. ASSUME \/ Installation!EmptyLauncher \/ Installation!WriteLauncher \/ Installation!ChmodLauncher
      PROVE  Goal
  BY <1>1, <1>9 DEF Installation!EmptyLauncher, Installation!WriteLauncher, Installation!ChmodLauncher,
    Installation!Step
<1>10. ASSUME \/ Installation!ChmodScript \/ Installation!Kill \/ Installation!Unlink
       PROVE  Goal
  BY <1>1, <1>2, <1>3, <1>4, <1>10 DEF Installation!ChmodScript, Installation!Kill, Installation!Unlink,
    Installation!Finishes
<1>11. ASSUME Installation!ReadScript PROVE Goal
  <2> DEFINE h == Installation!Target(s6.tree)
  <2>1. s2[h] \in Seq(L)
    BY <1>1, <1>2
  <2>2. s1' = s1 /\ s2' = s2 /\ s5' = s5
    BY <1>11 DEF Installation!ReadScript
  <2>3. s6' = Installation!Idle \/ \E at : s6' = [s6 EXCEPT !.at = at, !.previous = s2[h]]
    BY <1>11 DEF Installation!ReadScript
  <2> HIDE DEF h
  <2> QED
    BY <1>1, <1>4, <2>1, <2>2, <2>3
<1>12. ASSUME Installation!Truncate \/ Installation!WriteScript
       PROVE  Goal
  <2>1. s1' = s1 /\ s5' = s5 /\ \E at : s6' = [s6 EXCEPT !.at = at]
    BY <1>12 DEF Installation!Truncate, Installation!WriteScript, Installation!Step
  <2>2. \/ s2' = [s2 EXCEPT ![Installation!Target(s6.tree)] = <<>>]
        \/ s2' = [s2 EXCEPT ![Installation!Target(s6.tree)] = Installation!Installed(s6.previous)]
    BY <1>12 DEF Installation!Truncate, Installation!WriteScript
  <2>3. Installation!Installed(s6.previous) \in Seq(L)
    BY <1>1, InstalledStays DEF L
  <2>4. Texts
    BY <1>1, <1>2, <1>3, <2>2, <2>3
  <2>5. Kept
    BY <1>1, <2>1
  <2> QED
    BY <1>1, <2>1, <2>4, <2>5
<1>13. ASSUME Installation!Rewrite
       PROVE  Goal
  <2>1. s1' = s1 /\ s5' = s5 /\ s6' = Installation!Idle
    BY <1>13 DEF Installation!Rewrite, Installation!Finishes
  <2>2. s2' = [s2 EXCEPT ![Installation!Target(s6.tree)] = Installation!Uninstalled(s6.previous)]
    BY <1>13 DEF Installation!Rewrite
  <2>3. Installation!Uninstalled(s6.previous) \in Seq(L)
    BY <1>1, TextsStay DEF L
  <2> QED
    BY <1>1, <1>2, <1>4, <2>1, <2>2, <2>3
<1>14. Goal
  BY <1>5, <1>6, <1>7, <1>8, <1>9, <1>10, <1>11, <1>12, <1>13, InstallationAssumption
  DEF Installation!InstallationNext
<1>15. s2' \in [Trees -> Seq(L)]
  BY <1>1, <1>14
<1> QED
  BY <1>1, <1>14, <1>15 DEF Installation!InstallationFits, Installation!Lines, L

(* The check of hook status agrees with the shell on every text.            *)
LEMMA FreshRuns ==
  ASSUME Installation!InstallationFits
  PROVE  Installation!FreshMeansRuns
<1> SUFFICES ASSUME NEW w \in Trees, Installation!Fresh(w), s1 \/ s3[Home]
             PROVE  s5 \in Installation!Runs(w)
  BY DEF Installation!FreshMeansRuns
<1> DEFINE text == s2[Installation!Target(w)]
           start == Installation!Index(text, "start")
           end == Installation!EndAfter(text, start)
<1>1. /\ s1 \in BOOLEAN /\ s5 \in Runtimes
      /\ text \in Seq(Installation!Lines) /\ Len(text) \in Nat
  BY InstallationAssumption DEF Installation!InstallationFits, Installation!Target
<1>2. /\ start # 0 /\ Installation!Extracted(text) = Installation!Section
      /\ s1 => Installation!FreshLauncher(w)
  BY DEF Installation!Fresh, Installation!Managed
<1>3. start \in 1..Len(text) /\ (end = 0 \/ end \in start + 1..Len(text))
  <2> HIDE DEF text
  <2>1. start \in 1..Len(text)
    BY <1>1, <1>2, IndexIs
  <2> QED
    BY <1>1, <2>1, EndAfterIs
<1> DEFINE l == IF s1 THEN "bridge" ELSE s5
<1>4. end # 0 /\ SubSeq(text, start, end) = <<"start", l, "end">>
  <2>1. Installation!Section = <<"start", l, "end">>
    BY DEF Installation!Section
  <2>2. Installation!Extracted(text) = IF end = 0 THEN <<"none">> ELSE SubSeq(text, start, end)
    BY DEF Installation!Extracted, Installation!NoScript
  <2> HIDE DEF text, start, end, l
  <2>3. <<"none">> # <<"start", l, "end">>
    OBVIOUS
  <2>4. Installation!Extracted(text) = <<"start", l, "end">>
    BY <1>2, <2>1
  <2> QED
    BY <2>2, <2>3, <2>4
<1>5. start + 1 \in 1..Len(text) /\ text[start + 1] = l
  <2> HIDE DEF text, start, end, l
  <2>1. end \in start + 1..Len(text)
    BY <1>3, <1>4
  <2>2. SubSeq(text, start, end)[2] = text[start + 1]
    <3>1. start \in 1..Len(text) + 1 /\ end \in start - 1..Len(text) /\ 2 \in 1..end - start + 1
      BY <1>1, <1>3, <2>1
    <3>2. SubSeq(text, start, end)[2] = text[start + 2 - 1]
      BY <1>1, <3>1, SubSeqProperties
    <3> QED
      BY <1>3, <3>2
  <2> QED
    BY <1>1, <1>3, <1>4, <2>1, <2>2
<1>6. Installation!Index(text, l) # 0
  <2> HIDE DEF text, start, end, l
  <2> QED
    BY <1>1, <1>5, IndexIs
<1>7. CASE ~s1
  BY <1>1, <1>6, <1>7 DEF Installation!Runs, l, text
<1>8. CASE s1
  <2>1. Installation!FreshLauncher(w) /\ Installation!Index(text, "bridge") # 0
    BY <1>2, <1>6, <1>8 DEF l
  <2> QED
    BY <1>1, <1>8, <2>1 DEF Installation!Runs, Installation!FreshLauncher, Installation!LauncherOf
<1> QED
  BY <1>1, <1>7, <1>8

InstallationInv == part = "installation" => Installation!InstallationFits

LEMMA InstallationInductive == PartsSpec => []InstallationInv
<1>1. PartsInit => InstallationInv
  BY InstallationStarts DEF PartsInit, InstallationInv
<1>2. InstallationInv /\ [PartsNext]_partsVars => InstallationInv'
  <2>1. ASSUME InstallationInv, PartsNext
        PROVE  InstallationInv'
    BY <2>1, PartStays, InstallationAlone, InstallationKeeps DEF InstallationInv
  <2>2. ASSUME InstallationInv, UNCHANGED partsVars
        PROVE  InstallationInv'
    <3>1. s1' = s1 /\ s2' = s2 /\ s3' = s3 /\ s4' = s4 /\ s5' = s5 /\ s6' = s6 /\ part' = part
      BY <2>2 DEF partsVars
    <3>2. Installation!InstallationFits => Installation!InstallationFits'
      BY <3>1 DEF Installation!InstallationFits, Installation!Lines
    <3> QED
      BY <2>2, <3>1, <3>2 DEF InstallationInv
  <2> QED
    BY <2>1, <2>2
<1> QED
  BY <1>1, <1>2, PTL DEF PartsSpec

-----------------------------------------------------------------------------
(* The lines of a user in the hook                                          *)

(* The lines of the user in a text are those that each line leaves.         *)
OwnLines == [l \in Installation!Lines |-> IF l \in UserLines THEN <<l>> ELSE <<>>]

LEMMA OwnLinesAre ==
  /\ OwnLines \in [Installation!Lines -> Seq(UserLines)]
  /\ \A l \in Installation!Lines : l \notin UserLines => OwnLines[l] = <<>>
  /\ {"shebang", "start", "end", "none", "bridge"} \cup Runtimes \subseteq Installation!Lines \ UserLines
<1>1. ASSUME NEW l \in UserLines PROVE <<l>> \in Seq(UserLines)
  OBVIOUS
<1>2. <<>> \in Seq(UserLines)
  OBVIOUS
<1> QED
  BY <1>1, <1>2, InstallationAssumption DEF OwnLines, Installation!Lines

LEMMA UsersOnlyIs ==
  ASSUME NEW text \in Seq(Installation!Lines)
  PROVE  Installation!UsersOnly(text) = Spread(text, OwnLines)
<1> DEFINE a == [i \in DOMAIN text |-> IF text[i] \in UserLines THEN <<text[i]>> ELSE <<>>]
           b == [i \in DOMAIN text |-> OwnLines[text[i]]]
<1>1. \A i \in DOMAIN text : text[i] \in Installation!Lines
  OBVIOUS
<1>2. \A i \in DOMAIN text : OwnLines[text[i]] = IF text[i] \in UserLines THEN <<text[i]>> ELSE <<>>
  BY <1>1 DEF OwnLines
<1>3. a = b
  BY <1>2
<1>4. Installation!UsersOnly(text) = Together(a) /\ Spread(text, OwnLines) = Together(b)
  BY DEF Installation!UsersOnly, Installation!Joined, Together, Spread
<1> HIDE DEF a, b
<1> QED
  BY <1>3, <1>4

(* Nothing of the user is in lines of diffowl, and nothing between two texts*)
(* is in neither.                                                           *)
LEMMA NothingOfTheUser ==
  ASSUME NEW text \in Seq(Installation!Lines), \A i \in 1..Len(text) : text[i] \notin UserLines
  PROVE  Installation!UsersOnly(text) = <<>>
<1>1. \A i \in 1..Len(text) : OwnLines[text[i]] = <<>>
  BY OwnLinesAre
<1>2. OwnLines \in [Installation!Lines -> Seq(UserLines)]
  BY OwnLinesAre
<1>3. Spread(text, OwnLines) = <<>>
  BY <1>1, <1>2, SpreadNothing
<1> QED
  BY <1>3, UsersOnlyIs

LEMMA UsersOfBoth ==
  ASSUME NEW a \in Seq(Installation!Lines), NEW b \in Seq(Installation!Lines)
  PROVE  /\ a \o b \in Seq(Installation!Lines)
         /\ Installation!UsersOnly(a) \in Seq(UserLines)
         /\ Installation!UsersOnly(a \o b) = Installation!UsersOnly(a) \o Installation!UsersOnly(b)
<1>1. OwnLines \in [Installation!Lines -> Seq(UserLines)]
  BY OwnLinesAre
<1>2. a \o b \in Seq(Installation!Lines)
  OBVIOUS
<1>3. Spread(a \o b, OwnLines) = Spread(a, OwnLines) \o Spread(b, OwnLines)
  BY <1>1, SpreadOver
<1>4. Spread(a, OwnLines) \in Seq(UserLines)
  BY <1>1, SpreadGrows
<1> QED
  BY <1>2, <1>3, <1>4, UsersOnlyIs

(* A part with nothing of the user can be taken out.                        *)
LEMMA TakenOut ==
  ASSUME NEW a \in Seq(Installation!Lines), NEW b \in Seq(Installation!Lines), NEW c \in Seq(Installation!Lines),
         Installation!UsersOnly(b) = <<>>
  PROVE  Installation!UsersOnly((a \o b) \o c) = Installation!UsersOnly(a \o c)
<1> DEFINE ab == a \o b
           x == Installation!UsersOnly(a)
<1>1. ab \in Seq(Installation!Lines) /\ x \in Seq(UserLines) /\ Installation!UsersOnly(ab) = x \o <<>>
  <2>1. /\ a \o b \in Seq(Installation!Lines) /\ Installation!UsersOnly(a) \in Seq(UserLines)
        /\ Installation!UsersOnly(a \o b) = Installation!UsersOnly(a) \o Installation!UsersOnly(b)
    BY UsersOfBoth
  <2> QED
    BY <2>1
<1>2. x \o <<>> = x
  BY <1>1, ConcatEmptySeq
<1> HIDE DEF ab, x
<1>3. Installation!UsersOnly(ab \o c) = Installation!UsersOnly(ab) \o Installation!UsersOnly(c)
  BY <1>1, UsersOfBoth
<1>4. Installation!UsersOnly(a \o c) = x \o Installation!UsersOnly(c)
  BY UsersOfBoth DEF x
<1> QED
  BY <1>1, <1>2, <1>3, <1>4 DEF ab

(* Removing a section that the user has not written into keeps what is the  *)
(* user's, and leaves no marker.                                            *)
LEMMA RemovalKeeps ==
  ASSUME NEW text \in Seq(Installation!Lines), Installation!WellMarked(text)
  PROVE  LET base == Installation!RemoveManaged(text) IN
         /\ Installation!UsersOnly(base) = Installation!UsersOnly(text)
         /\ \A i \in 1..Len(base) : base[i] \notin {"start", "end"}
<1> DEFINE start == Installation!Index(text, "start")
           end == Installation!EndAfter(text, start)
           j == IF end = 0 THEN start ELSE end
<1>1. Len(text) \in Nat /\ start \in 0..Len(text)
      /\ (start = 0 => \A i \in 1..Len(text) : text[i] # "start") /\ (start # 0 => text[start] = "start")
  BY IndexIs
<1>2. \/ end = 0 /\ \A k \in start + 1..Len(text) : text[k] # "end"
      \/ end \in start + 1..Len(text) /\ text[end] = "end"
  BY <1>1, EndAfterIs
<1>3. /\ \A i, k \in 1..Len(text) : text[i] = "start" /\ text[k] = "start" => i = k
      /\ \A i \in 1..Len(text) :
           text[i] = "end" => i > 2 /\ text[i - 2] = "start" /\ text[i - 1] \notin UserLines
  BY DEF Installation!WellMarked
<1>4. Installation!RemoveManaged(text) =
        IF start = 0 THEN text ELSE SubSeq(text, 1, start - 1) \o SubSeq(text, j + 1, Len(text))
  BY DEF Installation!RemoveManaged
<1> HIDE DEF start, end
<1>5. \A i \in 1..Len(text) : text[i] = "end" => start # 0 /\ i = start + 2 /\ text[start + 1] \notin UserLines
  <2> SUFFICES ASSUME NEW i \in 1..Len(text), text[i] = "end"
               PROVE  start # 0 /\ i = start + 2 /\ text[start + 1] \notin UserLines
    OBVIOUS
  <2>1. i - 2 \in 1..Len(text) /\ text[i - 2] = "start" /\ text[i - 1] \notin UserLines
    BY <1>1, <1>3
  <2>2. start # 0 /\ start = i - 2
    BY <1>1, <1>3, <2>1
  <2> QED
    BY <1>1, <2>1, <2>2
<1>6. CASE start = 0
  BY <1>1, <1>4, <1>5, <1>6
<1>7. CASE start # 0
  <2> DEFINE a == SubSeq(text, 1, start - 1)
             b == SubSeq(text, start, j)
             c == SubSeq(text, j + 1, Len(text))
  <2>0. (end = 0 => j = start) /\ (end # 0 => j = end)
    OBVIOUS
  <2> HIDE DEF j
  <2>1. start \in 1..Len(text) /\ j \in start..Len(text) /\ (j = start \/ j = start + 2)
    <3>1. start \in 1..Len(text)
      BY <1>1, <1>7
    <3>2. CASE end = 0
      BY <1>1, <2>0, <3>1, <3>2
    <3>3. CASE end # 0
      <4>1. end \in start + 1..Len(text) /\ text[end] = "end"
        BY <1>2, <3>3
      <4>2. end \in 1..Len(text)
        BY <1>1, <3>1, <4>1
      <4>3. end = start + 2
        BY <1>5, <4>1, <4>2
      <4> QED
        BY <1>1, <2>0, <3>1, <3>3, <4>1, <4>3
    <3> QED
      BY <3>2, <3>3
  <2>2. InThree(Installation!Lines, text, start, j, a, b, c)
    BY <2>1, ThreeParts
  <2>3. Installation!RemoveManaged(text) = a \o c
    BY <1>4, <1>7
  <2> HIDE DEF a, b, c
  <2>4. \A k \in 1..Len(b) : b[k] \notin UserLines
    <3> SUFFICES ASSUME NEW k \in 1..Len(b) PROVE b[k] \notin UserLines
      OBVIOUS
    <3>1. b[k] = text[(start - 1) + k] /\ (start - 1) + k \in {start, start + 1, start + 2}
          /\ (j = start => (start - 1) + k = start)
      BY <1>1, <2>1, <2>2 DEF InThree
    <3>2. j # start => text[j] = "end" /\ j = start + 2
      BY <1>2, <2>0, <2>1
    <3>3. j # start => text[start + 1] \notin UserLines /\ text[start + 2] = "end"
      BY <1>1, <1>5, <2>1, <3>2
    <3> QED
      BY <1>1, <1>7, <3>1, <3>3, OwnLinesAre
  <2>5. Installation!UsersOnly(b) = <<>>
    BY <2>2, <2>4, NothingOfTheUser DEF InThree
  <2>6. Installation!UsersOnly(a \o c) = Installation!UsersOnly(text)
    BY <2>2, <2>5, TakenOut DEF InThree
  <2>7. ASSUME NEW i \in 1..Len(a \o c) PROVE (a \o c)[i] \notin {"start", "end"}
    <3>1. \E k \in 1..Len(text) : (a \o c)[i] = text[k] /\ (k < start \/ k > j)
      <4>1. Len(a \o c) = Len(a) + Len(c)
            /\ (a \o c)[i] = IF i <= Len(a) THEN a[i] ELSE c[i - Len(a)]
        <5>1. a \in Seq(Installation!Lines) /\ c \in Seq(Installation!Lines)
          BY <2>2 DEF InThree
        <5>2. /\ Len(a \o c) = Len(a) + Len(c)
              /\ \A k \in 1 .. Len(a) + Len(c) : (a \o c)[k] = IF k <= Len(a) THEN a[k] ELSE c[k - Len(a)]
          BY <5>1, ConcatProperties
        <5> QED
          BY <5>1, <5>2
      <4>2. CASE i <= Len(a)
        <5>1. i \in 1 .. start - 1 /\ i \in 1..Len(text) /\ i < start
          BY <1>1, <2>1, <2>2, <4>2 DEF InThree
        <5> QED
          BY <2>2, <4>1, <4>2, <5>1 DEF InThree
      <4>3. CASE ~(i <= Len(a))
        <5>1. i - Len(a) \in 1 .. Len(text) - j /\ j + (i - Len(a)) \in 1..Len(text) /\ j + (i - Len(a)) > j
          BY <1>1, <2>1, <2>2, <4>1, <4>3 DEF InThree
        <5> QED
          BY <2>2, <4>1, <4>3, <5>1 DEF InThree
      <4> QED
        BY <4>2, <4>3
    <3>2. PICK k \in 1..Len(text) : (a \o c)[i] = text[k] /\ (k < start \/ k > j)
      BY <3>1
    <3>3. text[k] # "start"
      BY <1>1, <1>3, <1>7, <2>1, <3>2
    <3>4. text[k] # "end"
      <4>1. SUFFICES ASSUME text[k] = "end" PROVE FALSE
        OBVIOUS
      <4>2. k = start + 2
        BY <1>5, <4>1
      <4>3. j # start
        BY <1>1, <1>2, <2>0, <4>1, <4>2
      <4> QED
        BY <1>1, <2>1, <3>2, <4>2, <4>3
    <3> QED
      BY <3>2, <3>3, <3>4
  <2> QED
    BY <2>3, <2>6, <2>7
<1> QED
  BY <1>6, <1>7

(* What an install and an uninstall make of a text keeps the user's lines   *)
(* and is well marked.                                                      *)
LEMMA UninstalledKeeps ==
  ASSUME NEW text \in Seq(Installation!Lines), Installation!WellMarked(text)
  PROVE  /\ Installation!UsersOnly(Installation!Uninstalled(text)) = Installation!UsersOnly(text)
         /\ Installation!WellMarked(Installation!Uninstalled(text))
<1> DEFINE base == Installation!RemoveManaged(text)
           none == Installation!NoScript
<1>1. /\ base \in Seq(Installation!Lines)
      /\ Installation!UsersOnly(base) = Installation!UsersOnly(text)
      /\ \A i \in 1..Len(base) : base[i] \notin {"start", "end"}
  BY RemovalKeeps, TextsStay
<1>2. Installation!Uninstalled(text) = IF Installation!OnlyShebangs(base) THEN none ELSE base
  BY DEF Installation!Uninstalled
<1> HIDE DEF base
<1>3. Installation!OnlyShebangs(base) => Installation!UsersOnly(base) = <<>>
  <2> HAVE Installation!OnlyShebangs(base)
  <2>1. \A i \in 1..Len(base) : base[i] \notin UserLines
    BY <1>1, OwnLinesAre DEF Installation!OnlyShebangs
  <2> QED
    BY <1>1, <2>1, NothingOfTheUser
<1>4. none \in Seq(Installation!Lines) /\ Len(none) = 1 /\ none[1] = "none"
  BY DEF Installation!NoScript, Installation!Lines
<1> HIDE DEF none
<1>5. Installation!UsersOnly(none) = <<>>
  <2>1. \A i \in 1..Len(none) : none[i] \notin UserLines
    BY <1>4, OwnLinesAre
  <2> QED
    BY <1>4, <2>1, NothingOfTheUser
<1>6. Installation!WellMarked(none) /\ Installation!WellMarked(base)
  BY <1>1, <1>4 DEF Installation!WellMarked
<1> QED
  BY <1>1, <1>2, <1>3, <1>5, <1>6

LEMMA InstalledKeeps ==
  ASSUME NEW text \in Seq(Installation!Lines), Installation!WellMarked(text), s5 \in Runtimes
  PROVE  /\ Installation!UsersOnly(Installation!Installed(text)) = Installation!UsersOnly(text)
         /\ Installation!WellMarked(Installation!Installed(text))
<1> DEFINE base == IF text = Installation!NoScript THEN <<>> ELSE Installation!RemoveManaged(text)
           top == IF Installation!OnlyShebangs(base) THEN <<"shebang">> ELSE base
           end == Installation!Section
           l == IF s1 THEN "bridge" ELSE s5
<1>1. /\ base \in Seq(Installation!Lines)
      /\ Installation!UsersOnly(base) = Installation!UsersOnly(text)
      /\ \A i \in 1..Len(base) : base[i] \notin {"start", "end"}
  <2>1. CASE text = Installation!NoScript
    <3>1. base = <<>> /\ base \in Seq(Installation!Lines) /\ Len(base) = 0
      BY <2>1
    <3>2. text \in Seq(Installation!Lines) /\ \A i \in 1..Len(text) : text[i] \notin UserLines
      BY <2>1, OwnLinesAre DEF Installation!NoScript
    <3> HIDE DEF base
    <3>3. Installation!UsersOnly(base) = <<>>
      <4>1. \A i \in 1..Len(base) : base[i] \notin UserLines
        BY <3>1
      <4> QED
        BY <3>1, <4>1, NothingOfTheUser
    <3>4. Installation!UsersOnly(text) = <<>>
      BY <3>2, NothingOfTheUser
    <3> QED
      BY <3>1, <3>3, <3>4
  <2>2. CASE text # Installation!NoScript
    BY <2>2, RemovalKeeps, TextsStay
  <2> QED
    BY <2>1, <2>2
<1> HIDE DEF base
<1>2. /\ top \in Seq(Installation!Lines)
      /\ Installation!UsersOnly(top) = Installation!UsersOnly(text)
      /\ \A i \in 1..Len(top) : top[i] \notin {"start", "end"}
  <2>1. CASE Installation!OnlyShebangs(base)
    <3>1. top = <<"shebang">> /\ top \in Seq(Installation!Lines) /\ Len(top) = 1 /\ top[1] = "shebang"
      BY <2>1 DEF Installation!Lines
    <3>2. \A i \in 1..Len(base) : base[i] \notin UserLines
      BY <1>1, <2>1, OwnLinesAre DEF Installation!OnlyShebangs
    <3> HIDE DEF top
    <3>3. \A i \in 1..Len(top) : top[i] \notin UserLines
      BY <3>1, OwnLinesAre
    <3>4. Installation!UsersOnly(base) = <<>> /\ Installation!UsersOnly(top) = <<>>
      BY <1>1, <3>1, <3>2, <3>3, NothingOfTheUser
    <3> QED
      BY <1>1, <3>1, <3>4
  <2>2. CASE ~Installation!OnlyShebangs(base)
    BY <1>1, <2>2
  <2> QED
    BY <2>1, <2>2
<1>3. l \in Installation!Lines \ UserLines /\ l \notin {"start", "end"}
  BY InstallationAssumption, OwnLinesAre
<1>4. /\ end \in Seq(Installation!Lines) /\ Len(end) = 3
      /\ end[1] = "start" /\ end[2] = l /\ end[3] = "end"
  BY <1>3, OwnLinesAre DEF Installation!Section
<1>5. Installation!Installed(text) = top \o end
  BY DEF Installation!Installed, base
<1> HIDE DEF top, end, l
<1>6. Installation!UsersOnly(end) = <<>>
  <2>1. \A i \in 1..Len(end) : end[i] \notin UserLines
    BY <1>3, <1>4, OwnLinesAre
  <2> QED
    BY <1>4, <2>1, NothingOfTheUser
<1>7. Installation!UsersOnly(top \o end) = Installation!UsersOnly(text)
  <2>1. /\ Installation!UsersOnly(top) \in Seq(UserLines)
        /\ Installation!UsersOnly(top \o end) = Installation!UsersOnly(top) \o Installation!UsersOnly(end)
    BY <1>2, <1>4, UsersOfBoth
  <2>2. Installation!UsersOnly(top) \o <<>> = Installation!UsersOnly(top)
    BY <2>1, ConcatEmptySeq
  <2> QED
    BY <1>2, <1>6, <2>1, <2>2
<1>8. Installation!WellMarked(top \o end)
  <2> DEFINE t == top \o end
             n == Len(top)
  <2>1. /\ Len(t) = n + 3 /\ n \in Nat
        /\ \A i \in 1 .. n + 3 : t[i] = IF i <= n THEN top[i] ELSE end[i - n]
    <3>1. /\ Len(t) = n + Len(end)
          /\ \A i \in 1 .. n + Len(end) : t[i] = IF i <= n THEN top[i] ELSE end[i - n]
      BY <1>2, <1>4, ConcatProperties
    <3> QED
      BY <1>2, <1>4, <3>1
  <2> HIDE DEF t
  <2>2. \A i \in 1..n : t[i] \notin {"start", "end"}
    BY <1>2, <2>1
  <2>3. t[n + 1] = "start" /\ t[n + 2] = l /\ t[n + 3] = "end"
    <3>1. /\ n + 1 \in 1 .. n + 3 /\ n + 2 \in 1 .. n + 3 /\ n + 3 \in 1 .. n + 3
          /\ ~(n + 1 <= n) /\ ~(n + 2 <= n) /\ ~(n + 3 <= n)
          /\ (n + 1) - n = 1 /\ (n + 2) - n = 2 /\ (n + 3) - n = 3
      BY <2>1
    <3> HIDE DEF n
    <3> QED
      BY <1>4, <2>1, <3>1
  <2>4. \A i \in 1..Len(t) : i \in 1..n \/ i = n + 1 \/ i = n + 2 \/ i = n + 3
    BY <2>1
  <2>5. /\ \A i \in 1..Len(t) : t[i] = "start" => i = n + 1
        /\ \A i \in 1..Len(t) : t[i] = "end" => i = n + 3
    BY <1>3, <2>2, <2>3, <2>4
  <2>6. \A i \in 1..Len(t) : t[i] = "end" => i > 2 /\ t[i - 2] = "start" /\ t[i - 1] \notin UserLines
    BY <1>3, <2>1, <2>3, <2>5
  <2> QED
    BY <2>5, <2>6 DEF Installation!WellMarked, t
<1> QED
  BY <1>5, <1>7, <1>8

(* A line of the user before or behind, and a lost end, leave a text well   *)
(* marked.                                                                  *)
LEMMA LineAdded ==
  ASSUME NEW text \in Seq(Installation!Lines), Installation!WellMarked(text),
         NEW line \in UserLines \cup {"shebang"}
  PROVE  /\ Installation!WellMarked(<<line>>)
         /\ Installation!WellMarked(Append(text, line))
         /\ Installation!WellMarked(<<line>> \o text)
<1>1. line \in Installation!Lines /\ line \notin {"start", "end"}
  BY InstallationAssumption DEF Installation!Lines
<1>2. /\ \A i, k \in 1..Len(text) : text[i] = "start" /\ text[k] = "start" => i = k
      /\ \A i \in 1..Len(text) :
           text[i] = "end" => i > 2 /\ text[i - 2] = "start" /\ text[i - 1] \notin UserLines
  BY DEF Installation!WellMarked
<1> DEFINE n == Len(text)
<1>3. n \in Nat
  OBVIOUS
<1>4. Installation!WellMarked(<<line>>)
  <2> DEFINE t == <<line>>
  <2>1. Len(t) = 1 /\ t[1] = line
    OBVIOUS
  <2> HIDE DEF t
  <2> QED
    BY <1>1, <2>1 DEF Installation!WellMarked, t
<1>5. Installation!WellMarked(Append(text, line))
  <2> DEFINE t == Append(text, line)
  <2>1. Len(t) = n + 1 /\ t[n + 1] = line /\ \A i \in 1..n : t[i] = text[i]
    BY <1>1, AppendProperties
  <2> HIDE DEF t, n
  <2>2. \A i \in 1..Len(t) : t[i] \in {"start", "end"} => i \in 1..n /\ t[i] = text[i]
    BY <1>1, <1>3, <2>1
  <2>3. \A i \in 1..Len(t) : t[i] = "end" => i > 2 /\ t[i - 2] = "start" /\ t[i - 1] \notin UserLines
    <3> SUFFICES ASSUME NEW i \in 1..Len(t), t[i] = "end"
                 PROVE  i > 2 /\ t[i - 2] = "start" /\ t[i - 1] \notin UserLines
      OBVIOUS
    <3>1. i \in 1..n /\ i > 2 /\ text[i - 2] = "start" /\ text[i - 1] \notin UserLines
      BY <1>2, <2>2 DEF n
    <3>2. i - 2 \in 1..n /\ i - 1 \in 1..n
      BY <1>3, <3>1
    <3> QED
      BY <2>1, <3>1, <3>2
  <2> QED
    BY <1>2, <2>2, <2>3 DEF Installation!WellMarked, t, n
<1>6. Installation!WellMarked(<<line>> \o text)
  <2> DEFINE t == <<line>> \o text
  <2>1. Len(t) = n + 1 /\ t[1] = line /\ \A i \in 2 .. n + 1 : t[i] = text[i - 1]
    <3>1. <<line>> \in Seq(Installation!Lines) /\ Len(<<line>>) = 1 /\ <<line>>[1] = line
      BY <1>1
    <3>2. /\ Len(t) = 1 + n
          /\ \A i \in 1 .. 1 + n : t[i] = IF i <= 1 THEN <<line>>[i] ELSE text[i - 1]
      BY <3>1, ConcatProperties
    <3> HIDE DEF t
    <3> QED
      BY <1>3, <3>1, <3>2
  <2> HIDE DEF t, n
  <2>2. \A i \in 1..Len(t) : t[i] \in {"start", "end"} => i - 1 \in 1..n /\ t[i] = text[i - 1]
    BY <1>1, <1>3, <2>1
  <2>3. \A i \in 1..Len(t) : t[i] = "end" => i > 2 /\ t[i - 2] = "start" /\ t[i - 1] \notin UserLines
    <3> SUFFICES ASSUME NEW i \in 1..Len(t), t[i] = "end"
                 PROVE  i > 2 /\ t[i - 2] = "start" /\ t[i - 1] \notin UserLines
      OBVIOUS
    <3> DEFINE j == i - 1
    <3>1. j \in 1..n /\ j > 2 /\ text[j - 2] = "start" /\ text[j - 1] \notin UserLines
      BY <1>2, <2>2 DEF n
    <3>2. i - 2 \in 2 .. n + 1 /\ i - 1 \in 2 .. n + 1 /\ (i - 2) - 1 = j - 2 /\ (i - 1) - 1 = j - 1 /\ i > 2
      BY <1>3, <3>1
    <3> HIDE DEF j
    <3> QED
      BY <2>1, <3>1, <3>2
  <2>4. ASSUME NEW i \in 1..Len(t), NEW k \in 1..Len(t), t[i] = "start", t[k] = "start" PROVE i = k
    <3>1. i - 1 \in 1..n /\ k - 1 \in 1..n /\ text[i - 1] = "start" /\ text[k - 1] = "start"
      BY <2>2, <2>4
    <3>2. i - 1 = k - 1
      BY <1>2, <3>1 DEF n
    <3> QED
      BY <1>3, <3>1, <3>2, <2>1
  <2> QED
    BY <2>3, <2>4 DEF Installation!WellMarked, t
<1> QED
  BY <1>4, <1>5, <1>6

LEMMA EndLost ==
  ASSUME NEW text \in Seq(Installation!Lines), Installation!WellMarked(text),
         NEW e \in 1..Len(text), text[e] = "end"
  PROVE  Installation!WellMarked(Installation!Without(text, e))
<1> DEFINE a == SubSeq(text, 1, e - 1)
           b == SubSeq(text, e, e)
           c == SubSeq(text, e + 1, Len(text))
           n == Len(text)
           t == a \o c
<1>1. /\ \A i, k \in 1..n : text[i] = "start" /\ text[k] = "start" => i = k
      /\ \A i \in 1..n : text[i] = "end" => i > 2 /\ text[i - 2] = "start" /\ text[i - 1] \notin UserLines
  BY DEF Installation!WellMarked
<1>2. n \in Nat /\ e \in e..Len(text)
  OBVIOUS
<1>3. InThree(Installation!Lines, text, e, e, a, b, c)
  BY <1>2, ThreeParts
<1>4. Installation!Without(text, e) = t
  BY DEF Installation!Without
<1> HIDE DEF a, b, c
<1>5. /\ a \in Seq(Installation!Lines) /\ c \in Seq(Installation!Lines)
      /\ Len(a) = e - 1 /\ Len(c) = n - e
      /\ \A k \in 1 .. e - 1 : a[k] = text[k]
      /\ \A k \in 1 .. n - e : c[k] = text[e + k]
  BY <1>3 DEF InThree
<1>6. /\ Len(t) = Len(a) + Len(c)
      /\ \A k \in 1 .. Len(a) + Len(c) : t[k] = IF k <= Len(a) THEN a[k] ELSE c[k - Len(a)]
  BY <1>5, ConcatProperties
<1>7. Len(t) = n - 1 /\ \A k \in 1..Len(t) : (k < e /\ t[k] = text[k]) \/ (k >= e /\ t[k] = text[k + 1])
  <2> HIDE DEF t, n
  <2>1. Len(t) = n - 1
    BY <1>2, <1>5, <1>6
  <2>2. ASSUME NEW k \in 1..Len(t) PROVE (k < e /\ t[k] = text[k]) \/ (k >= e /\ t[k] = text[k + 1])
    <3>1. CASE k < e
      BY <1>2, <1>5, <1>6, <2>1, <3>1
    <3>2. CASE ~(k < e)
      <4>1. k >= e /\ ~(k <= Len(a)) /\ k - Len(a) \in 1 .. n - e /\ e + (k - Len(a)) = k + 1
        BY <1>2, <1>5, <2>1, <3>2
      <4>2. t[k] = c[k - Len(a)]
        BY <1>6, <4>1
      <4>3. c[k - Len(a)] = text[e + (k - Len(a))]
        BY <1>5, <4>1
      <4> QED
        BY <4>1, <4>2, <4>3
    <3> QED
      BY <3>1, <3>2
  <2> QED
    BY <2>1, <2>2
<1> HIDE DEF t
<1>8. \A i \in 1..Len(t) : t[i] # "end"
  <2>1. SUFFICES ASSUME NEW i \in 1..Len(t), t[i] = "end" PROVE FALSE
    OBVIOUS
  <2>2. PICK k \in 1..n : k # e /\ text[k] = "end"
    BY <1>2, <1>7, <2>1
  <2>3. k - 2 \in 1..n /\ e - 2 \in 1..n /\ text[k - 2] = "start" /\ text[e - 2] = "start"
    BY <1>1, <1>2, <2>2
  <2>4. k - 2 = e - 2
    BY <1>1, <2>3
  <2> QED
    BY <1>2, <2>2, <2>4
<1>9. ASSUME NEW i \in 1..Len(t), NEW k \in 1..Len(t), t[i] = "start", t[k] = "start" PROVE i = k
  <2> DEFINE j == IF i < e THEN i ELSE i + 1
             m == IF k < e THEN k ELSE k + 1
  <2>1. /\ i < e => j = i
        /\ i >= e => j = i + 1
        /\ k < e => m = k
        /\ k >= e => m = k + 1
    OBVIOUS
  <2> HIDE DEF j, m
  <2>2. j \in 1..n /\ m \in 1..n /\ text[j] = "start" /\ text[m] = "start"
    <3>1. j \in 1..n /\ text[j] = "start"
      BY <1>2, <1>7, <1>9, <2>1
    <3>2. m \in 1..n /\ text[m] = "start"
      BY <1>2, <1>7, <1>9, <2>1
    <3> QED
      BY <3>1, <3>2
  <2>3. j = m
    BY <1>1, <2>2
  <2> QED
    BY <1>2, <1>7, <2>1, <2>3
<1> QED
  BY <1>4, <1>8, <1>9 DEF Installation!WellMarked

LEMMA MarkersStart ==
  ASSUME Installation!InstallationInit
  PROVE  Installation!MarkersFit
<1>1. Installation!WellMarked(Installation!NoScript)
  <2> DEFINE none == Installation!NoScript
  <2>1. Len(none) = 1 /\ none[1] = "none"
    BY DEF Installation!NoScript
  <2> HIDE DEF none
  <2> QED
    BY <2>1 DEF Installation!WellMarked, none
<1> QED
  BY <1>1 DEF Installation!InstallationInit, Installation!MarkersFit, Installation!Idle

(* Whatever a step writes is well marked, and a command keeps what it read. *)
LEMMA MarkersKeep ==
  ASSUME Installation!InstallationFits, Installation!MarkersFit, Installation!InstallationNext
  PROVE  Installation!MarkersFit'
<1> DEFINE L == Installation!Lines
           Good(t) == Installation!WellMarked(t)
<1>1. /\ s5 \in Runtimes
      /\ s2 \in [Trees -> Seq(L)]
      /\ DOMAIN s6 = {"at", "tree", "previous"} /\ s6.tree \in Trees /\ s6.previous \in Seq(L)
      /\ Good(s6.previous) /\ \A w \in Trees : Good(s2[w])
  BY DEF Installation!InstallationFits, Installation!MarkersFit
<1>2. \A w \in Trees : Installation!Target(w) \in Trees
  BY InstallationAssumption DEF Installation!Target
<1>3. Good(Installation!NoScript) /\ Good(<<>>)
  <2> DEFINE none == Installation!NoScript
  <2>1. Len(none) = 1 /\ none[1] = "none"
    BY DEF Installation!NoScript
  <2> HIDE DEF none
  <2>2. Good(none)
    BY <2>1 DEF Installation!WellMarked
  <2>3. Good(<<>>)
    BY DEF Installation!WellMarked
  <2> QED
    BY <2>2, <2>3 DEF none
<1>4. Installation!Idle.previous = Installation!NoScript /\ DOMAIN Installation!Idle = {"at", "tree", "previous"}
  BY DEF Installation!Idle
<1> HIDE DEF L, Good
<1> DEFINE Marked == Good(s6'.previous)
           Texts == s2' = s2 \/ \E w \in Trees : \E t : Good(t) /\ s2' = [s2 EXCEPT ![w] = t]
           Goal == Texts /\ Marked
<1>5. ASSUME NEW w \in Trees, Installation!Install(w) \/ Installation!Uninstall(w)
      PROVE  Goal
  <2>1. s2' = s2
    BY <1>5 DEF Installation!Install, Installation!Uninstall
  <2>2. PICK there : s6' = [Installation!Idle EXCEPT !.at = there, !.tree = w]
    BY <1>5 DEF Installation!Install, Installation!Uninstall, Installation!Starts
  <2>3. s6'.previous = Installation!NoScript
    BY <1>4, <2>2
  <2> QED
    BY <1>3, <2>1, <2>3
<1>6. ASSUME NEW w \in Trees, \/ Installation!ChangeMode(w) \/ Installation!Occupy(w)
                              \/ Installation!Upgrade
      PROVE  Goal
  BY <1>1, <1>6 DEF Installation!ChangeMode, Installation!Occupy, Installation!Upgrade
<1>7. ASSUME NEW w \in Trees, Installation!AddLine(w) PROVE Goal
  <2>1. PICK line \in UserLines \cup {"shebang"} :
          s2' = [s2 EXCEPT ![w] =
            IF s2[w] = Installation!NoScript THEN <<line>>
            ELSE IF line = "shebang" THEN <<line>> \o s2[w] ELSE Append(s2[w], line)]
    BY <1>1, <1>7 DEF Installation!AddLine
  <2>2. s2[w] \in Seq(Installation!Lines) /\ Installation!WellMarked(s2[w])
    BY <1>1 DEF L, Good
  <2>3. Good(<<line>>) /\ Good(<<line>> \o s2[w]) /\ Good(Append(s2[w], line))
    BY <2>2, LineAdded DEF Good
  <2> QED
    BY <1>1, <1>7, <2>1, <2>3 DEF Installation!AddLine
<1>8. ASSUME NEW w \in Trees, Installation!LoseEndMarker(w) PROVE Goal
  <2> DEFINE text == s2[w]
             i == Installation!Index(text, "end")
  <2>1. text \in Seq(Installation!Lines) /\ Len(text) \in Nat /\ Installation!WellMarked(text)
    BY <1>1 DEF L, Good
  <2>2. i \in 1..Len(text) /\ text[i] = "end"
    BY <1>8, <2>1, IndexIs DEF Installation!LoseEndMarker
  <2>3. s2' = [s2 EXCEPT ![w] = Installation!Without(text, i)]
    BY <1>1, <1>8 DEF Installation!LoseEndMarker
  <2> HIDE DEF i, text
  <2>4. Good(Installation!Without(text, i))
    BY <2>1, <2>2, EndLost DEF Good
  <2> QED
    BY <1>1, <1>8, <2>3, <2>4 DEF Installation!LoseEndMarker
<1>9. ASSUME \/ Installation!EmptyLauncher \/ Installation!WriteLauncher \/ Installation!ChmodLauncher
      PROVE  Goal
  BY <1>1, <1>9 DEF Installation!EmptyLauncher, Installation!WriteLauncher, Installation!ChmodLauncher,
    Installation!Step
<1>10. ASSUME \/ Installation!ChmodScript \/ Installation!Kill \/ Installation!Unlink
       PROVE  Goal
  BY <1>1, <1>2, <1>3, <1>4, <1>10 DEF Installation!ChmodScript, Installation!Kill, Installation!Unlink,
    Installation!Finishes
<1>11. ASSUME Installation!ReadScript PROVE Goal
  <2> DEFINE h == Installation!Target(s6.tree)
  <2>1. Good(s2[h])
    BY <1>1, <1>2
  <2>2. s2' = s2
    BY <1>11 DEF Installation!ReadScript
  <2>3. s6' = Installation!Idle \/ \E at : s6' = [s6 EXCEPT !.at = at, !.previous = s2[h]]
    BY <1>11 DEF Installation!ReadScript
  <2> HIDE DEF h
  <2> QED
    BY <1>1, <1>3, <1>4, <2>1, <2>2, <2>3
<1>12. ASSUME Installation!Truncate \/ Installation!WriteScript
       PROVE  Goal
  <2>1. \E at : s6' = [s6 EXCEPT !.at = at]
    BY <1>12 DEF Installation!Truncate, Installation!WriteScript, Installation!Step
  <2>2. \/ s2' = [s2 EXCEPT ![Installation!Target(s6.tree)] = <<>>]
        \/ s2' = [s2 EXCEPT ![Installation!Target(s6.tree)] = Installation!Installed(s6.previous)]
    BY <1>12 DEF Installation!Truncate, Installation!WriteScript
  <2>3. Good(Installation!Installed(s6.previous))
    BY <1>1, InstalledKeeps DEF L, Good
  <2>4. Texts
    BY <1>1, <1>2, <1>3, <2>2, <2>3
  <2>5. Marked
    BY <1>1, <2>1
  <2> QED
    BY <2>4, <2>5
<1>13. ASSUME Installation!Rewrite
       PROVE  Goal
  <2>1. s6' = Installation!Idle
    BY <1>13 DEF Installation!Rewrite, Installation!Finishes
  <2>2. s2' = [s2 EXCEPT ![Installation!Target(s6.tree)] = Installation!Uninstalled(s6.previous)]
    BY <1>13 DEF Installation!Rewrite
  <2>3. Good(Installation!Uninstalled(s6.previous))
    BY <1>1, UninstalledKeeps DEF L, Good
  <2> QED
    BY <1>1, <1>2, <1>3, <1>4, <2>1, <2>2, <2>3
<1>14. Goal
  BY <1>5, <1>6, <1>7, <1>8, <1>9, <1>10, <1>11, <1>12, <1>13, InstallationAssumption
  DEF Installation!InstallationNext
<1>15. \A w \in Trees : Good(s2'[w])
  <2>1. CASE s2' = s2
    BY <1>1, <2>1
  <2>2. CASE \E w \in Trees : \E t : Good(t) /\ s2' = [s2 EXCEPT ![w] = t]
    BY <1>1, <2>2
  <2> QED
    BY <1>14, <2>1, <2>2
<1>16. Installation!WellMarked(s6'.previous) /\ \A w \in Trees : Installation!WellMarked(s2'[w])
  BY <1>14, <1>15 DEF Good
<1> QED
  BY <1>16 DEF Installation!MarkersFit, Installation!WellMarked

(* Only the two writes change a script under a command that has read it.    *)
LEMMA UserLinesStay ==
  ASSUME Installation!InstallationFits, Installation!MarkersFit, Installation!InstallationNext
  PROVE  Installation!KeepsUserLines
<1> SUFFICES ASSUME s6.at \in {"write", "rewrite"}, s6' # s6, s2' # s2
             PROVE  Installation!UsersOnly(s2'[Installation!Target(s6.tree)]) = Installation!UsersOnly(s6.previous)
  BY DEF Installation!KeepsUserLines, Installation!UsersOnly, Installation!Joined
<1> DEFINE h == Installation!Target(s6.tree)
<1>1. /\ s5 \in Runtimes /\ s2 \in [Trees -> Seq(Installation!Lines)] /\ h \in Trees
      /\ s6.previous \in Seq(Installation!Lines) /\ Installation!WellMarked(s6.previous)
  BY InstallationAssumption DEF Installation!InstallationFits, Installation!MarkersFit, Installation!Target
<1>2. Installation!WriteScript \/ Installation!Rewrite
  BY DEF Installation!InstallationNext, Installation!Install, Installation!Uninstall, Installation!AddLine,
    Installation!LoseEndMarker, Installation!ChangeMode, Installation!Occupy, Installation!EmptyLauncher,
    Installation!WriteLauncher, Installation!ChmodLauncher, Installation!ReadScript, Installation!Truncate,
    Installation!ChmodScript, Installation!Unlink, Installation!Kill, Installation!Upgrade,
    Installation!Step, Installation!Finishes
<1>3. \/ s2' = [s2 EXCEPT ![h] = Installation!Installed(s6.previous)]
      \/ s2' = [s2 EXCEPT ![h] = Installation!Uninstalled(s6.previous)]
  BY <1>2 DEF Installation!WriteScript, Installation!Rewrite
<1>4. /\ Installation!UsersOnly(Installation!Installed(s6.previous)) = Installation!UsersOnly(s6.previous)
      /\ Installation!UsersOnly(Installation!Uninstalled(s6.previous)) = Installation!UsersOnly(s6.previous)
  BY <1>1, InstalledKeeps, UninstalledKeeps
<1> HIDE DEF h
<1>5. s2'[h] \in {Installation!Installed(s6.previous), Installation!Uninstalled(s6.previous)}
  BY <1>1, <1>3
<1> QED
  BY SMTT(30), <1>4, <1>5 DEF h

MarkersInv == part = "installation" => Installation!MarkersFit

LEMMA MarkersInductive == PartsSpec => []MarkersInv
<1>1. PartsInit => MarkersInv
  BY MarkersStart DEF PartsInit, MarkersInv
<1>2. InstallationInv /\ MarkersInv /\ [PartsNext]_partsVars => MarkersInv'
  <2>1. ASSUME InstallationInv, MarkersInv, PartsNext
        PROVE  MarkersInv'
    BY <2>1, PartStays, InstallationAlone, MarkersKeep DEF MarkersInv, InstallationInv
  <2>2. ASSUME MarkersInv, UNCHANGED partsVars
        PROVE  MarkersInv'
    BY <2>2 DEF MarkersInv, partsVars, Installation!MarkersFit, Installation!WellMarked
  <2> QED
    BY <2>1, <2>2
<1> QED
  BY <1>1, <1>2, InstallationInductive, PTL DEF PartsSpec

-----------------------------------------------------------------------------
(* The preferences                                                          *)

LEMMA PreferenceAlone == part = "preference" /\ PartsNext => Preference!PreferenceNext
BY DEF PartsNext, OpenDatabase, InstallHook, SetUpAgent, ChoosePreference,
  FindStateRoot, KeepFindings, SuggestDuplicate, SummariseFindings, GatherContext,
  ReadDiff, ReadDocument, PublishFindings, RecordTelemetry, RunCommand, CheckProtocol,
  ScoreCase, RunEvaluation, RunVerification, Runs, Rest

LEMMA PreferencesStart ==
  ASSUME Preference!PreferenceInit
  PROVE  Preference!PreferenceFits
<1>1. ASSUME NEW m \in Fits[Default]
      PROVE  Preference!PreferencesFit(Preference!Legacy(m), {})
  <2>1. Preference!Legacy(m) = [kind |-> "legacy", backend |-> "none",
          models |-> [Preference!NoModel EXCEPT ![Default] = m], variants |-> Preference!NoModel]
    <3> DEFINE ms == [Preference!NoModel EXCEPT ![Default] = m]
               e == [kind |-> "legacy", backend |-> "none", models |-> Preference!NoModel,
                     variants |-> Preference!NoModel]
    <3>1. Preference!Legacy(m) = [e EXCEPT !.models[Default] = m]
      <4>1. [Preference!Empty EXCEPT !.kind = "legacy"] = e
        BY DEF Preference!Empty
      <4> HIDE DEF e
      <4> QED
        BY <4>1 DEF Preference!Legacy
    <3>2. [e EXCEPT !.models[Default] = m] = [e EXCEPT !.models = ms]
      OBVIOUS
    <3> HIDE DEF ms
    <3>3. [e EXCEPT !.models = ms]
            = [kind |-> "legacy", backend |-> "none", models |-> ms, variants |-> Preference!NoModel]
      OBVIOUS
    <3> QED
      BY <3>1, <3>2, <3>3 DEF ms
  <2> HIDE DEF Preference!Legacy
  <2> QED
    BY <2>1, PreferenceAssumption DEF Preference!PreferencesFit, Preference!NoModel
<1>2. Preference!PreferencesFit(Preference!Empty, {})
  BY DEF Preference!PreferencesFit, Preference!Empty, Preference!NoModel
<1>3. Preference!PreferencesFit(Preference!Invalid, {})
  <2>1. Preference!Invalid = [kind |-> "invalid", backend |-> "none",
          models |-> Preference!NoModel, variants |-> Preference!NoModel]
    BY DEF Preference!Invalid, Preference!Empty
  <2> QED
    BY <2>1 DEF Preference!PreferencesFit, Preference!NoModel
<1>4. Preference!WriterFits(Preference!Idle, {})
  BY DEF Preference!WriterFits, Preference!Idle
<1> QED
  BY <1>1, <1>2, <1>3, <1>4 DEF Preference!PreferenceInit, Preference!PreferenceFits

(* What a save writes fits, if what it read did.                            *)
LEMMA SavedFits ==
  ASSUME NEW c, NEW a, Preference!WriterFits(c, a), c.at = "replace"
  PROVE  Preference!PreferencesFit(Preference!Replacement(c), a)
<1> DEFINE r == c.read
           b == c.backend
           v == Preference!Saved(c, c.value)
<1>1. /\ Preference!PreferencesFit(r, a) /\ b \in Backends
      /\ c.op \in {"backend", "model", "reasoning"}
      /\ c.value \in {"reset"} \cup Preference!Values(c.op, b)
  BY DEF Preference!WriterFits
<1>2. /\ DOMAIN r = {"kind", "backend", "models", "variants"}
      /\ r.backend \in Backends \cup {"none"}
      /\ DOMAIN r.models = Backends /\ DOMAIN r.variants = Backends
      /\ r.models = [d \in Backends |-> r.models[d]]
      /\ r.variants = [d \in Backends |-> r.variants[d]]
      /\ \A d \in Backends : r.models[d] \in Fits[d] \cup {"none"}
      /\ \A d \in Backends : r.variants[d] # "none" => <<d, r.models[d], r.variants[d]>> \in a
  BY <1>1 DEF Preference!PreferencesFit
<1> HIDE DEF r, b
<1>3. CASE c.op = "backend"
  <2>1. Preference!Replacement(c) = [r EXCEPT !.backend = Preference!Saved(c, b)]
    BY <1>3 DEF Preference!Replacement, Preference!ChangedBackend, r, b
  <2>2. Preference!Saved(c, b) \in Backends \cup {"none"}
    BY <1>1 DEF Preference!Saved
  <2> QED
    BY <1>2, <2>1, <2>2 DEF Preference!PreferencesFit
<1>4. CASE c.op = "model"
  <2> DEFINE w == IF r.models[b] = c.value THEN r.variants[b] ELSE "none"
             ms == [r.models EXCEPT ![b] = v]
             vs == [r.variants EXCEPT ![b] = w]
  <2>1. v \in Fits[b] \cup {"none"}
    BY <1>1, <1>4 DEF Preference!Saved, Preference!Values, b
  <2>2. Preference!Replacement(c) = [r EXCEPT !.models = ms, !.variants = vs]
    BY <1>2, <1>4 DEF Preference!Replacement, Preference!ChangedModel, r, b
  <2>3. w # "none" => v = r.models[b] /\ w = r.variants[b]
    BY <1>1, <1>2, <1>4, PreferenceAssumption DEF Preference!Saved
  <2> HIDE DEF v, w
  <2>4. /\ DOMAIN ms = Backends /\ ms = [d \in Backends |-> ms[d]]
        /\ DOMAIN vs = Backends /\ vs = [d \in Backends |-> vs[d]]
        /\ \A d \in Backends : ms[d] \in Fits[d] \cup {"none"}
    BY <1>2, <2>1
  <2>5. \A d \in Backends : vs[d] # "none" => <<d, ms[d], vs[d]>> \in a
    BY <1>1, <1>2, <2>3
  <2> HIDE DEF ms, vs
  <2> DEFINE n == Preference!Replacement(c)
  <2>6. DOMAIN n = {"kind", "backend", "models", "variants"}
        /\ n.backend = r.backend /\ n.models = ms /\ n.variants = vs
    BY <1>2, <2>2
  <2> HIDE DEF n
  <2>7. Preference!PreferencesFit(n, a)
    BY <1>2, <2>4, <2>5, <2>6 DEF Preference!PreferencesFit
  <2> QED
    BY <2>7 DEF n
<1>5. CASE c.op = "reasoning"
  <2> DEFINE w == IF r.models[b] = "none" THEN "none" ELSE v
             vs == [r.variants EXCEPT ![b] = w]
  <2>1. Preference!Replacement(c) = [r EXCEPT !.variants = vs]
    BY <1>2, <1>5 DEF Preference!Replacement, Preference!ChangedReasoning, r, b
  <2>2. w # "none" => <<b, r.models[b], w>> \in a
    BY <1>1, <1>5 DEF Preference!WriterFits, Preference!Saved, r, b
  <2> HIDE DEF w, v
  <2>3. /\ DOMAIN vs = Backends /\ vs = [d \in Backends |-> vs[d]]
        /\ \A d \in Backends : vs[d] # "none" => <<d, r.models[d], vs[d]>> \in a
    BY <1>1, <1>2, <2>2
  <2> HIDE DEF vs
  <2> DEFINE n == Preference!Replacement(c)
  <2>4. DOMAIN n = {"kind", "backend", "models", "variants"}
        /\ n.backend = r.backend /\ n.models = r.models /\ n.variants = vs
    BY <1>2, <2>1
  <2> HIDE DEF n
  <2>5. Preference!PreferencesFit(n, a)
    BY <1>2, <2>3, <2>4 DEF Preference!PreferencesFit
  <2> QED
    BY <2>5 DEF n
<1> QED
  BY <1>1, <1>3, <1>4, <1>5

(* What was asked for is never forgotten.                                   *)
LEMMA FitsLonger ==
  ASSUME NEW a, NEW more, a \subseteq more
  PROVE  /\ \A f : Preference!PreferencesFit(f, a) => Preference!PreferencesFit(f, more)
         /\ \A c : Preference!WriterFits(c, a) => Preference!WriterFits(c, more)
<1>1. ASSUME NEW f, Preference!PreferencesFit(f, a)
      PROVE  Preference!PreferencesFit(f, more)
  BY <1>1 DEF Preference!PreferencesFit
<1>2. ASSUME NEW c, Preference!WriterFits(c, a)
      PROVE  Preference!WriterFits(c, more)
  BY SMTT(20), <1>1, <1>2 DEF Preference!WriterFits
<1> QED
  BY <1>1, <1>2

LEMMA PreferencesKeep ==
  ASSUME Preference!PreferenceFits, Preference!PreferenceNext
  PROVE  Preference!PreferenceFits'
<1>1. /\ Preference!PreferencesFit(s1, s4)
      /\ s2 = [w \in Two |-> s2[w]]
      /\ \A w \in Two : Preference!WriterFits(s2[w], s4)
  BY DEF Preference!PreferenceFits
<1>2. PICK w \in Two : \/ Preference!Want(w) \/ Preference!Load(w)
                       \/ Preference!Replace(w) \/ Preference!Kill(w)
  BY DEF Preference!PreferenceNext
<1>3. s4 \subseteq s4'
  BY <1>2 DEF Preference!Want, Preference!Load, Preference!Replace, Preference!Kill
<1>4. /\ \A f : Preference!PreferencesFit(f, s4) => Preference!PreferencesFit(f, s4')
      /\ \A c : Preference!WriterFits(c, s4) => Preference!WriterFits(c, s4')
  BY <1>3, FitsLonger
<1>5. Preference!WriterFits(Preference!Idle, s4')
  BY DEF Preference!WriterFits, Preference!Idle
<1> DEFINE Goal == /\ s2' = [s2 EXCEPT ![w] = s2'[w]] /\ Preference!WriterFits(s2'[w], s4')
                   /\ Preference!PreferencesFit(s1', s4')
<1>6. ASSUME Preference!Want(w) PROVE Goal
  <2>1. PICK op \in {"backend", "model", "reasoning"} :
          \E b \in IF op = "backend" THEN Backends ELSE {Preference!BackendOf(s1, "none")} :
          \E value \in {"reset"} \cup Preference!Values(op, b) :
            s2' = [s2 EXCEPT ![w] = [at |-> "load", op |-> op, backend |-> b, value |-> value,
                                     read |-> Preference!Empty]]
    BY <1>6 DEF Preference!Want
  <2>2. Preference!BackendOf(s1, "none") \in Backends
    BY <1>1, PreferenceAssumption DEF Preference!BackendOf, Preference!PreferencesFit
  <2>3. PICK b \in Backends : \E value \in {"reset"} \cup Preference!Values(op, b) :
            s2' = [s2 EXCEPT ![w] = [at |-> "load", op |-> op, backend |-> b, value |-> value,
                                     read |-> Preference!Empty]]
    BY <2>1, <2>2
  <2>4. PICK value \in {"reset"} \cup Preference!Values(op, b) :
            s2' = [s2 EXCEPT ![w] = [at |-> "load", op |-> op, backend |-> b, value |-> value,
                                     read |-> Preference!Empty]]
    BY <2>3
  <2> DEFINE c == [at |-> "load", op |-> op, backend |-> b, value |-> value, read |-> Preference!Empty]
  <2>5. Preference!WriterFits(c, s4')
    BY <2>1, <2>3, <2>4 DEF Preference!WriterFits
  <2>6. s1' = s1
    BY <1>6 DEF Preference!Want
  <2> HIDE DEF c
  <2> QED
    BY <1>1, <1>4, <2>4, <2>5, <2>6 DEF c
<1>7. ASSUME Preference!Load(w) PROVE Goal
  <2> DEFINE c == s2[w]
             r == Preference!AsCurrent(c.op)
             n == [[c EXCEPT !.at = "replace"] EXCEPT !.read = r]
             refused == s1.kind = "invalid"
                          \/ (c.op = "reasoning" /\ c.value # "reset" /\ s1.models[c.backend] = "none")
  <2>1. s1' = s1
    BY <1>7 DEF Preference!Load
  <2>2. CASE refused
    <3>1. s2' = [s2 EXCEPT ![w] = Preference!Idle]
      BY <1>7, <2>2 DEF Preference!Load
    <3> QED
      BY <1>1, <1>4, <1>5, <2>1, <3>1
  <2>3. CASE ~refused
    <3>1. s2' = [s2 EXCEPT ![w] = n]
      BY <1>7, <2>3 DEF Preference!Load
    <3>2. s4' = IF c.op = "reasoning" /\ c.value # "reset"
                  THEN s4 \cup {<<c.backend, s1.models[c.backend], c.value>>} ELSE s4
      BY <1>7, <2>3 DEF Preference!Load
    <3>3. Preference!WriterFits(c, s4') /\ Preference!PreferencesFit(s1, s4')
      BY <1>1, <1>4
    <3>4. c.at = "load"
      BY <1>7 DEF Preference!Load
    <3>5. Preference!PreferencesFit(r, s4') /\ r.models = s1.models
      <4> HIDE DEF c
      <4>1. r = [s1 EXCEPT !.kind = "current",
                   !.backend = IF s1.kind = "legacy" /\ c.op = "backend" THEN Default ELSE s1.backend]
        BY DEF Preference!AsCurrent
      <4> QED
        BY <3>3, <4>1, PreferenceAssumption DEF Preference!PreferencesFit
    <3> HIDE DEF r, c
    <3>6. /\ DOMAIN n = DOMAIN c
          /\ n.at = "replace" /\ n.read = r /\ n.op = c.op /\ n.backend = c.backend /\ n.value = c.value
      BY <3>3 DEF Preference!WriterFits
    <3>7. c.op = "reasoning" /\ c.value # "reset" => <<c.backend, r.models[c.backend], c.value>> \in s4'
      BY <3>2, <3>5
    <3> HIDE DEF n
    <3>8. Preference!WriterFits(n, s4')
      BY <3>3, <3>4, <3>5, <3>6, <3>7 DEF Preference!WriterFits
    <3> QED
      BY <1>1, <2>1, <3>1, <3>3, <3>8
  <2> QED
    BY <2>2, <2>3
<1>8. ASSUME Preference!Replace(w) PROVE Goal
  <2>1. Preference!PreferencesFit(Preference!Replacement(s2[w]), s4)
    BY <1>1, <1>8, SavedFits DEF Preference!Replace
  <2>2. Preference!PreferencesFit(Preference!Empty, s4)
    BY DEF Preference!PreferencesFit, Preference!Empty, Preference!NoModel
  <2>3. /\ s1' \in {Preference!Replacement(s2[w]), Preference!Empty}
        /\ s2' = [s2 EXCEPT ![w] = Preference!Idle]
    BY <1>8 DEF Preference!Replace
  <2>4. Preference!PreferencesFit(s1', s4)
    BY <2>1, <2>2, <2>3
  <2> QED
    BY <1>1, <1>4, <1>5, <2>3, <2>4
<1>9. ASSUME Preference!Kill(w) PROVE Goal
  <2>1. s1' = s1 /\ s2' = [s2 EXCEPT ![w] = Preference!Idle]
    BY <1>9 DEF Preference!Kill
  <2> QED
    BY <1>1, <1>4, <1>5, <2>1
<1>10. Goal
  BY <1>2, <1>6, <1>7, <1>8, <1>9
<1>12. s2' = [v \in Two |-> s2'[v]] /\ \A v \in Two : Preference!WriterFits(s2'[v], s4')
  BY <1>1, <1>4, <1>10
<1>13. Preference!PreferencesFit(s1', s4')
  BY <1>10
<1> QED
  BY <1>12, <1>13 DEF Preference!PreferenceFits, Preference!PreferencesFit, Preference!WriterFits,
    Preference!Values

(* A saved variant is one that was asked for the saved model.               *)
LEMMA ReasoningFits ==
  ASSUME Preference!PreferenceFits
  PROVE  Preference!ReasoningFitsModel
<1>1. Preference!PreferencesFit(s1, s4)
  BY DEF Preference!PreferenceFits
<1> SUFFICES ASSUME NEW direct \in Backends \cup {"none"}, NEW command \in Models \cup {"none"},
                    NEW environment \in Models \cup {"none"}
             PROVE  LET review == Preference!Configured(direct, command, environment, "legacy") IN
                    review # <<"failed">> =>
                      /\ review[2] \in Fits[review[1]]
                      /\ review[4] = "saved" => <<review[1], review[2], review[3]>> \in s4
  BY DEF Preference!ReasoningFitsModel
<1> DEFINE review == Preference!Configured(direct, command, environment, "legacy")
           outside == IF command # "none" THEN command ELSE environment
           explicit == direct # "none" /\ outside # "none"
           f == IF explicit /\ s1.kind = "invalid" THEN Preference!Empty ELSE s1
           b == Preference!BackendOf(f, direct)
           saved == f.models[b]
           model == IF outside # "none" THEN outside ELSE saved
           variant == IF model = saved THEN f.variants[b] ELSE "none"
<1>2. Preference!PreferencesFit(f, s4)
  BY <1>1 DEF Preference!PreferencesFit, Preference!Empty, Preference!NoModel
<1>3. review = IF f.kind = "invalid" \/ model \notin Fits[b] THEN <<"failed">>
               ELSE <<b, model, IF variant # "none" THEN variant ELSE "legacy",
                      IF variant # "none" THEN "saved" ELSE "other">>
  BY DEF Preference!Configured
<1> HIDE DEF review, f
<1>4. b \in Backends
  BY <1>2, PreferenceAssumption DEF Preference!BackendOf, Preference!PreferencesFit
<1> HIDE DEF b
<1>5. variant # "none" => <<b, model, variant>> \in s4
  BY <1>2, <1>4 DEF Preference!PreferencesFit
<1> HIDE DEF model, variant
<1> QED
  BY <1>3, <1>5 DEF review

PreferenceInv == part = "preference" => Preference!PreferenceFits

LEMMA PreferenceInductive == PartsSpec => []PreferenceInv
<1>1. PartsInit => PreferenceInv
  BY PreferencesStart DEF PartsInit, PreferenceInv
<1>2. PreferenceInv /\ [PartsNext]_partsVars => PreferenceInv'
  <2>1. ASSUME PreferenceInv, PartsNext
        PROVE  PreferenceInv'
    BY <2>1, PartStays, PreferenceAlone, PreferencesKeep DEF PreferenceInv
  <2>2. ASSUME PreferenceInv, UNCHANGED partsVars
        PROVE  PreferenceInv'
    <3>1. s1' = s1 /\ s2' = s2 /\ s3' = s3 /\ s4' = s4 /\ part' = part
      BY <2>2 DEF partsVars
    <3>2. Preference!PreferenceFits => Preference!PreferenceFits'
      BY <3>1 DEF Preference!PreferenceFits, Preference!PreferencesFit,
        Preference!WriterFits, Preference!Values
    <3> QED
      BY <2>2, <3>1, <3>2 DEF PreferenceInv
  <2> QED
    BY <2>1, <2>2
<1> QED
  BY <1>1, <1>2, PTL DEF PartsSpec

-----------------------------------------------------------------------------
(* The state directory                                                      *)

LEMMA RootAlone == part = "root" /\ PartsNext => Root!RootNext
BY DEF PartsNext, OpenDatabase, InstallHook, SetUpAgent, ChoosePreference,
  FindStateRoot, KeepFindings, SuggestDuplicate, SummariseFindings, GatherContext,
  ReadDiff, ReadDocument, PublishFindings, RecordTelemetry, RunCommand, CheckProtocol,
  ScoreCase, RunEvaluation, RunVerification, Runs, Rest

LEMMA RootStarts ==
  ASSUME Root!RootInit
  PROVE  Root!RootFits
BY DEF Root!RootInit, Root!RootFits

(* What a caller that waits, or gets an answer, leaves of the others.       *)
AreCallers(f) == f = [c \in Callers |-> [waits |-> f[c].waits, got |-> f[c].got]]
WaitsFor(f, c, v) == [f EXCEPT ![c].waits = v]
Answered(f, c, g) == [f EXCEPT ![c].waits = 0, ![c].got = g]

LEMMA WaitsForOne ==
  ASSUME NEW f, NEW c \in Callers, NEW v, AreCallers(f)
  PROVE  /\ AreCallers(WaitsFor(f, c, v))
         /\ \A d \in Callers : WaitsFor(f, c, v)[d].got = f[d].got
         /\ \A d \in Callers : WaitsFor(f, c, v)[d].waits = IF d = c THEN v ELSE f[d].waits
<1>1. f = [d \in Callers |-> [waits |-> f[d].waits, got |-> f[d].got]]
  BY DEF AreCallers
<1>2. f[c] = [waits |-> f[c].waits, got |-> f[c].got]
  BY <1>1
<1>3. [f[c] EXCEPT !.waits = v] = [waits |-> v, got |-> f[c].got]
  BY <1>2
<1>4. WaitsFor(f, c, v) = [d \in Callers |-> IF d = c THEN [waits |-> v, got |-> f[c].got] ELSE f[d]]
  BY SMTT(20), <1>1, <1>3 DEF WaitsFor
<1> QED
  BY <1>1, <1>4 DEF AreCallers

LEMMA AnsweredOne ==
  ASSUME NEW f, NEW c \in Callers, NEW g, AreCallers(f)
  PROVE  /\ AreCallers(Answered(f, c, g))
         /\ \A d \in Callers : Answered(f, c, g)[d].got = IF d = c THEN g ELSE f[d].got
         /\ \A d \in Callers : Answered(f, c, g)[d].waits = IF d = c THEN 0 ELSE f[d].waits
<1> DEFINE h == WaitsFor(f, c, 0)
<1>1. /\ AreCallers(h)
      /\ \A d \in Callers : h[d].got = f[d].got
      /\ \A d \in Callers : h[d].waits = IF d = c THEN 0 ELSE f[d].waits
  BY WaitsForOne
<1>2. Answered(f, c, g) = [h EXCEPT ![c].got = g]
  BY DEF Answered, WaitsFor
<1> HIDE DEF h
<1>3. h = [d \in Callers |-> [waits |-> h[d].waits, got |-> h[d].got]]
  BY <1>1 DEF AreCallers
<1>4. h[c] = [waits |-> 0, got |-> h[c].got]
  BY <1>1, <1>3
<1>5. [h[c] EXCEPT !.got = g] = [waits |-> 0, got |-> g]
  BY <1>4
<1>6. Answered(f, c, g) = [d \in Callers |-> IF d = c THEN [waits |-> 0, got |-> g] ELSE h[d]]
  BY <1>2, <1>3, <1>5
<1> DEFINE k == Answered(f, c, g)
<1> HIDE DEF k
<1>7. k = [d \in Callers |-> IF d = c THEN [waits |-> 0, got |-> g] ELSE h[d]]
  BY <1>6 DEF k
<1>8. \A d \in Callers : h[d] = [waits |-> h[d].waits, got |-> h[d].got]
  BY <1>3
<1>9. \A d \in Callers : k[d] = [waits |-> k[d].waits, got |-> k[d].got]
  BY <1>7, <1>8
<1>10. k = [d \in Callers |-> [waits |-> k[d].waits, got |-> k[d].got]]
  BY <1>7, <1>9
<1>11. /\ \A d \in Callers : k[d].got = IF d = c THEN g ELSE f[d].got
       /\ \A d \in Callers : k[d].waits = IF d = c THEN 0 ELSE f[d].waits
  BY <1>1, <1>7
<1> QED
  BY <1>10, <1>11 DEF AreCallers, k

LEMMA RootKeeps ==
  ASSUME Root!RootFits, Root!RootNext
  PROVE  Root!RootFits'
<1>1. /\ s1 \in Seq(Root!Ends) /\ Len(s1) \in Nat /\ s2 \in 0..Len(s1)
      /\ AreCallers(s3)
      /\ \A i \in 1..Len(s1) : i # s2 => s1[i] = <<"failed">>
      /\ \A c \in Callers :
           /\ s3[c].waits \in 0..Len(s1)
           /\ \A x \in s3[c].got : s2 # 0 /\ s1[s2] = <<"dir", x>>
  BY DEF Root!RootFits, AreCallers
<1>2. /\ <<"pending">> \in Root!Ends /\ <<"failed">> \in Root!Ends
      /\ <<"pending">> # <<"failed">>
      /\ \A x : <<"dir", x>> # <<"pending">> /\ <<"dir", x>> # <<"failed">>
      /\ \A e \in Root!Ends : e = <<"pending">> \/ e = <<"failed">> \/ e = <<"dir", e[2]>>
  BY DEF Root!Ends
<1> DEFINE Goal == /\ s1' \in Seq(Root!Ends) /\ s2' \in 0..Len(s1')
                   /\ AreCallers(s3)'
                   /\ \A i \in 1..Len(s1') : i # s2' => s1'[i] = <<"failed">>
                   /\ \A c \in Callers :
                        /\ s3'[c].waits \in 0..Len(s1')
                        /\ \A x \in s3'[c].got : s2' # 0 /\ s1'[s2'] = <<"dir", x>>
<1>3. ASSUME NEW c \in Callers, Root!Ask(c)
      PROVE  Goal
  <2>1. /\ AreCallers(s3)'
        /\ \A d \in Callers : s3'[d].got = s3[d].got
        /\ \A d \in Callers : s3'[d].waits = IF d = c THEN s2' ELSE s3[d].waits
    <3>1. s3' = WaitsFor(s3, c, s2')
      BY <1>3 DEF Root!Ask, WaitsFor
    <3>2. /\ AreCallers(WaitsFor(s3, c, s2'))
          /\ \A d \in Callers : WaitsFor(s3, c, s2')[d].got = s3[d].got
          /\ \A d \in Callers : WaitsFor(s3, c, s2')[d].waits = IF d = c THEN s2' ELSE s3[d].waits
      BY <1>1, WaitsForOne
    <3> QED
      BY <3>1, <3>2 DEF AreCallers
  <2>2. CASE s2 = 0
    <3>1. s1' = Append(s1, <<"pending">>) /\ s2' = Len(s1) + 1
      BY <1>3, <2>2 DEF Root!Ask
    <3>2. /\ s1' \in Seq(Root!Ends) /\ Len(s1') = Len(s1) + 1 /\ \A i \in 1..Len(s1) : s1'[i] = s1[i]
      BY <1>1, <1>2, <3>1
    <3> QED
      BY SMTT(20), <1>1, <2>1, <2>2, <3>1, <3>2
  <2>3. CASE s2 # 0
    <3>1. s1' = s1 /\ s2' = s2
      BY <1>3, <2>3 DEF Root!Ask
    <3> QED
      BY <1>1, <2>1, <3>1
  <2> QED
    BY <2>2, <2>3
<1>4. ASSUME NEW i \in DOMAIN s1, Root!Settle(i)
      PROVE  Goal
  <2>1. PICK end \in Root!Ends : s1' = [s1 EXCEPT ![i] = end]
    BY <1>4 DEF Root!Settle, Root!Ends
  <2>2. s1[i] = <<"pending">> /\ s2' = s2 /\ s3' = s3
    BY <1>4 DEF Root!Settle
  <2>3. i \in 1..Len(s1) /\ i = s2
    BY <1>1, <1>2, <2>2
  <2>4. /\ s1' \in Seq(Root!Ends) /\ Len(s1') = Len(s1) /\ \A j \in 1..Len(s1) : j # i => s1'[j] = s1[j]
    BY <1>1, <2>1
  <2>5. \A c \in Callers : s3[c].got = {}
    BY <1>1, <1>2, <2>2, <2>3
  <2>6. AreCallers(s3)'
    BY <1>1, <2>2 DEF AreCallers
  <2> QED
    BY <1>1, <2>2, <2>3, <2>4, <2>5, <2>6
<1>5. ASSUME NEW c \in Callers, Root!Resume(c)
      PROVE  Goal
  <2> DEFINE promise == s3[c].waits
             end == s1[promise]
             more == s3[c].got \cup {end[2]}
  <2>1. promise # 0 /\ end # <<"pending">> /\ s1' = s1
    BY <1>5 DEF Root!Resume
  <2>2. promise \in 1..Len(s1) /\ end \in Root!Ends
    BY <1>1, <2>1
  <2>3. CASE end = <<"failed">>
    <3>1. s2' = (IF s2 = promise THEN 0 ELSE s2) /\ s3' = WaitsFor(s3, c, 0)
      BY <1>5, <2>3 DEF Root!Resume, Root!Forgotten, WaitsFor
    <3>2. /\ AreCallers(WaitsFor(s3, c, 0))
          /\ \A d \in Callers : WaitsFor(s3, c, 0)[d].got = s3[d].got
          /\ \A d \in Callers : WaitsFor(s3, c, 0)[d].waits = IF d = c THEN 0 ELSE s3[d].waits
      BY <1>1, WaitsForOne
    <3>3. /\ AreCallers(s3)'
          /\ \A d \in Callers : s3'[d].got = s3[d].got /\ s3'[d].waits \in {0, s3[d].waits}
      BY <3>1, <3>2 DEF AreCallers
    <3>4. s2 = promise => \A d \in Callers : s3[d].got = {}
      BY SMTT(30), <1>1, <1>2, <2>3
    <3> QED
      BY SMTT(20), <1>1, <2>1, <2>2, <2>3, <3>1, <3>3, <3>4
  <2>4. CASE end # <<"failed">>
    <3>1. s2' = s2 /\ s3' = Answered(s3, c, more)
      BY <1>1, <1>5, <2>4 DEF Root!Resume, Answered
    <3>2. promise = s2 /\ end = <<"dir", end[2]>>
      BY <1>1, <1>2, <2>1, <2>2, <2>4
    <3>3. /\ AreCallers(Answered(s3, c, more))
          /\ \A d \in Callers : Answered(s3, c, more)[d].got = IF d = c THEN more ELSE s3[d].got
          /\ \A d \in Callers : Answered(s3, c, more)[d].waits = IF d = c THEN 0 ELSE s3[d].waits
      BY <1>1, AnsweredOne
    <3>4. /\ AreCallers(s3)'
          /\ \A d \in Callers : s3'[d].waits \in {0, s3[d].waits}
          /\ \A d \in Callers : s3'[d].got \in {more, s3[d].got}
      <4> HIDE DEF more
      <4> QED
        BY <3>1, <3>3 DEF AreCallers
    <3>5. s2 # 0 /\ s1[s2] = <<"dir", end[2]>>
      BY <2>1, <3>2
    <3>6. \A d \in Callers : \A x \in s3'[d].got : s2 # 0 /\ s1[s2] = <<"dir", x>>
      <4> HIDE DEF end, promise
      <4>1. \A x \in more : s2 # 0 /\ s1[s2] = <<"dir", x>>
        BY <1>1, <3>5
      <4> HIDE DEF more
      <4> QED
        BY <1>1, <3>4, <4>1
    <3>7. \A d \in Callers : s3'[d].waits \in 0..Len(s1)
      BY <1>1, <3>4
    <3> QED
      BY <1>1, <2>1, <3>1, <3>4, <3>6, <3>7
  <2> QED
    BY <2>3, <2>4
<1>6. Goal
  BY <1>3, <1>4, <1>5 DEF Root!RootNext
<1>7. Root!Ends' = Root!Ends
  BY DEF Root!Ends, Root!SharedDir, Root!HasRepository, Root!CommonDir, Root!Standard,
    Root!TopLevel, Root!Longest, Root!GitDir, Root!Above, Root!Local
<1>8. /\ s1' \in Seq(Root!Ends') /\ s2' \in 0..Len(s1')
      /\ AreCallers(s3)'
      /\ \A i \in 1..Len(s1') : i # s2' => s1'[i] = <<"failed">>
      /\ \A c \in Callers :
           /\ s3'[c].waits \in 0..Len(s1')
           /\ \A x \in s3'[c].got : s2' # 0 /\ s1'[s2'] = <<"dir", x>>
  BY <1>6, <1>7
<1> QED
  BY <1>8 DEF Root!RootFits, AreCallers

LEMMA RootIsOne ==
  ASSUME Root!RootFits
  PROVE  Root!OneDirectory
BY DEF Root!RootFits, Root!OneDirectory

RootInv == part = "root" => Root!RootFits

LEMMA RootInductive == PartsSpec => []RootInv
<1>1. PartsInit => RootInv
  BY RootStarts DEF PartsInit, RootInv
<1>2. RootInv /\ [PartsNext]_partsVars => RootInv'
  <2>1. ASSUME RootInv, PartsNext
        PROVE  RootInv'
    BY <2>1, PartStays, RootAlone, RootKeeps DEF RootInv
  <2>2. ASSUME RootInv, UNCHANGED partsVars
        PROVE  RootInv'
    <3>1. s1' = s1 /\ s2' = s2 /\ s3' = s3 /\ part' = part
      BY SMTT(20), <2>2 DEF partsVars
    <3>2. Root!RootFits => Root!RootFits'
      BY <3>1 DEF Root!RootFits, Root!Ends, Root!SharedDir, Root!HasRepository,
        Root!CommonDir, Root!Standard, Root!TopLevel, Root!Longest, Root!GitDir,
        Root!Above, Root!Local
    <3> QED
      BY <2>2, <3>1, <3>2 DEF RootInv
  <2> QED
    BY <2>1, <2>2
<1> QED
  BY <1>1, <1>2, PTL DEF PartsSpec

(* Projects of any layout.  A path is the beginning of every longer one.    *)
LEMMA BeginningIs ==
  ASSUME NEW S, NEW s \in Seq(S), NEW t \in Seq(S)
  PROVE  /\ s \o t \in Seq(S) /\ Len(s \o t) \in Nat /\ Len(s) \in 0..Len(s \o t)
         /\ SubSeq(s \o t, 1, Len(s)) = s
<1>1. s \o t \in Seq(S) /\ Len(s \o t) = Len(s) + Len(t) /\ Len(s) \in Nat /\ Len(t) \in Nat
  OBVIOUS
<1> DEFINE u == s \o t
<1>2. SubSeq(u, 1, Len(s)) = [i \in 1..Len(s) |-> u[i]]
  BY <1>1
<1>3. \A i \in 1..Len(s) : u[i] = s[i]
  BY <1>1
<1>4. s = [i \in 1..Len(s) |-> s[i]]
  OBVIOUS
<1> HIDE DEF u
<1>5. SubSeq(u, 1, Len(s)) = s
  BY <1>2, <1>3, <1>4
<1> QED
  BY <1>1, <1>5 DEF u

(* The directories above a path are shorter than it.                        *)
LEMMA AboveIsShorter ==
  ASSUME NEW d \in Seq(STRING), NEW e \in Root!Above(d)
  PROVE  e \in Seq(STRING) /\ Len(e) \in 0..Len(d)
<1>1. PICK n \in 0..Len(d) : e = SubSeq(d, 1, n)
  BY DEF Root!Above
<1>2. Len(d) \in Nat /\ n \in Nat /\ n <= Len(d)
  BY <1>1
<1>3. \A i \in 1..n : d[i] \in STRING
  BY <1>2
<1>4. SubSeq(d, 1, n) \in Seq(STRING) /\ Len(SubSeq(d, 1, n)) = n
  BY <1>2, <1>3
<1> QED
  BY <1>1, <1>2, <1>4

(* Of beginnings of one path the longest is the one of most steps.          *)
LEMMA LongestIs ==
  ASSUME NEW d \in Seq(STRING), NEW S, S \subseteq Root!Above(d), S # {}
  PROVE  Root!Longest(S) \in S
<1> DEFINE K == {Len(d) - Len(e) : e \in S}
<1>1. \A e \in S : Len(e) \in Nat /\ Len(d) - Len(e) \in Nat /\ Len(d) \in Nat
  BY AboveIsShorter
<1>2. K \in SUBSET Nat /\ K # {}
  BY <1>1
<1>3. PICK k \in K : \A j \in K : k <= j
  <2> HIDE DEF K
  <2> QED
    BY <1>2, LeastOfNumbers
<1>4. PICK a \in S : k = Len(d) - Len(a)
  BY <1>3
<1>5. ASSUME NEW e \in S PROVE Len(e) <= Len(a)
  <2>1. Len(d) - Len(a) <= Len(d) - Len(e)
    BY <1>3, <1>4
  <2> QED
    BY <1>1, <2>1
<1> QED
  BY <1>4, <1>5 DEF Root!Longest

(* Directories that have a repository, and where their git directory is.    *)
LEMMA RepositoryIs ==
  ASSUME NEW l \in Layouts, NEW d \in DOMAIN l, Root!HasRepository(l, d)
  PROVE  /\ d \in Seq(STRING) /\ Root!TopLevel(l, d) \in Root!Above(d) \cap DOMAIN l
         /\ Root!CommonDir(l, d)[2] \in Seq(STRING)
         /\ Root!Within(l, d) \in Seq(STRING)
<1> DEFINE top == Root!TopLevel(l, d)
<1>1. d \in Seq(STRING)
  BY RootAssumption
<1>2. Root!Repositories(l, d) \subseteq Root!Above(d) /\ Root!Repositories(l, d) # {}
  BY DEF Root!Repositories, Root!HasRepository
<1>3. top \in Root!Repositories(l, d)
  BY <1>1, <1>2, LongestIs DEF Root!TopLevel
<1> HIDE DEF top
<1>4. top \in DOMAIN l /\ l[top].kind # "none" /\ top \in Root!Above(d) /\ top \in Seq(STRING) /\ Len(top) \in 0..Len(d)
  BY <1>1, <1>3, AboveIsShorter DEF Root!Repositories
<1>5. Root!GitDir(l, top)[2] \in Seq(STRING)
  <2>1. CASE l[top].kind = "dir"
    BY <1>4, <2>1 DEF Root!GitDir
  <2>2. CASE l[top].kind # "dir"
    BY <1>4, <2>2, RootAssumption DEF Root!GitDir
  <2> QED
    BY <2>1, <2>2
<1>6. SubSeq(d, Len(top) + 1, Len(d)) \in Seq(STRING)
  <2>1. \A i \in Len(top) + 1 .. Len(d) : d[i] \in STRING
    BY <1>1, <1>4
  <2> QED
    BY <1>1, <1>4, <2>1
<1> QED
  BY <1>1, <1>4, <1>5, <1>6 DEF top, Root!CommonDir, Root!Within

(* What a project with a repository gets.                                   *)
LEMMA SharedDirIs ==
  ASSUME NEW l \in Layouts, NEW d \in DOMAIN l, Root!HasRepository(l, d),
         NEW common, common = Root!CommonDir(l, d), NEW rel, rel = Root!Within(l, d)
  PROVE  /\ Root!Standard(l, common) = {} => Root!SharedDir(l, d) = <<"git", common, rel>>
         /\ Root!Standard(l, common) # {} =>
              \E s \in Seq(STRING) \cap DOMAIN l :
                /\ s = Root!Longest(Root!Standard(l, common))
                /\ Root!SharedDir(l, d) = <<"dir", s \o rel>>
                /\ l[s].kind # "none" /\ Root!GitDir(l, s) = common
                /\ s \in Root!Above(s \o rel)
<1>1. common[2] \in Seq(STRING) /\ rel \in Seq(STRING)
  BY RepositoryIs
<1>2. Root!SharedDir(l, d) =
        IF Root!Standard(l, common) # {} THEN <<"dir", Root!Longest(Root!Standard(l, common)) \o rel>>
        ELSE <<"git", common, rel>>
  BY DEF Root!SharedDir, Root!Within
<1>3. ASSUME Root!Standard(l, common) # {}
      PROVE  \E s \in Seq(STRING) \cap DOMAIN l :
               /\ s = Root!Longest(Root!Standard(l, common))
               /\ Root!SharedDir(l, d) = <<"dir", s \o rel>>
               /\ l[s].kind # "none" /\ Root!GitDir(l, s) = common
               /\ s \in Root!Above(s \o rel)
  <2> DEFINE s == Root!Longest(Root!Standard(l, common))
  <2>1. Root!Standard(l, common) \subseteq Root!Above(common[2])
    BY DEF Root!Standard
  <2>2. s \in Root!Standard(l, common)
    BY <1>1, <1>3, <2>1, LongestIs
  <2>3. s \in DOMAIN l /\ l[s].kind # "none" /\ Root!GitDir(l, s) = common
    BY <2>2 DEF Root!Standard
  <2>4. s \in Seq(STRING)
    BY <2>3, RootAssumption
  <2>5. Root!SharedDir(l, d) = <<"dir", s \o rel>>
    BY <1>2, <1>3
  <2> HIDE DEF s
  <2>6. s \in Root!Above(s \o rel)
    BY <1>1, <2>4, BeginningIs DEF Root!Above
  <2> QED
    BY <2>3, <2>4, <2>5, <2>6 DEF s
<1> QED
  BY <1>2, <1>3

(* A directory beside another project is not one that has no repository.    *)
LEMMA LocalIsApart ==
  ASSUME NEW l \in Layouts, NEW p \in DOMAIN l, NEW q \in DOMAIN l,
         ~Root!HasRepository(l, p), Root!HasRepository(l, q)
  PROVE  Root!SharedDir(l, p) # Root!SharedDir(l, q)
<1> DEFINE common == Root!CommonDir(l, q)
           rel == Root!Within(l, q)
<1>1. Root!SharedDir(l, p) = <<"dir", p>>
  BY DEF Root!SharedDir, Root!Local
<1>2. CASE Root!Standard(l, common) = {}
  <2>1. Root!SharedDir(l, q) = <<"git", common, rel>>
    BY <1>2, SharedDirIs
  <2> QED
    BY <1>1, <2>1
<1>3. CASE Root!Standard(l, common) # {}
  <2>1. PICK s \in Seq(STRING) \cap DOMAIN l :
          /\ Root!SharedDir(l, q) = <<"dir", s \o rel>> /\ l[s].kind # "none"
          /\ s \in Root!Above(s \o rel)
    BY <1>3, SharedDirIs
  <2>2. s \o rel # p
    BY <2>1 DEF Root!HasRepository, Root!Repositories
  <2> QED
    BY <1>1, <2>1, <2>2
<1> QED
  BY <1>2, <1>3

(* Two projects that get one directory have one repository, and the same    *)
(* place in it.                                                             *)
LEMMA ProjectsAreApart ==
  ASSUME NEW l \in Layouts, NEW p \in DOMAIN l, NEW q \in DOMAIN l, p # q,
         ~Root!Covered(l, p), ~Root!Covered(l, q)
  PROVE  Root!SharedDir(l, p) = Root!SharedDir(l, q) <=> Root!SameProject(l, p, q)
<1>1. CASE ~Root!HasRepository(l, p) /\ ~Root!HasRepository(l, q)
  BY <1>1 DEF Root!SharedDir, Root!Local, Root!SameProject
<1>2. CASE Root!HasRepository(l, p) /\ ~Root!HasRepository(l, q)
  BY <1>2, LocalIsApart DEF Root!SameProject
<1>3. CASE ~Root!HasRepository(l, p) /\ Root!HasRepository(l, q)
  BY <1>3, LocalIsApart DEF Root!SameProject
<1>4. CASE Root!HasRepository(l, p) /\ Root!HasRepository(l, q)
  <2> DEFINE cp == Root!CommonDir(l, p)
             rp == Root!Within(l, p)
             cq == Root!CommonDir(l, q)
             rq == Root!Within(l, q)
  <2>1. Root!SameProject(l, p, q) <=> cp = cq /\ rp = rq
    BY <1>4 DEF Root!SameProject
  <2>2. /\ Root!Standard(l, cp) = {} => Root!SharedDir(l, p) = <<"git", cp, rp>>
        /\ Root!Standard(l, cq) = {} => Root!SharedDir(l, q) = <<"git", cq, rq>>
    BY <1>4, SharedDirIs
  <2>3. Root!Standard(l, cp) # {} =>
          \E s \in DOMAIN l :
            /\ s = Root!Longest(Root!Standard(l, cp)) /\ Root!SharedDir(l, p) = <<"dir", s \o rp>>
            /\ s \in Seq(STRING) /\ l[s].kind # "none" /\ Root!GitDir(l, s) = cp
    BY <1>4, SharedDirIs
  <2>4. Root!Standard(l, cq) # {} =>
          \E s \in DOMAIN l :
            /\ s = Root!Longest(Root!Standard(l, cq)) /\ Root!SharedDir(l, q) = <<"dir", s \o rq>>
            /\ s \in Seq(STRING) /\ l[s].kind # "none" /\ Root!GitDir(l, s) = cq
    BY <1>4, SharedDirIs
  <2>5. ASSUME NEW s \in DOMAIN l, l[s].kind # "none", Root!GitDir(l, s) = cp
        PROVE  Root!CommonDir(l, s \o rp) = cp
    BY <1>4, <2>5 DEF Root!Covered
  <2>6. ASSUME NEW s \in DOMAIN l, l[s].kind # "none", Root!GitDir(l, s) = cq
        PROVE  Root!CommonDir(l, s \o rq) = cq
    BY <1>4, <2>6 DEF Root!Covered
  <2>7. rp \in Seq(STRING) /\ rq \in Seq(STRING)
    BY <1>4, RepositoryIs
  <2> HIDE DEF cp, rp, cq, rq
  <2>8. ASSUME cp = cq, rp = rq PROVE Root!SharedDir(l, p) = Root!SharedDir(l, q)
    <3>1. CASE Root!Standard(l, cp) = {}
      BY <2>2, <2>8, <3>1
    <3>2. CASE Root!Standard(l, cp) # {}
      <4>1. PICK s : s = Root!Longest(Root!Standard(l, cp)) /\ Root!SharedDir(l, p) = <<"dir", s \o rp>>
        BY <2>3, <3>2
      <4>2. Root!Standard(l, cq) # {}
        BY <2>8, <3>2
      <4>3. PICK t : t = Root!Longest(Root!Standard(l, cq)) /\ Root!SharedDir(l, q) = <<"dir", t \o rq>>
        BY <2>4, <4>2
      <4>4. t = s
        BY <2>8, <4>1, <4>3
      <4> QED
        BY <2>8, <4>1, <4>3, <4>4
    <3> QED
      BY <3>1, <3>2
  <2>9. ASSUME Root!SharedDir(l, p) = Root!SharedDir(l, q) PROVE cp = cq /\ rp = rq
    <3>1. CASE Root!Standard(l, cp) = {} /\ Root!Standard(l, cq) = {}
      BY <2>2, <2>9, <3>1
    <3>2. CASE Root!Standard(l, cp) = {} /\ Root!Standard(l, cq) # {}
      BY <2>2, <2>4, <2>9, <3>2
    <3>3. CASE Root!Standard(l, cp) # {} /\ Root!Standard(l, cq) = {}
      BY <2>2, <2>3, <2>9, <3>3
    <3>4. CASE Root!Standard(l, cp) # {} /\ Root!Standard(l, cq) # {}
      <4>1. PICK s \in DOMAIN l :
              /\ s = Root!Longest(Root!Standard(l, cp)) /\ Root!SharedDir(l, p) = <<"dir", s \o rp>>
              /\ s \in Seq(STRING) /\ l[s].kind # "none" /\ Root!GitDir(l, s) = cp
        BY <2>3, <3>4
      <4>2. PICK t \in DOMAIN l :
              /\ t = Root!Longest(Root!Standard(l, cq)) /\ Root!SharedDir(l, q) = <<"dir", t \o rq>>
              /\ t \in Seq(STRING) /\ l[t].kind # "none" /\ Root!GitDir(l, t) = cq
        BY <2>4, <3>4
      <4>3. s \o rp = t \o rq
        <5> DEFINE x == s \o rp
                   y == t \o rq
        <5>1. <<"dir", x>> = <<"dir", y>>
          BY <2>9, <4>1, <4>2
        <5> HIDE DEF x, y
        <5>2. x = y
          BY <5>1
        <5> QED
          BY <5>2 DEF x, y
      <4>4. cp = cq
        BY <2>5, <2>6, <4>1, <4>2, <4>3
      <4>5. s = t
        BY <4>1, <4>2, <4>4
      <4>6. rp = rq
        <5>1. Len(rp) = Len(rq) /\ Len(rp) \in Nat /\ Len(s) \in Nat
          <6>1. Len(s \o rp) = Len(s) + Len(rp) /\ Len(s \o rq) = Len(s) + Len(rq)
            BY <2>7, <4>1
          <6> QED
            BY <2>7, <4>1, <4>3, <4>5, <6>1
        <5>2. \A i \in 1..Len(rp) : (s \o rp)[Len(s) + i] = rp[i] /\ (s \o rq)[Len(s) + i] = rq[i]
          BY <2>7, <4>1, <5>1
        <5>3. rp = [i \in 1..Len(rp) |-> rp[i]] /\ rq = [i \in 1..Len(rq) |-> rq[i]]
          BY <2>7
        <5>4. \A i \in 1..Len(rp) : rp[i] = rq[i]
          BY <4>3, <4>5, <5>2
        <5> QED
          BY <5>1, <5>3, <5>4
      <4> QED
        BY <4>4, <4>6
    <3> QED
      BY <3>1, <3>2, <3>3, <3>4
  <2> QED
    BY <2>1, <2>8, <2>9 DEF cp, cq, rp, rq
<1> QED
  BY <1>1, <1>2, <1>3, <1>4

(* What a lookup answers tells any two projects apart.                      *)
LEMMA RootsAreApart == Root!ProjectsApart
BY ProjectsAreApart DEF Root!ProjectsApart

(* A launcher or section that counts as fresh runs the runtime of today,    *)
(* whatever was edited or killed before; a saved reasoning reaches only the *)
(* model it was asked for; and all parts of a process get one state         *)
(* directory (InstalledAsMeant; src/git/hook-installation.ts:43,            *)
(* review-preference.ts:106, git/state-root.ts:30).                         *)
THEOREM InstalledIsAsMeant == PartsSpec => []InstalledAsMeant
<1>1. InstallationInv => (part = "installation" => Installation!FreshMeansRuns)
  BY FreshRuns DEF InstallationInv
<1>2. PreferenceInv => (part = "preference" => Preference!ReasoningFitsModel)
  BY ReasoningFits DEF PreferenceInv
<1>3. RootInv => (part = "root" => Root!OneDirectory)
  BY RootIsOne DEF RootInv
<1>4. InstallationInv /\ PreferenceInv /\ RootInv => InstalledAsMeant
  BY <1>1, <1>2, <1>3 DEF InstalledAsMeant
<1> QED
  BY <1>4, InstallationInductive, PreferenceInductive, RootInductive, PTL

-----------------------------------------------------------------------------
(* Possible duplicates                                                      *)

LEMMA MatchAlone == part = "duplicates" /\ PartsNext => Match!MatchNext
BY DEF PartsNext, OpenDatabase, InstallHook, SetUpAgent, ChoosePreference,
  FindStateRoot, KeepFindings, SuggestDuplicate, SummariseFindings, GatherContext,
  ReadDiff, ReadDocument, PublishFindings, RecordTelemetry, RunCommand, CheckProtocol,
  ScoreCase, RunEvaluation, RunVerification, Runs, Rest

(* The cardinality of a part's module is that of all.                       *)
LEMMA MatchCounts == ASSUME NEW S PROVE Match!Cardinality(S) = Cardinality(S)
BY DEF Match!Cardinality, Cardinality

LEMMA MatchStarts ==
  ASSUME Match!MatchInit
  PROVE  Match!MatchFits
<1>1. ASSUME NEW r \in DisposedRows PROVE s2[r].seen \in Match!Observations
  BY DEF Match!MatchInit
<1> QED
  BY <1>1 DEF Match!MatchInit, Match!MatchFits, Match!SuggestionIsBest

(* A query that is not cut off returns every row that it admits.            *)
LEMMA QueriedAll ==
  ASSUME Match!MatchFits, Match!NotCutOff
  PROVE  Match!Queried = Match!AdmittedRows
<1> DEFINE A == Match!AdmittedRows
           B(r) == {s \in A : Match!Before(s, r)}
<1>1. A \subseteq DisposedRows
  BY DEF Match!AdmittedRows
<1>5. Match!Queried = {r \in A : Cardinality({s \in A : Match!Before(s, r)}) < RowLimit}
  BY MatchCounts DEF Match!Queried
<1>2. Cardinality(A) <= RowLimit /\ RowLimit \in Nat
  BY MatchAssumption, MatchCounts DEF Match!NotCutOff
<1> HIDE DEF A
<1>3. IsFiniteSet(A) /\ Cardinality(A) \in Nat
  BY <1>1, MatchAssumption, FS_Subset, FS_CardinalityType
<1>4. ASSUME NEW r \in A PROVE Cardinality(B(r)) < RowLimit
  <2>1. B(r) \subseteq A /\ r \notin B(r)
    <3>1. r \in Nat /\ s2[r].updated \in Nat
      BY <1>1, MatchAssumption DEF Match!MatchFits
    <3> QED
      BY <3>1 DEF Match!Before
  <2>2. Cardinality(B(r)) < Cardinality(A) /\ Cardinality(B(r)) \in Nat
    <3> HIDE DEF B
    <3>1. IsFiniteSet(B(r)) /\ Cardinality(B(r)) <= Cardinality(A)
          /\ (Cardinality(B(r)) = Cardinality(A) => B(r) = A)
      BY <1>3, <2>1, FS_Subset
    <3>2. Cardinality(B(r)) \in Nat
      BY <3>1, FS_CardinalityType
    <3> QED
      BY <1>3, <2>1, <3>1, <3>2
  <2> HIDE DEF B
  <2> QED
    BY <1>2, <1>3, <2>2
<1> QED
  BY <1>4, <1>5 DEF A

(* While no text needs more than ASCII, the query admits what is accepted.  *)
LEMMA AcceptedIsAdmitted ==
  ASSUME s1 \in Match!Observations, Match!Plain(s1),
         NEW o \in Match!Observations, Match!Plain(o), Match!Kind(s1, o) # "none"
  PROVE  Match!Admitted(o)
<1>1. o.file \in PathTexts /\ s1.file \in PathTexts
      /\ o.symbol \in SymbolTexts \cup {Match!NoSymbol} /\ s1.symbol \in SymbolTexts \cup {Match!NoSymbol}
  BY DEF Match!Observations
<1>2. /\ o.file = [base |-> o.file.base, takes |-> o.file.takes]
      /\ s1.file = [base |-> s1.file.base, takes |-> s1.file.takes]
      /\ o.symbol \in SymbolTexts =>
           o.symbol = [known |-> o.symbol.known, base |-> o.symbol.base, takes |-> o.symbol.takes]
           /\ o.symbol.base # "none"
      /\ s1.symbol \in SymbolTexts =>
           s1.symbol = [known |-> s1.symbol.known, base |-> s1.symbol.base, takes |-> s1.symbol.takes]
           /\ s1.symbol.base # "none"
  BY <1>1, MatchAssumption
<1>3. o.file.base = s1.file.base
  BY DEF Match!Kind, Match!Normalized
<1>4. Match!SqlEqual(o.file, s1.file)
  BY <1>2, <1>3 DEF Match!SqlEqual, Match!Lower, Match!Plain
<1>5. CASE Match!Symbol(s1) # "none" /\ Match!Symbol(o) # "none"
  <2>1. /\ Match!Symbol(s1) = Match!Symbol(o)
        /\ s1.symbol.known /\ o.symbol.known /\ o.symbol.base = s1.symbol.base
    BY <1>5 DEF Match!Kind, Match!Symbol, Match!Normalized
  <2>2. o.symbol # Match!NoSymbol /\ s1.symbol # Match!NoSymbol
    BY <2>1 DEF Match!NoSymbol
  <2>3. Match!SqlEqual(o.symbol, s1.symbol)
    <3>1. o.symbol.takes # "more"
      BY DEF Match!Plain
    <3>2. o.symbol.known = s1.symbol.known
      BY <2>1, <1>1, <1>2, <2>2, MatchAssumption
    <3> QED
      BY <1>1, <1>2, <2>1, <2>2, <3>1, <3>2 DEF Match!SqlEqual, Match!Lower
  <2> QED
    BY <1>4, <1>5, <2>2, <2>3 DEF Match!Admitted
<1>6. CASE Match!Symbol(s1) = "none" \/ Match!Symbol(o) = "none"
  <2>1. Match!Distance(s1, o) <= MaxDistance
    BY <1>6 DEF Match!Kind
  <2>2. Match!Distance(o, s1) = Match!Distance(s1, o)
    <3>1. o.line \in Nat /\ s1.line \in Nat
      BY MatchAssumption DEF Match!Observations
    <3> QED
      BY <3>1 DEF Match!Distance
  <2>3. Match!Symbol(s1) = "none" \/ ~o.symbol.known
    BY <1>1, <1>2, <1>6 DEF Match!Symbol, Match!Normalized, Match!NoSymbol
  <2> QED
    BY <1>4, <2>1, <2>2, <2>3 DEF Match!Admitted
<1> QED
  BY <1>5, <1>6

LEMMA MatchKeeps ==
  ASSUME Match!MatchFits, Match!MatchNext
  PROVE  Match!MatchFits'
<1>1. s1' = s1 /\ s2' = s2 /\ s3 = <<>>
  BY DEF Match!MatchNext, Match!Suggest, Match!SuggestNothing
<1>2. s1 \in Match!Observations
      /\ \A r \in DisposedRows : s2[r].seen \in Match!Observations /\ s2[r].updated \in Nat
  BY DEF Match!MatchFits
<1> DEFINE accepted == Match!Eligible(DisposedRows)
           plain == Match!AllPlain
           whole == Match!NotCutOff
<1>3. Match!Eligible(Match!Queried) \subseteq accepted
  BY DEF Match!Eligible, Match!Queried, Match!AdmittedRows
<1>4. ASSUME plain, whole PROVE Match!Eligible(Match!Queried) = accepted
  <2>1. Match!Queried = Match!AdmittedRows
    BY <1>4, QueriedAll
  <2>2. ASSUME NEW r \in DisposedRows, Match!Kind(s1, s2[r].seen) # "none"
        PROVE  Match!Admitted(s2[r].seen)
    BY <1>2, <1>4, <2>2, AcceptedIsAdmitted DEF Match!AllPlain
  <2> QED
    BY <2>1, <2>2 DEF Match!Eligible, Match!AdmittedRows
<1> HIDE DEF whole, plain
<1>5. \A r \in accepted : r \in DisposedRows /\ r # 0 /\ Match!Kind(s1, s2[r].seen) # "none"
  BY MatchAssumption DEF Match!Eligible
<1>8. Match!Eligible(DisposedRows)' = accepted
  BY <1>1 DEF Match!Eligible
<1>9. ASSUME NEW r, NEW s PROVE Match!Better(r, s)' <=> Match!Better(r, s)
  BY <1>1 DEF Match!Better
<1>10. Match!AdmittedRows' = Match!AdmittedRows
  BY <1>1 DEF Match!AdmittedRows, Match!Admitted
<1>11. (Match!AllPlain' <=> plain) /\ (Match!NotCutOff' <=> whole)
  BY <1>1, <1>10 DEF plain, whole, Match!AllPlain, Match!NotCutOff
<1>6. CASE Match!Suggest
  <2>1. PICK r \in Match!Best(Match!Eligible(Match!Queried)) :
          s3' = <<[row |-> r, matched |-> s2[r].seen, source |-> s2[r].event,
                   kind |-> Match!Kind(s1, s2[r].seen),
                   shared |-> Match!Shared(s1, s2[r].seen), size |-> Match!Size(s1, s2[r].seen),
                   distance |-> Match!Distance(s1, s2[r].seen),
                   symbols |-> <<Match!Symbol(s1), Match!Symbol(s2[r].seen)>>]>>
    BY <1>6 DEF Match!Suggest
  <2> DEFINE l == s3'[1]
             o == s2[r].seen
  <2>2. /\ l.row = r /\ l.matched = o /\ l.kind = Match!Kind(s1, o)
        /\ l.shared = Match!Shared(s1, o) /\ l.size = Match!Size(s1, o)
        /\ l.distance = Match!Distance(s1, o) /\ l.symbols = <<Match!Symbol(s1), Match!Symbol(o)>>
    BY <2>1
  <2>3. r \in Match!Eligible(Match!Queried)
    BY DEF Match!Best
  <2>4. r \in accepted
    BY <1>3, <2>3
  <2> HIDE DEF accepted, l
  <2>5. plain /\ whole => accepted # {} /\ r \in Match!Best(accepted)
    BY <1>4, <2>4
  <2>6. Match!Loads(l)
    <3>1. l.kind = "symbol" => Match!Symbol(s1) # "none" /\ Match!Symbol(s1) = Match!Symbol(o)
      <4>1. l.kind = Match!Kind(s1, o)
        BY <2>2
      <4> HIDE DEF o
      <4> QED
        BY <4>1 DEF Match!Kind
    <3>2. l.symbols[1] = Match!Symbol(s1) /\ l.symbols[2] = Match!Symbol(o)
      BY <2>2
    <3> HIDE DEF o
    <3> QED
      BY <2>2, <3>1, <3>2 DEF Match!Loads
  <2>7. Match!SuggestionIsBest'
    <3>1. r \in Match!Best(accepted) => \A q \in accepted \ {r} : Match!Better(r, q)
      BY DEF Match!Best
    <3>2. s3'[1] = l
      BY DEF l
    <3>3. Match!Loads(s3[1])'
      BY <1>1, <2>6, <3>2 DEF Match!Loads
    <3>4. plain /\ whole => r \in Match!Best(Match!Eligible(DisposedRows))'
      BY <1>8, <1>9, <2>4, <2>5, <3>1 DEF Match!Best
    <3> QED
      BY <1>5, <1>8, <1>11, <2>2, <2>4, <2>5, <3>2, <3>3, <3>4 DEF Match!SuggestionIsBest
  <2> QED
    BY <1>1, <1>2, <2>7 DEF Match!MatchFits
<1>7. CASE Match!SuggestNothing
  <2>1. Match!Eligible(Match!Queried) = {} /\ s3' = <<[row |-> 0]>>
    BY <1>7 DEF Match!SuggestNothing
  <2>2. s3'[1].row = 0
    BY <2>1
  <2>3. plain /\ whole => accepted = {}
    BY <1>4, <2>1
  <2>4. Match!SuggestionIsBest'
    BY <1>8, <1>11, <2>2, <2>3 DEF Match!SuggestionIsBest
  <2> QED
    BY <1>1, <1>2, <2>4 DEF Match!MatchFits
<1> QED
  BY <1>6, <1>7 DEF Match!MatchNext

MatchInv == part = "duplicates" => Match!MatchFits

LEMMA MatchInductive == PartsSpec => []MatchInv
<1>1. PartsInit => MatchInv
  BY MatchStarts DEF PartsInit, MatchInv
<1>2. MatchInv /\ [PartsNext]_partsVars => MatchInv'
  <2>1. ASSUME MatchInv, PartsNext
        PROVE  MatchInv'
    BY <2>1, PartStays, MatchAlone, MatchKeeps DEF MatchInv
  <2>2. ASSUME MatchInv, UNCHANGED partsVars
        PROVE  MatchInv'
    <3>1. s1' = s1 /\ s2' = s2 /\ s3' = s3 /\ part' = part
      BY <2>2 DEF partsVars
    <3>2. /\ Match!Eligible(DisposedRows)' = Match!Eligible(DisposedRows)
          /\ Match!AdmittedRows' = Match!AdmittedRows
          /\ Match!AllPlain' <=> Match!AllPlain
      BY <3>1 DEF Match!Eligible, Match!AdmittedRows, Match!Admitted, Match!AllPlain
    <3>3. Match!NotCutOff' <=> Match!NotCutOff
      BY <3>2 DEF Match!NotCutOff
    <3>4. ASSUME NEW r, NEW s PROVE Match!Better(r, s)' <=> Match!Better(r, s)
      BY <3>1 DEF Match!Better
    <3>5. Match!Best(Match!Eligible(DisposedRows))' = Match!Best(Match!Eligible(DisposedRows))
      BY <3>2, <3>4 DEF Match!Best
    <3>6. Match!Loads(s3[1])' <=> Match!Loads(s3[1])
      BY <3>1 DEF Match!Loads
    <3>7. Match!SuggestionIsBest' <=> Match!SuggestionIsBest
      BY <3>1, <3>2, <3>3, <3>5, <3>6 DEF Match!SuggestionIsBest
    <3> QED
      BY <2>2, <3>1, <3>7 DEF MatchInv, Match!MatchFits
  <2> QED
    BY <2>1, <2>2
<1> QED
  BY <1>1, <1>2, PTL DEF PartsSpec

(* What a review found is kept whole: every finding of its document is in   *)
(* the report or counted there, the checker withholds one only on its own   *)
(* word, and the duplicate suggested is the best there is (AnswerIsKept;    *)
(* src/review/verification.ts:268, state/possible-duplicates.ts:71).        *)
THEOREM AnswersAreKept == PartsSpec => []AnswerIsKept
<1>1. AnswerInv /\ MatchInv => AnswerIsKept
  BY DEF AnswerInv, MatchInv, AnswerIsKept, Answer!FindingsFit, Match!MatchFits
<1> QED
  BY <1>1, AnswerInductive, MatchInductive, PTL

-----------------------------------------------------------------------------
(* The text of a diff                                                       *)

LEMMA TextAlone == part = "diff" /\ PartsNext => Text!TextNext
BY DEF PartsNext, OpenDatabase, InstallHook, SetUpAgent, ChoosePreference,
  FindStateRoot, KeepFindings, SuggestDuplicate, SummariseFindings, GatherContext,
  ReadDiff, ReadDocument, PublishFindings, RecordTelemetry, RunCommand, CheckProtocol,
  ScoreCase, RunEvaluation, RunVerification, Runs, Rest

LEMMA TextCounts == ASSUME NEW S PROVE Text!Cardinality(S) = Cardinality(S) /\ (Text!IsFiniteSet(S) <=> IsFiniteSet(S))
BY DEF Text!Cardinality, Cardinality, Text!IsFiniteSet, IsFiniteSet

(* Before the first line nothing is read.                                   *)
LEMMA TextStarts ==
  ASSUME Text!TextInit
  PROVE  Text!TextFits
<1>1. s1 = <<>> /\ s2 = "files" /\ s3 = <<>> /\ s4 = "none" /\ s5 = 0 /\ s6 = {}
  BY DEF Text!TextInit
<1>2. s1 \in Seq(Text!File) /\ s3 \in Seq(Text!Draft) /\ Len(s1) = 0 /\ Len(s3) = 0 /\ 1..0 = {}
  BY <1>1
<1>3. Text!ReadSoFar
  BY <1>1, <1>2 DEF Text!ReadSoFar
<1> QED
  BY <1>1, <1>2, <1>3 DEF Text!TextFits, Text!FilesFit

(* A file or a draft with changed fields, which OnLast puts at the end.     *)
WithChanges(f, changes) == [x \in DOMAIN f |-> IF x \in DOMAIN changes THEN changes[x] ELSE f[x]]

(* Changed fields of a file leave it a file,                                *)
LEMMA FileChanges ==
  ASSUME NEW f \in Text!File, NEW changes,
         \A x \in DOMAIN changes : x \in {"text", "deletions", "at", "lines", "count", "odd"},
         "text" \in DOMAIN changes => changes.text \in BOOLEAN,
         "deletions" \in DOMAIN changes => changes.deletions \in Nat,
         "at" \in DOMAIN changes => changes.at \in Nat \ {0},
         "lines" \in DOMAIN changes => changes.lines \in SUBSET Nat,
         "count" \in DOMAIN changes => changes.count \in Nat,
         "odd" \in DOMAIN changes => changes.odd \in BOOLEAN
  PROVE  /\ WithChanges(f, changes) \in Text!File
         /\ \A x \in DOMAIN f : WithChanges(f, changes)[x] = IF x \in DOMAIN changes THEN changes[x] ELSE f[x]
         /\ DOMAIN f = {"path", "old", "status", "form", "text", "deletions", "at", "lines", "count", "odd"}
<1>1. DOMAIN f = {"path", "old", "status", "form", "text", "deletions", "at", "lines", "count", "odd"}
  BY DEF Text!File
<1>2. \A x \in DOMAIN f : WithChanges(f, changes)[x] = IF x \in DOMAIN changes THEN changes[x] ELSE f[x]
  BY DEF WithChanges
<1> DEFINE g == WithChanges(f, changes)
<1>3. g = [path |-> g["path"], old |-> g["old"], status |-> g["status"], form |-> g["form"], text |-> g["text"],
           deletions |-> g["deletions"], at |-> g["at"], lines |-> g["lines"], count |-> g["count"], odd |-> g["odd"]]
  BY <1>1 DEF WithChanges
<1>4. /\ g["path"] \in Names /\ g["old"] \in Names /\ g["status"] \in Text!Statuses /\ g["form"] \in {"plain", "combined"}
      /\ g["text"] \in BOOLEAN /\ g["deletions"] \in Nat /\ g["at"] \in Nat \ {0} /\ g["lines"] \in SUBSET Nat
      /\ g["count"] \in Nat /\ g["odd"] \in BOOLEAN
  BY <1>1, <1>2 DEF Text!File
<1> HIDE DEF g
<1>5. g \in Text!File
  BY <1>3, <1>4 DEF Text!File
<1> QED
  BY <1>1, <1>2, <1>5 DEF g

(* and of a draft a draft.                                                  *)
LEMMA DraftChanges ==
  ASSUME NEW d \in Text!Draft, NEW changes,
         \A x \in DOMAIN changes : x \in {"path", "status", "additions", "deletions"},
         "path" \in DOMAIN changes => changes.path \in Names,
         "status" \in DOMAIN changes => changes.status \in Text!Statuses,
         "additions" \in DOMAIN changes => changes.additions \in Nat,
         "deletions" \in DOMAIN changes => changes.deletions \in Nat
  PROVE  /\ WithChanges(d, changes) \in Text!Draft
         /\ \A x \in DOMAIN d : WithChanges(d, changes)[x] = IF x \in DOMAIN changes THEN changes[x] ELSE d[x]
         /\ DOMAIN d = {"header", "sourcePath", "path", "status", "additions", "deletions"}
<1>1. DOMAIN d = {"header", "sourcePath", "path", "status", "additions", "deletions"}
  BY DEF Text!Draft
<1>2. \A x \in DOMAIN d : WithChanges(d, changes)[x] = IF x \in DOMAIN changes THEN changes[x] ELSE d[x]
  BY DEF WithChanges
<1> DEFINE g == WithChanges(d, changes)
<1>3. g = [header |-> g["header"], sourcePath |-> g["sourcePath"], path |-> g["path"], status |-> g["status"],
           additions |-> g["additions"], deletions |-> g["deletions"]]
  BY <1>1 DEF WithChanges
<1>4. /\ g["header"] \in Names /\ g["sourcePath"] \in Names /\ g["path"] \in Names /\ g["status"] \in Text!Statuses
      /\ g["additions"] \in Nat /\ g["deletions"] \in Nat
  BY <1>1, <1>2 DEF Text!Draft
<1> HIDE DEF g
<1>5. g \in Text!Draft
  BY <1>3, <1>4 DEF Text!Draft
<1> QED
  BY <1>1, <1>2, <1>5 DEF g

(* The last of a sequence changes, the others stay.                         *)
LEMMA OnLastIs ==
  ASSUME NEW S, NEW s \in Seq(S), s # <<>>, NEW changes, WithChanges(s[Len(s)], changes) \in S
  PROVE  /\ Text!OnLast(s, changes) \in Seq(S) /\ Len(Text!OnLast(s, changes)) = Len(s)
         /\ Len(s) \in Nat \ {0} /\ s[Len(s)] \in S
         /\ Text!OnLast(s, changes)[Len(s)] = WithChanges(s[Len(s)], changes)
         /\ \A i \in 1..Len(s) : i # Len(s) => Text!OnLast(s, changes)[i] = s[i]
<1>1. Len(s) \in Nat \ {0} /\ s[Len(s)] \in S
  OBVIOUS
<1> DEFINE r == WithChanges(s[Len(s)], changes)
           next == [s EXCEPT ![Len(s)] = r]
<1>2. Text!OnLast(s, changes) = next
  BY DEF Text!OnLast, WithChanges
<1> HIDE DEF r
<1>3. /\ next \in Seq(S) /\ Len(next) = Len(s) /\ next[Len(s)] = r
      /\ \A i \in 1..Len(s) : i # Len(s) => next[i] = s[i]
  BY <1>1 DEF r
<1> HIDE DEF next
<1> QED
  BY <1>1, <1>2, <1>3 DEF r

(* The file of a line; it stays the file it is.                             *)
LastFile == s1[Len(s1)]
LastDraft == s3[Len(s3)]
FileGoesOn(g) ==
  /\ s1' \in Seq(Text!File) /\ Len(s1') = Len(s1) /\ s1'[Len(s1)] = g /\ g \in Text!File
  /\ \A i \in 1..Len(s1) : i # Len(s1) => s1'[i] = s1[i]
  /\ g.path = LastFile.path /\ g.old = LastFile.old /\ g.form = LastFile.form /\ g.status = LastFile.status
DraftGoesOn(e) ==
  /\ s3' \in Seq(Text!Draft) /\ Len(s3') = Len(s3) /\ s3'[Len(s3)] = e /\ e \in Text!Draft
  /\ \A i \in 1..Len(s3) : i # Len(s3) => s3'[i] = s3[i]
  /\ e.header = LastDraft.header /\ e.sourcePath = LastDraft.sourcePath

(* The files fit when one more line of the last was written.                *)
LEMMA FilesGoOn ==
  ASSUME Text!FilesFit, s1 # <<>>, NEW g, FileGoesOn(g),
         IsFiniteSet(g.lines), \A l \in g.lines : l < g.at,
         s2' \in {"files", "renaming", "sides", "hunk", "opened", "lines"}
  PROVE  Text!FilesFit' /\ (Text!AllLegible' <=> Text!AllLegible)
<1>1. Len(s1) \in Nat \ {0} /\ s1' # <<>>
  BY DEF Text!FilesFit, FileGoesOn
<1>2. ASSUME NEW i \in 1..Len(s1)
      PROVE  /\ IsFiniteSet(s1'[i].lines) /\ \A l \in s1'[i].lines : l < s1'[i].at
             /\ Text!Legible(s1'[i]) <=> Text!Legible(s1[i])
  <2>1. CASE i = Len(s1)
    BY <2>1 DEF FileGoesOn, Text!Legible, LastFile
  <2>2. CASE i # Len(s1)
    BY <1>2, <2>2, TextCounts DEF FileGoesOn, Text!FilesFit
  <2> QED
    BY <2>1, <2>2
<1>3. Text!AllLegible' <=> Text!AllLegible
  BY <1>2 DEF Text!AllLegible, FileGoesOn, Text!Legible
<1> QED
  BY <1>1, <1>2, <1>3, TextCounts DEF Text!FilesFit, FileGoesOn

(* What was read is understood when of the last file only pairs of its own  *)
(* path are added: the paths of the files differ.                           *)
LEMMA ReadingGoesOn ==
  ASSUME Text!FilesFit, Text!ReadSoFar, s1 # <<>>, NEW g, FileGoesOn(g), NEW e, DraftGoesOn(e),
         NEW more \in SUBSET ({LastFile.path} \X Nat), s6' = s6 \cup more, s5' \in Nat, s4' = LastFile.path,
         Text!Understood(g, e, s6'),
         s2' \in {"opened", "lines"} /\ ~g.odd => s5' = g.at,
         s2' = "renaming" => g.status = "renamed",
         s2' = "sides" => e.status = IF g.status = "renamed" THEN "renamed" ELSE "modified"
  PROVE  Text!ReadSoFar'
<1>1. /\ Len(s1) \in Nat \ {0} /\ Len(s3) = Len(s1) /\ s3 # <<>> /\ s3 \in Seq(Text!Draft)
      /\ Text!Last(s1') = g /\ Text!Last(s3') = e
  BY DEF Text!FilesFit, Text!ReadSoFar, FileGoesOn, DraftGoesOn, Text!Last
<1>2. ASSUME NEW i \in 1..Len(s1)
      PROVE  s1'[i].path = s1[i].path
  BY DEF FileGoesOn, LastFile
<1>3. ASSUME NEW i \in 1..Len(s1)
      PROVE  s3'[i].header = s1'[i].path /\ Text!Understood(s1'[i], s3'[i], s6')
  <2>1. s3[i].header = s1[i].path /\ Text!Understood(s1[i], s3[i], s6)
    BY DEF Text!ReadSoFar
  <2>2. CASE i = Len(s1)
    BY <1>1, <1>2, <2>1, <2>2 DEF FileGoesOn, DraftGoesOn, LastDraft, LastFile
  <2>3. CASE i # Len(s1)
    <3>1. s1'[i] = s1[i] /\ s3'[i] = s3[i]
      BY <1>1, <2>3 DEF FileGoesOn, DraftGoesOn
    <3>2. s1[i].path # LastFile.path
      BY <1>1, <2>3 DEF Text!ReadSoFar, LastFile
    <3>3. {p \in s6' : p[1] = s1[i].path} = {p \in s6 : p[1] = s1[i].path}
      BY <3>2
    <3> QED
      BY <2>1, <3>1, <3>3 DEF Text!Understood
  <2> QED
    BY <2>2, <2>3
<1>4. \A i, j \in 1..Len(s1') : s1'[i].path = s1'[j].path => i = j
  BY <1>2 DEF Text!ReadSoFar, FileGoesOn
<1>5. s6' \subseteq {s1'[i].path : i \in 1..Len(s1')} \X Nat
  <2>1. {s1'[i].path : i \in 1..Len(s1')} = {s1[i].path : i \in 1..Len(s1)}
    BY <1>2 DEF FileGoesOn
  <2>2. LastFile.path \in {s1[i].path : i \in 1..Len(s1)}
    BY <1>1 DEF LastFile
  <2>3. s6 \subseteq {s1[i].path : i \in 1..Len(s1)} \X Nat
    BY DEF Text!ReadSoFar
  <2> QED
    BY <2>1, <2>2, <2>3
<1>6. /\ s3' \in Seq(Text!Draft) /\ Len(s3') = Len(s1') /\ Len(s1') = Len(s1) /\ g.path = LastFile.path
  BY <1>1 DEF FileGoesOn, DraftGoesOn
<1> QED
  BY <1>1, <1>3, <1>4, <1>5, <1>6 DEF Text!ReadSoFar

(* The last file,                                                           *)
LEMMA LinesFit ==
  ASSUME Text!FilesFit, s1 # <<>>
  PROVE  /\ LastFile \in Text!File /\ Text!Last(s1) = LastFile /\ s1 \in Seq(Text!File) /\ Len(s1) \in Nat \ {0}
         /\ IsFiniteSet(LastFile.lines) /\ (\A l \in LastFile.lines : l < LastFile.at)
         /\ s1' = s1 => FileGoesOn(LastFile)
<1>1. Len(s1) \in Nat \ {0} /\ s1 \in Seq(Text!File) /\ LastFile \in Text!File
  BY DEF Text!FilesFit, LastFile
<1>2. IsFiniteSet(LastFile.lines) /\ \A l \in LastFile.lines : l < LastFile.at
  BY <1>1, TextCounts DEF Text!FilesFit, LastFile
<1> QED
  BY <1>1, <1>2 DEF FileGoesOn, LastFile, Text!Last

(* the last draft,                                                          *)
LEMMA DraftsFit ==
  ASSUME Text!FilesFit, Text!ReadSoFar, s1 # <<>>
  PROVE  /\ LastDraft \in Text!Draft /\ Text!Last(s3) = LastDraft /\ s3 \in Seq(Text!Draft) /\ s3 # <<>>
         /\ LastDraft.header = LastFile.path /\ Text!Understood(LastFile, LastDraft, s6)
         /\ s3' = s3 => DraftGoesOn(LastDraft)
<1>1. Len(s3) = Len(s1) /\ Len(s1) \in Nat \ {0} /\ s3 \in Seq(Text!Draft)
  BY DEF Text!FilesFit, Text!ReadSoFar
<1>2. LastDraft \in Text!Draft /\ s3 # <<>>
  BY <1>1 DEF LastDraft
<1>3. LastDraft.header = LastFile.path /\ Text!Understood(LastFile, LastDraft, s6)
  BY <1>1 DEF Text!ReadSoFar, LastDraft, LastFile
<1> QED
  BY <1>1, <1>2, <1>3 DEF DraftGoesOn, LastDraft, Text!Last

(* and what a step that changes one of them leaves.                         *)
LEMMA FileIsChanged ==
  ASSUME Text!FilesFit, s1 # <<>>, NEW changes, s1' = Text!OnLast(s1, changes),
         \A x \in DOMAIN changes : x \in {"text", "deletions", "at", "lines", "count", "odd"},
         "text" \in DOMAIN changes => changes.text \in BOOLEAN,
         "deletions" \in DOMAIN changes => changes.deletions \in Nat,
         "at" \in DOMAIN changes => changes.at \in Nat \ {0},
         "lines" \in DOMAIN changes => changes.lines \in SUBSET Nat,
         "count" \in DOMAIN changes => changes.count \in Nat,
         "odd" \in DOMAIN changes => changes.odd \in BOOLEAN
  PROVE  FileGoesOn(WithChanges(LastFile, changes))
<1> DEFINE g == WithChanges(LastFile, changes)
<1>1. LastFile \in Text!File /\ s1 \in Seq(Text!File) /\ LastFile = s1[Len(s1)]
  BY LinesFit DEF LastFile
<1>2. /\ g \in Text!File
      /\ \A x \in DOMAIN LastFile : g[x] = IF x \in DOMAIN changes THEN changes[x] ELSE LastFile[x]
      /\ DOMAIN LastFile = {"path", "old", "status", "form", "text", "deletions", "at", "lines", "count", "odd"}
  BY <1>1, FileChanges
<1>3. g.path = LastFile.path /\ g.old = LastFile.old /\ g.form = LastFile.form /\ g.status = LastFile.status
  BY <1>2
<1> HIDE DEF g
<1>4. g = WithChanges(s1[Len(s1)], changes)
  BY <1>1 DEF g
<1>5. /\ s1' \in Seq(Text!File) /\ Len(s1') = Len(s1) /\ s1'[Len(s1)] = g
      /\ \A i \in 1..Len(s1) : i # Len(s1) => s1'[i] = s1[i]
  BY <1>1, <1>2, <1>4, OnLastIs
<1>6. FileGoesOn(g)
  BY <1>2, <1>3, <1>5 DEF FileGoesOn
<1> QED
  BY <1>6 DEF g

LEMMA DraftIsChanged ==
  ASSUME Text!FilesFit, Text!ReadSoFar, s1 # <<>>, NEW changes, s3' = Text!OnLast(s3, changes),
         \A x \in DOMAIN changes : x \in {"path", "status", "additions", "deletions"},
         "path" \in DOMAIN changes => changes.path \in Names,
         "status" \in DOMAIN changes => changes.status \in Text!Statuses,
         "additions" \in DOMAIN changes => changes.additions \in Nat,
         "deletions" \in DOMAIN changes => changes.deletions \in Nat
  PROVE  DraftGoesOn(WithChanges(LastDraft, changes))
<1> DEFINE e == WithChanges(LastDraft, changes)
<1>1. LastDraft \in Text!Draft /\ s3 \in Seq(Text!Draft) /\ LastDraft = s3[Len(s3)] /\ s3 # <<>>
  BY DraftsFit DEF LastDraft
<1>2. /\ e \in Text!Draft
      /\ \A x \in DOMAIN LastDraft : e[x] = IF x \in DOMAIN changes THEN changes[x] ELSE LastDraft[x]
      /\ DOMAIN LastDraft = {"header", "sourcePath", "path", "status", "additions", "deletions"}
  BY <1>1, DraftChanges
<1>3. e.header = LastDraft.header /\ e.sourcePath = LastDraft.sourcePath
  BY <1>2
<1> HIDE DEF e
<1>4. e = WithChanges(s3[Len(s3)], changes)
  BY <1>1 DEF e
<1>5. /\ s3' \in Seq(Text!Draft) /\ Len(s3') = Len(s3) /\ s3'[Len(s3)] = e
      /\ \A i \in 1..Len(s3) : i # Len(s3) => s3'[i] = s3[i]
  BY <1>1, <1>2, <1>4, OnLastIs
<1>6. DraftGoesOn(e)
  BY <1>2, <1>3, <1>5 DEF DraftGoesOn
<1> QED
  BY <1>6 DEF e

(* What the readers make of a step: of the file g they have e, and more     *)
(* pairs of its path.                                                       *)
Continues(g, e, more) ==
  /\ DraftGoesOn(e) /\ more \in SUBSET ({LastFile.path} \X Nat) /\ s6' = s6 \cup more
  /\ s5' \in Nat /\ s4' = LastFile.path
  /\ Text!Understood(g, e, s6')
  /\ s2' \in {"opened", "lines"} /\ ~g.odd => s5' = g.at
  /\ s2' = "renaming" => g.status = "renamed"
  /\ s2' = "sides" => e.status = IF g.status = "renamed" THEN "renamed" ELSE "modified"

(* The invariant, from what the readers make of a step.                     *)
LEMMA TextGoesOn ==
  ASSUME Text!TextFits, s1 # <<>>, NEW g, FileGoesOn(g),
         IsFiniteSet(g.lines), \A l \in g.lines : l < g.at,
         s2' \in {"files", "renaming", "sides", "hunk", "opened", "lines"},
         Text!ReadSoFar => \E e, more : Continues(g, e, more)
  PROVE  Text!TextFits'
<1>1. Text!FilesFit /\ (Text!AllLegible => Text!ReadSoFar)
  BY DEF Text!TextFits
<1>2. Text!FilesFit' /\ (Text!AllLegible' <=> Text!AllLegible)
  BY <1>1, FilesGoOn
<1>3. ASSUME Text!ReadSoFar PROVE Text!ReadSoFar'
  <2>1. PICK e, more : Continues(g, e, more)
    BY <1>3
  <2> QED
    BY <1>1, <1>3, <2>1, ReadingGoesOn DEF Continues
<1> QED
  BY <1>1, <1>2, <1>3 DEF Text!TextFits

(* The lines of a header that name the other path or say that text follows. *)
LEMMA HeadersGoOn ==
  ASSUME Text!TextFits, Text!RenameTo \/ Text!Sides \/ Text!NoText \/ Text!FileEnds
  PROVE  Text!TextFits'
<1>1. s1 # <<>> /\ Text!FilesFit
  BY DEF Text!TextFits, Text!FilesFit, Text!RenameTo, Text!Sides, Text!NoText, Text!FileEnds
<1>2. /\ LastFile \in Text!File /\ Text!Last(s1) = LastFile
      /\ IsFiniteSet(LastFile.lines) /\ (\A l \in LastFile.lines : l < LastFile.at)
      /\ s1' = s1 => FileGoesOn(LastFile)
  BY <1>1, LinesFit
<1>3. ASSUME Text!ReadSoFar
      PROVE  /\ LastDraft \in Text!Draft /\ Text!Last(s3) = LastDraft
             /\ LastDraft.header = LastFile.path /\ Text!Understood(LastFile, LastDraft, s6)
             /\ s3' = s3 => DraftGoesOn(LastDraft)
             /\ s5 \in Nat /\ (s4 = LastFile.path \/ s2 = "files")
             /\ s2 = "sides" => LastDraft.status = IF LastFile.status = "renamed" THEN "renamed" ELSE "modified"
             /\ s2 = "renaming" => LastFile.status = "renamed"
  BY <1>1, <1>2, <1>3, DraftsFit DEF Text!ReadSoFar
<1>4. CASE Text!NoText \/ Text!FileEnds
  <2>1. s1' = s1 /\ s3' = s3 /\ s4' = s4 /\ s5' = s5 /\ s6' = s6 /\ s2' = "files" /\ s2 # "files"
    BY <1>4 DEF Text!NoText, Text!FileEnds
  <2>2. Text!ReadSoFar => Continues(LastFile, LastDraft, {})
    BY <1>3, <2>1 DEF Continues, Text!ReadSoFar
  <2> QED
    BY <1>1, <1>2, <2>1, <2>2, TextGoesOn
<1>5. CASE Text!RenameTo
  <2> DEFINE c == [path |-> Text!Last(s1).path, status |-> "renamed"]
             e == WithChanges(LastDraft, c)
  <2>1. /\ s1' = s1 /\ s3' = Text!OnLast(s3, c) /\ s4' = LastFile.path /\ s5' = s5 /\ s6' = s6
        /\ s2' = "sides" /\ s2 = "renaming"
    BY <1>2, <1>5 DEF Text!RenameTo
  <2>2. ASSUME Text!ReadSoFar PROVE Continues(LastFile, e, {})
    <3>1. DOMAIN c = {"path", "status"} /\ c.path = LastFile.path /\ c.path \in Names /\ c.status = "renamed"
      BY <1>2 DEF Text!File
    <3> HIDE DEF c
    <3>2. "renamed" \in Text!Statuses
      BY DEF Text!Statuses
    <3>3. DraftGoesOn(e)
      BY <1>1, <2>1, <2>2, <3>1, <3>2, DraftIsChanged
    <3>4. /\ e.path = LastFile.path /\ e.status = "renamed" /\ e.sourcePath = LastDraft.sourcePath
          /\ e.additions = LastDraft.additions /\ e.deletions = LastDraft.deletions
      BY <3>1, <1>3, <2>2 DEF WithChanges, Text!Draft
    <3> HIDE DEF e
    <3>5. Text!Understood(LastFile, e, s6')
      BY <1>3, <2>1, <2>2, <3>4 DEF Text!Understood
    <3> QED
      BY <1>3, <2>1, <2>2, <3>3, <3>4, <3>5 DEF Continues
  <2> HIDE DEF c, e
  <2> QED
    BY <1>1, <1>2, <2>1, <2>2, TextGoesOn
<1>6. CASE Text!Sides
  <2> DEFINE c == [text |-> TRUE]
             g == WithChanges(LastFile, c)
             k == [status |-> LastFile.status]
             e == IF LastFile.status \in {"added", "deleted"} THEN WithChanges(LastDraft, k) ELSE LastDraft
  <2>1. /\ s1' = Text!OnLast(s1, c) /\ s4' = s4 /\ s5' = s5 /\ s6' = s6 /\ s2' = "hunk" /\ s2 = "sides"
        /\ s3' = IF LastFile.status \in {"added", "deleted"} THEN Text!OnLast(s3, k) ELSE s3
    BY <1>2, <1>6 DEF Text!Sides
  <2>2. DOMAIN c = {"text"} /\ c.text = TRUE
    OBVIOUS
  <2>3. DOMAIN k = {"status"} /\ k.status = LastFile.status /\ k.status \in Text!Statuses
    BY <1>2 DEF Text!File
  <2> HIDE DEF c, k
  <2>4. FileGoesOn(g)
    BY <1>1, <2>1, <2>2, FileIsChanged
  <2>5. /\ g.text = TRUE /\ g.status = LastFile.status /\ g.lines = LastFile.lines /\ g.at = LastFile.at
        /\ g.odd = LastFile.odd /\ g.path = LastFile.path /\ g.old = LastFile.old /\ g.deletions = LastFile.deletions
    BY <1>2, <2>2 DEF WithChanges, Text!File
  <2> HIDE DEF g
  <2>6. ASSUME Text!ReadSoFar PROVE Continues(g, e, {})
    <3>1. DraftGoesOn(e)
      <4>1. CASE LastFile.status \in {"added", "deleted"}
        <5>1. s3' = Text!OnLast(s3, k)
          BY <2>1, <4>1
        <5>2. DraftGoesOn(WithChanges(LastDraft, k))
          BY <1>1, <2>3, <2>6, <5>1, DraftIsChanged
        <5> QED
          BY <4>1, <5>2
      <4>2. CASE LastFile.status \notin {"added", "deleted"}
        BY <1>3, <2>1, <2>6, <4>2
      <4> QED
        BY <4>1, <4>2
    <3>2. e.status = LastFile.status
      <4>1. CASE LastFile.status \in {"added", "deleted"}
        BY <1>3, <2>3, <2>6, <4>1 DEF WithChanges, Text!Draft
      <4>2. CASE LastFile.status \notin {"added", "deleted"}
        BY <1>2, <1>3, <2>1, <2>6, <4>2 DEF Text!File, Text!Statuses
      <4> QED
        BY <4>1, <4>2
    <3>3. /\ e.path = LastDraft.path /\ e.sourcePath = LastDraft.sourcePath
          /\ e.additions = LastDraft.additions /\ e.deletions = LastDraft.deletions
      BY <1>3, <2>3, <2>6 DEF WithChanges, Text!Draft
    <3> HIDE DEF e
    <3>4. Text!Understood(g, e, s6')
      BY <1>3, <2>1, <2>5, <2>6, <3>2, <3>3 DEF Text!Understood
    <3> QED
      BY <1>3, <2>1, <2>6, <3>1, <3>4 DEF Continues, Text!ReadSoFar
  <2> HIDE DEF e
  <2> QED
    BY <1>1, <1>2, <2>1, <2>4, <2>5, <2>6, TextGoesOn
<1> QED
  BY <1>4, <1>5, <1>6

(* What is read of the file of a line, under its path.                      *)
LEMMA ReadingIs ==
  ASSUME Text!FilesFit, s1 # <<>>, Text!ReadSoFar, s2 # "files"
  PROVE  /\ LastDraft \in Text!Draft /\ Text!Last(s3) = LastDraft
         /\ LastDraft.path = LastFile.path /\ LastDraft.sourcePath = LastFile.old
         /\ LastFile.text /\ ~LastFile.odd => LastDraft.status = LastFile.status
         /\ s3' = s3 => DraftGoesOn(LastDraft)
         /\ s5 \in Nat /\ s4 = LastFile.path
         /\ s2 \in {"opened", "lines"} /\ ~LastFile.odd => s5 = LastFile.at
         /\ ~LastFile.odd =>
              /\ {p \in s6 : p[1] = LastFile.path} = {LastFile.path} \X LastFile.lines
              /\ LastDraft.additions = Cardinality(LastFile.lines) /\ LastDraft.deletions = LastFile.deletions
<1>1. /\ LastDraft \in Text!Draft /\ Text!Last(s3) = LastDraft /\ Text!Last(s1) = LastFile
      /\ Text!Understood(LastFile, LastDraft, s6)
      /\ s3' = s3 => DraftGoesOn(LastDraft)
  BY DraftsFit, LinesFit
<1>2. Text!Cardinality(LastFile.lines) = Cardinality(LastFile.lines)
  BY TextCounts
<1> QED
  BY <1>1, <1>2 DEF Text!ReadSoFar, Text!Understood

(* A line that is read as it was meant, or makes the file odd.              *)
LEMMA LineIsUnderstood ==
  ASSUME Text!FilesFit, s1 # <<>>, Text!ReadSoFar, s2 # "files",
         NEW g, FileGoesOn(g), NEW e, DraftGoesOn(e), NEW more \in SUBSET ({LastFile.path} \X Nat),
         s6' = s6 \cup more, e.path = LastDraft.path, g.text = LastFile.text,
         ~g.odd => /\ ~LastFile.odd /\ e.status = LastDraft.status
                   /\ {LastFile.path} \X g.lines = ({LastFile.path} \X LastFile.lines) \cup more
                   /\ e.deletions - LastDraft.deletions = g.deletions - LastFile.deletions
                   /\ e.additions = Cardinality(g.lines)
  PROVE  Text!Understood(g, e, s6')
<1>1. /\ g \in Text!File /\ e \in Text!Draft /\ LastFile \in Text!File /\ LastDraft \in Text!Draft
      /\ g.path = LastFile.path /\ g.old = LastFile.old /\ g.status = LastFile.status
      /\ e.sourcePath = LastDraft.sourcePath
  BY LinesFit, ReadingIs DEF FileGoesOn, DraftGoesOn
<1>2. /\ e.path = g.path /\ e.sourcePath = g.old
      /\ g.text /\ ~g.odd => e.status = g.status
  BY <1>1, ReadingIs
<1>3. ASSUME ~g.odd
      PROVE  /\ {p \in s6' : p[1] = g.path} = {g.path} \X g.lines
             /\ e.additions = Text!Cardinality(g.lines) /\ e.deletions = g.deletions
  <2>1. /\ {p \in s6 : p[1] = LastFile.path} = {LastFile.path} \X LastFile.lines
        /\ LastDraft.deletions = LastFile.deletions
    BY <1>3, ReadingIs
  <2>2. {p \in s6' : p[1] = LastFile.path} = {p \in s6 : p[1] = LastFile.path} \cup more
    OBVIOUS
  <2>3. /\ e.deletions \in Nat /\ LastDraft.deletions \in Nat /\ g.deletions \in Nat /\ LastFile.deletions \in Nat
    BY <1>1 DEF Text!File, Text!Draft
  <2>4. e.deletions = g.deletions
    BY <1>3, <2>1, <2>3
  <2>5. e.additions = Text!Cardinality(g.lines)
    BY <1>3, TextCounts
  <2>6. {p \in s6' : p[1] = g.path} = {g.path} \X g.lines
    BY <1>1, <1>3, <2>1, <2>2
  <2> QED
    BY <2>4, <2>5, <2>6
<1> QED
  BY <1>2, <1>3 DEF Text!Understood

(* A hunk starts where parse-diff and the scan of hunk headers both say.    *)
LEMMA HunkStarts ==
  ASSUME Text!TextFits, Text!HunkStart
  PROVE  Text!TextFits'
<1>1. s1 # <<>> /\ Text!FilesFit
  BY DEF Text!TextFits, Text!FilesFit, Text!HunkStart
<1>2. /\ LastFile \in Text!File /\ Text!Last(s1) = LastFile
      /\ IsFiniteSet(LastFile.lines) /\ (\A l \in LastFile.lines : l < LastFile.at)
  BY <1>1, LinesFit
<1> DEFINE c == [at |-> Text!Last(s1).at + 1]
           g == WithChanges(LastFile, c)
<1>3. /\ s1' = Text!OnLast(s1, c) /\ s3' = s3 /\ s4' = s4 /\ s5' = LastFile.at + 1 /\ s6' = s6
      /\ s2' = "opened" /\ s2 # "files"
  BY <1>2 DEF Text!HunkStart
<1>4. LastFile.at \in Nat \ {0} /\ LastFile.lines \in SUBSET Nat
  BY <1>2 DEF Text!File
<1>5. DOMAIN c = {"at"} /\ c.at = LastFile.at + 1
  BY <1>2
<1> HIDE DEF c
<1>6. FileGoesOn(g)
  BY <1>1, <1>3, <1>4, <1>5, FileIsChanged
<1>7. /\ g.at = LastFile.at + 1 /\ g.text = LastFile.text /\ g.lines = LastFile.lines
      /\ g.odd = LastFile.odd /\ g.deletions = LastFile.deletions
  BY <1>2, <1>5 DEF WithChanges, Text!File
<1> HIDE DEF g
<1>8. \A l \in g.lines : l < g.at
  BY <1>2, <1>4, <1>7
<1>9. ASSUME Text!ReadSoFar PROVE Continues(g, LastDraft, {})
  <2>1. /\ DraftGoesOn(LastDraft) /\ LastDraft \in Text!Draft /\ s4 = LastFile.path
        /\ ~LastFile.odd => LastDraft.additions = Cardinality(LastFile.lines)
    BY <1>1, <1>3, <1>9, ReadingIs
  <2>2. LastDraft.deletions - LastDraft.deletions = LastFile.deletions - LastFile.deletions
    BY <1>2, <2>1 DEF Text!File, Text!Draft
  <2> DEFINE more == {}
  <2>3. /\ more \in SUBSET ({LastFile.path} \X Nat) /\ s6' = s6 \cup more
        /\ {LastFile.path} \X g.lines = ({LastFile.path} \X LastFile.lines) \cup more
    BY <1>3, <1>7
  <2> HIDE DEF more
  <2>4. Text!Understood(g, LastDraft, s6')
    BY <1>1, <1>3, <1>6, <1>7, <1>9, <2>1, <2>2, <2>3, LineIsUnderstood
  <2> QED
    BY <1>3, <1>4, <1>7, <2>1, <2>3, <2>4 DEF Continues
<1> QED
  BY <1>1, <1>2, <1>3, <1>6, <1>7, <1>8, <1>9, TextGoesOn

LEMMA LineStarts ==
  ASSUME Text!TextFits, Text!Line
  PROVE  /\ s1 # <<>> /\ Text!FilesFit /\ s2 \in {"opened", "lines"} /\ s2' = "lines"
         /\ LastFile \in Text!File /\ Text!Last(s1) = LastFile
         /\ IsFiniteSet(LastFile.lines) /\ (\A l \in LastFile.lines : l < LastFile.at)
         /\ LastFile.at \in Nat \ {0} /\ LastFile.lines \in SUBSET Nat /\ LastFile.count \in Nat
         /\ LastFile.deletions \in Nat /\ LastFile.odd \in BOOLEAN
<1>1. s1 # <<>> /\ Text!FilesFit /\ s2 \in {"opened", "lines"} /\ s2' = "lines"
  BY DEF Text!TextFits, Text!FilesFit, Text!Line
<1>2. /\ LastFile \in Text!File /\ Text!Last(s1) = LastFile
      /\ IsFiniteSet(LastFile.lines) /\ (\A l \in LastFile.lines : l < LastFile.at)
  BY <1>1, LinesFit
<1> QED
  BY <1>1, <1>2 DEF Text!File

(* A line that adds nothing: of both versions, or one about the end.        *)
LEMMA OtherLinesGoOn ==
  ASSUME Text!TextFits, Text!Context \/ Text!NoNewline
  PROVE  Text!TextFits'
<1>1. /\ s1 # <<>> /\ Text!FilesFit /\ s2 \in {"opened", "lines"} /\ s2' = "lines"
      /\ LastFile \in Text!File /\ Text!Last(s1) = LastFile
      /\ IsFiniteSet(LastFile.lines) /\ (\A l \in LastFile.lines : l < LastFile.at)
      /\ LastFile.at \in Nat \ {0} /\ LastFile.lines \in SUBSET Nat /\ LastFile.count \in Nat
      /\ LastFile.deletions \in Nat /\ LastFile.odd \in BOOLEAN
  BY LineStarts DEF Text!Context, Text!NoNewline
<1>2. s3' = s3 /\ s4' = s4 /\ s6' = s6
  BY DEF Text!Context, Text!NoNewline
<1>3. ASSUME NEW g, FileGoesOn(g), g.text = LastFile.text, g.lines = LastFile.lines, g.deletions = LastFile.deletions,
             \A l \in g.lines : l < g.at,
             ~g.odd => ~LastFile.odd,
             s5 \in Nat => s5' \in Nat,
             ~g.odd /\ s5 = LastFile.at => s5' = g.at
      PROVE  Text!TextFits'
  <2>1. ASSUME Text!ReadSoFar PROVE Continues(g, LastDraft, {})
    <3>1. /\ DraftGoesOn(LastDraft) /\ LastDraft \in Text!Draft /\ s4 = LastFile.path /\ s5 \in Nat
          /\ ~LastFile.odd => LastDraft.additions = Cardinality(LastFile.lines)
          /\ ~LastFile.odd => s5 = LastFile.at
      BY <1>1, <1>2, <2>1, ReadingIs
    <3>2. LastDraft.deletions - LastDraft.deletions = LastFile.deletions - LastFile.deletions
      BY <1>1, <3>1 DEF Text!Draft
    <3> DEFINE more == {}
    <3>3. /\ more \in SUBSET ({LastFile.path} \X Nat) /\ s6' = s6 \cup more
          /\ {LastFile.path} \X g.lines = ({LastFile.path} \X LastFile.lines) \cup more
      BY <1>2, <1>3
    <3> HIDE DEF more
    <3>4. Text!Understood(g, LastDraft, s6')
      BY <1>1, <1>3, <2>1, <3>1, <3>2, <3>3, LineIsUnderstood
    <3> QED
      BY <1>1, <1>2, <1>3, <3>1, <3>3, <3>4 DEF Continues, more
  <2> QED
    BY <1>1, <1>3, <2>1, TextGoesOn
<1>4. CASE Text!Context
  <2> DEFINE c == [at |-> Text!Last(s1).at + 1, count |-> Text!Last(s1).count + 1]
             g == WithChanges(LastFile, c)
  <2>1. s1' = Text!OnLast(s1, c) /\ s5' = s5 + 1
    BY <1>4 DEF Text!Context
  <2>2. DOMAIN c = {"at", "count"} /\ c.at = LastFile.at + 1 /\ c.count = LastFile.count + 1
    BY <1>1
  <2> HIDE DEF c
  <2>3. FileGoesOn(g)
    <3>1. c.at \in Nat \ {0} /\ c.count \in Nat
      BY <1>1, <2>2
    <3>2. FileGoesOn(WithChanges(LastFile, c))
      <4>1. Text!FilesFit /\ s1 # <<>> /\ s1' = Text!OnLast(s1, c)
        BY <1>1, <2>1
      <4>2. /\ \A x \in DOMAIN c : x \in {"text", "deletions", "at", "lines", "count", "odd"}
            /\ "text" \notin DOMAIN c /\ "deletions" \notin DOMAIN c /\ "lines" \notin DOMAIN c
            /\ "odd" \notin DOMAIN c
        BY <2>2
      <4> QED
        BY <3>1, <4>1, <4>2, FileIsChanged
    <3> QED
      BY <3>2
  <2>4. /\ g.at = LastFile.at + 1 /\ g.text = LastFile.text /\ g.lines = LastFile.lines
        /\ g.odd = LastFile.odd /\ g.deletions = LastFile.deletions
    BY <1>1, <2>2 DEF WithChanges, Text!File
  <2> HIDE DEF g
  <2>5. \A l \in g.lines : l < g.at
    BY <1>1, <2>4
  <2> QED
    BY <1>1, <1>3, <2>1, <2>3, <2>4, <2>5
<1>5. CASE Text!NoNewline
  <2> DEFINE c == [count |-> Text!Last(s1).count + 1, odd |-> Text!Last(s1).odd \/ Text!Plain]
             g == WithChanges(LastFile, c)
  <2>1. s1' = Text!OnLast(s1, c) /\ s5' = IF Text!Plain THEN s5 + 1 ELSE s5
    BY <1>5 DEF Text!NoNewline
  <2>2. /\ DOMAIN c = {"count", "odd"} /\ c.count = LastFile.count + 1 /\ c.odd \in BOOLEAN
        /\ c.odd <=> LastFile.odd \/ Text!Plain
    BY <1>1
  <2> HIDE DEF c
  <2>3. FileGoesOn(g)
    BY <1>1, <2>1, <2>2, FileIsChanged
  <2>4. /\ g.at = LastFile.at /\ g.text = LastFile.text /\ g.lines = LastFile.lines
        /\ g.odd = c.odd /\ g.deletions = LastFile.deletions
    BY <1>1, <2>2 DEF WithChanges, Text!File
  <2> HIDE DEF g
  <2>5. (\A l \in g.lines : l < g.at) /\ (~g.odd => ~LastFile.odd) /\ (s5 \in Nat => s5' \in Nat)
        /\ (~g.odd /\ s5 = LastFile.at => s5' = g.at)
    BY <1>1, <2>1, <2>2, <2>4
  <2> QED
    BY <1>1, <1>3, <2>3, <2>4, <2>5
<1> QED
  BY <1>4, <1>5

(* A draft whose status a line has changed.                                 *)
LEMMA StatusIsChanged ==
  ASSUME Text!FilesFit, Text!ReadSoFar, s1 # <<>>, s2 # "files", NEW kind \in Text!Statuses,
         s3' = Text!OnLast(s3, [status |-> kind])
  PROVE  \E e : DraftGoesOn(e) /\ e.path = LastDraft.path
<1> DEFINE k == [status |-> kind]
           e == WithChanges(LastDraft, k)
<1>1. DOMAIN k = {"status"} /\ k.status = kind /\ s3' = Text!OnLast(s3, k)
  OBVIOUS
<1>2. LastDraft \in Text!Draft
  BY ReadingIs
<1> HIDE DEF k
<1>3. DraftGoesOn(e)
  BY <1>1, DraftIsChanged
<1>4. e.path = LastDraft.path
  BY <1>1, <1>2 DEF WithChanges, Text!Draft
<1> HIDE DEF e
<1> QED
  BY <1>3, <1>4

(* An added line: one that both readers see, or an odd one that looks like a*)
(* header.                                                                  *)
LEMMA AddedLinesGoOn ==
  ASSUME Text!TextFits, NEW look \in Text!Looks, Text!Added(look)
  PROVE  Text!TextFits'
<1> DEFINE skipped == Text!Misread(look)
           numbered == look = "usual" \/ ~Text!Plain
           c == [at |-> LastFile.at + 1, lines |-> LastFile.lines \cup {LastFile.at}, count |-> LastFile.count + 1,
                 odd |-> LastFile.odd \/ skipped]
           g == WithChanges(LastFile, c)
<1>1. /\ s1 # <<>> /\ Text!FilesFit /\ s2 \in {"opened", "lines"} /\ s2' = "lines"
      /\ LastFile \in Text!File /\ Text!Last(s1) = LastFile
      /\ IsFiniteSet(LastFile.lines) /\ (\A l \in LastFile.lines : l < LastFile.at)
      /\ LastFile.at \in Nat \ {0} /\ LastFile.lines \in SUBSET Nat /\ LastFile.count \in Nat
      /\ LastFile.deletions \in Nat /\ LastFile.odd \in BOOLEAN
  BY LineStarts DEF Text!Added
<1>2. s1' = Text!OnLast(s1, c) /\ s4' = s4
  BY <1>1 DEF Text!Added
<1>3. /\ DOMAIN c = {"at", "lines", "count", "odd"} /\ c.at = LastFile.at + 1
      /\ c.lines = LastFile.lines \cup {LastFile.at} /\ c.count = LastFile.count + 1
      /\ c.odd \in BOOLEAN /\ (c.odd <=> LastFile.odd \/ skipped)
  BY <1>1
<1>4. /\ s3' = IF look = "null" THEN Text!OnLast(s3, [status |-> "deleted"])
               ELSE IF skipped THEN s3
               ELSE Text!OnLast(s3, [additions |-> Text!Last(s3).additions + 1])
      /\ s6' = IF numbered THEN s6 \cup {<<s4, s5>>} ELSE s6
      /\ s5' = IF numbered THEN s5 + 1 ELSE s5
      /\ look = "null" => skipped
      /\ ~skipped => numbered
  BY <1>1 DEF Text!Added, Text!Misread, Text!Looks
<1> HIDE DEF c, skipped, numbered
<1>5. FileGoesOn(g)
  <2>1. /\ c.at \in Nat \ {0} /\ c.lines \in SUBSET Nat /\ c.count \in Nat /\ c.odd \in BOOLEAN
        /\ \A x \in DOMAIN c : x \in {"text", "deletions", "at", "lines", "count", "odd"}
        /\ "text" \notin DOMAIN c /\ "deletions" \notin DOMAIN c
    BY <1>1, <1>3
  <2> QED
    BY <1>1, <1>2, <2>1, FileIsChanged
<1>6. /\ g.at = LastFile.at + 1 /\ g.text = LastFile.text /\ g.lines = LastFile.lines \cup {LastFile.at}
      /\ g.odd = c.odd /\ g.deletions = LastFile.deletions
  BY <1>1, <1>3 DEF WithChanges, Text!File
<1> HIDE DEF g
<1>7. IsFiniteSet(g.lines) /\ Cardinality(g.lines) = Cardinality(LastFile.lines) + 1
  <2> DEFINE L == LastFile.lines
             a == LastFile.at
  <2>1. a \notin L /\ IsFiniteSet(L) /\ g.lines = L \cup {a}
    BY <1>1, <1>6
  <2> HIDE DEF L, a
  <2>2. IsFiniteSet(L \cup {a}) /\ Cardinality(L \cup {a}) = Cardinality(L) + 1
    BY ONLY <2>1, FS_AddElement
  <2> QED
    BY <2>1, <2>2 DEF L, a
<1>8. \A l \in g.lines : l < g.at
  BY <1>1, <1>6
<1>9. ASSUME Text!ReadSoFar PROVE \E e, more : Continues(g, e, more)
  <2>1. /\ LastDraft \in Text!Draft /\ Text!Last(s3) = LastDraft /\ s4 = LastFile.path /\ s5 \in Nat
        /\ s3' = s3 => DraftGoesOn(LastDraft)
        /\ ~LastFile.odd => LastDraft.additions = Cardinality(LastFile.lines) /\ s5 = LastFile.at
    BY <1>1, <1>9, ReadingIs
  <2>2. CASE skipped
    <3>1. PICK e : DraftGoesOn(e) /\ e.path = LastDraft.path
      <4>1. CASE look = "null"
        <5>1. s3' = Text!OnLast(s3, [status |-> "deleted"])
          BY <1>4, <4>1
        <5> QED
          BY <1>1, <1>9, <5>1, StatusIsChanged DEF Text!Statuses
      <4>2. CASE look # "null"
        BY <1>4, <2>1, <2>2, <4>2
      <4> QED
        BY <4>1, <4>2
    <3> DEFINE more == IF numbered THEN {<<LastFile.path, s5>>} ELSE {}
    <3>2. /\ s5' \in Nat /\ s6' = s6 \cup more /\ g.odd
          /\ more \in SUBSET ({LastFile.path} \X Nat)
      BY <1>3, <1>4, <1>6, <2>1, <2>2
    <3> HIDE DEF more
    <3>3. Text!Understood(g, e, s6')
      BY <1>1, <1>5, <1>6, <1>9, <3>1, <3>2, LineIsUnderstood
    <3>4. Continues(g, e, more)
      BY <1>1, <1>2, <2>1, <3>1, <3>2, <3>3 DEF Continues
    <3> QED
      BY <3>4
  <2>3. CASE ~skipped
    <3> DEFINE k == [additions |-> LastDraft.additions + 1]
               e == WithChanges(LastDraft, k)
               more == {<<LastFile.path, s5>>}
    <3>1. s3' = Text!OnLast(s3, k) /\ s6' = s6 \cup more /\ s5' = s5 + 1
      BY <1>4, <2>1, <2>3
    <3>2. /\ DOMAIN k = {"additions"} /\ k.additions = LastDraft.additions + 1
          /\ k.additions \in Nat /\ LastDraft.deletions \in Nat
      BY <2>1 DEF Text!Draft
    <3> HIDE DEF k
    <3>3. DraftGoesOn(e)
      BY <1>1, <1>9, <3>1, <3>2, DraftIsChanged
    <3>4. /\ e.path = LastDraft.path /\ e.status = LastDraft.status /\ e.deletions = LastDraft.deletions
          /\ e.additions = LastDraft.additions + 1
      BY <2>1, <3>2 DEF WithChanges, Text!Draft
    <3>5. more \in SUBSET ({LastFile.path} \X Nat)
      BY <2>1
    <3>6. ASSUME ~g.odd
          PROVE  /\ ~LastFile.odd /\ e.status = LastDraft.status
                 /\ {LastFile.path} \X g.lines = ({LastFile.path} \X LastFile.lines) \cup more
                 /\ e.deletions - LastDraft.deletions = g.deletions - LastFile.deletions
                 /\ e.additions = Cardinality(g.lines)
      <4>1. ~LastFile.odd /\ s5 = LastFile.at
        BY <1>3, <1>6, <2>1, <3>6
      <4>2. {LastFile.path} \X g.lines = ({LastFile.path} \X LastFile.lines) \cup more
        BY <1>6, <4>1
      <4> HIDE DEF e, more
      <4> QED
        BY <1>1, <1>6, <1>7, <2>1, <3>2, <3>4, <4>1, <4>2
    <3> HIDE DEF e, more
    <3>7. Text!Understood(g, e, s6')
      BY <1>1, <1>5, <1>6, <1>9, <3>1, <3>3, <3>4, <3>5, <3>6, LineIsUnderstood
    <3>8. ~g.odd => s5' = g.at
      BY <1>1, <1>3, <1>6, <2>1, <3>1
    <3>9. Continues(g, e, more)
      BY <1>1, <1>2, <2>1, <3>1, <3>3, <3>5, <3>7, <3>8 DEF Continues
    <3> QED
      BY <3>9
  <2> QED
    BY <2>2, <2>3
<1> QED
  BY <1>1, <1>5, <1>7, <1>8, <1>9, TextGoesOn

(* A removed line, likewise.                                                *)
LEMMA RemovedLinesGoOn ==
  ASSUME Text!TextFits, NEW look \in Text!Looks, Text!Removed(look)
  PROVE  Text!TextFits'
<1> DEFINE skipped == Text!Misread(look)
           c == [deletions |-> LastFile.deletions + 1, count |-> LastFile.count + 1, odd |-> LastFile.odd \/ skipped]
           g == WithChanges(LastFile, c)
<1>1. /\ s1 # <<>> /\ Text!FilesFit /\ s2 \in {"opened", "lines"} /\ s2' = "lines"
      /\ LastFile \in Text!File /\ Text!Last(s1) = LastFile
      /\ IsFiniteSet(LastFile.lines) /\ (\A l \in LastFile.lines : l < LastFile.at)
      /\ LastFile.at \in Nat \ {0} /\ LastFile.lines \in SUBSET Nat /\ LastFile.count \in Nat
      /\ LastFile.deletions \in Nat /\ LastFile.odd \in BOOLEAN
  BY LineStarts DEF Text!Removed
<1>2. s1' = Text!OnLast(s1, c) /\ s4' = s4 /\ s5' = s5 /\ s6' = s6
  BY <1>1 DEF Text!Removed
<1>3. /\ DOMAIN c = {"deletions", "count", "odd"} /\ c.deletions = LastFile.deletions + 1
      /\ c.count = LastFile.count + 1 /\ c.odd \in BOOLEAN /\ (c.odd <=> LastFile.odd \/ skipped)
  BY <1>1
<1>4. /\ s3' = IF look = "null" THEN Text!OnLast(s3, [status |-> "added"])
               ELSE IF skipped THEN s3
               ELSE Text!OnLast(s3, [deletions |-> Text!Last(s3).deletions + 1])
      /\ look = "null" => skipped
  BY <1>1 DEF Text!Removed, Text!Misread
<1> HIDE DEF c, skipped
<1>5. FileGoesOn(g)
  <2>1. /\ c.deletions \in Nat /\ c.count \in Nat /\ c.odd \in BOOLEAN
        /\ \A x \in DOMAIN c : x \in {"text", "deletions", "at", "lines", "count", "odd"}
        /\ "text" \notin DOMAIN c /\ "at" \notin DOMAIN c /\ "lines" \notin DOMAIN c
    BY <1>1, <1>3
  <2> QED
    BY <1>1, <1>2, <2>1, FileIsChanged
<1>6. /\ g.at = LastFile.at /\ g.text = LastFile.text /\ g.lines = LastFile.lines
      /\ g.odd = c.odd /\ g.deletions = LastFile.deletions + 1
  BY <1>1, <1>3 DEF WithChanges, Text!File
<1> HIDE DEF g
<1>7. ASSUME Text!ReadSoFar PROVE \E e, more : Continues(g, e, more)
  <2> DEFINE more == {}
  <2>1. /\ LastDraft \in Text!Draft /\ Text!Last(s3) = LastDraft /\ s4 = LastFile.path /\ s5 \in Nat
        /\ s3' = s3 => DraftGoesOn(LastDraft)
        /\ ~LastFile.odd => LastDraft.additions = Cardinality(LastFile.lines) /\ s5 = LastFile.at
    BY <1>1, <1>7, ReadingIs
  <2>2. /\ s6' = s6 \cup more /\ more \in SUBSET ({LastFile.path} \X Nat)
        /\ {LastFile.path} \X g.lines = ({LastFile.path} \X LastFile.lines) \cup more
    BY <1>2, <1>6
  <2> HIDE DEF more
  <2>3. CASE skipped
    <3>1. PICK e : DraftGoesOn(e) /\ e.path = LastDraft.path
      <4>1. CASE look = "null"
        <5>1. s3' = Text!OnLast(s3, [status |-> "added"])
          BY <1>4, <4>1
        <5> QED
          BY <1>1, <1>7, <5>1, StatusIsChanged DEF Text!Statuses
      <4>2. CASE look # "null"
        BY <1>4, <2>1, <2>3, <4>2
      <4> QED
        BY <4>1, <4>2
    <3>2. g.odd
      BY <1>3, <1>6, <2>3
    <3>3. Text!Understood(g, e, s6')
      BY <1>1, <1>5, <1>6, <1>7, <2>2, <3>1, <3>2, LineIsUnderstood
    <3>4. Continues(g, e, more)
      BY <1>1, <1>2, <2>1, <2>2, <3>1, <3>2, <3>3 DEF Continues
    <3> QED
      BY <3>4
  <2>4. CASE ~skipped
    <3> DEFINE k == [deletions |-> LastDraft.deletions + 1]
               e == WithChanges(LastDraft, k)
    <3>1. s3' = Text!OnLast(s3, k)
      BY <1>4, <2>1, <2>4
    <3>2. /\ DOMAIN k = {"deletions"} /\ k.deletions = LastDraft.deletions + 1
          /\ k.deletions \in Nat /\ LastDraft.deletions \in Nat
      BY <2>1 DEF Text!Draft
    <3> HIDE DEF k
    <3>3. DraftGoesOn(e)
      BY <1>1, <1>7, <3>1, <3>2, DraftIsChanged
    <3>4. /\ e.path = LastDraft.path /\ e.status = LastDraft.status /\ e.additions = LastDraft.additions
          /\ e.deletions = LastDraft.deletions + 1
      BY <2>1, <3>2 DEF WithChanges, Text!Draft
    <3> HIDE DEF e
    <3>5. /\ ~g.odd => ~LastFile.odd /\ e.status = LastDraft.status /\ e.additions = Cardinality(g.lines) /\ s5' = g.at
          /\ e.deletions - LastDraft.deletions = g.deletions - LastFile.deletions
      BY <1>1, <1>2, <1>3, <1>6, <2>1, <3>2, <3>4
    <3>6. Text!Understood(g, e, s6')
      BY <1>1, <1>5, <1>6, <1>7, <2>2, <3>3, <3>4, <3>5, LineIsUnderstood
    <3>7. Continues(g, e, more)
      BY <1>1, <1>2, <2>1, <2>2, <3>3, <3>5, <3>6 DEF Continues
    <3> QED
      BY <3>7
  <2> QED
    BY <2>3, <2>4
<1> QED
  BY <1>1, <1>5, <1>6, <1>7, TextGoesOn

(* A header is read whole when its paths are words.                         *)
LEMMA FilesAreAdded ==
  ASSUME Text!TextFits, NEW path \in Names, NEW old \in Names, NEW kind \in Text!Statuses,
         NEW form \in {"plain", "combined"}, form = "combined" => old = path,
         Text!Header(path, old, kind, form)
  PROVE  Text!TextFits'
<1> DEFINE n == Len(s1)
           r == [path |-> path, old |-> old, status |-> kind, form |-> form, text |-> FALSE,
                 deletions |-> 0, at |-> 1, lines |-> {}, count |-> IF s1 = <<>> THEN 0 ELSE Text!Last(s1).count,
                 odd |-> FALSE]
           shown == IF form = "combined" THEN path ELSE Text!HeaderPath(old, path)
           source == IF form = "combined" THEN path ELSE Text!HeaderSource(old)
           e == [header |-> shown, sourcePath |-> source, path |-> shown,
                 status |-> "modified", additions |-> 0, deletions |-> 0]
<1>1. Text!FilesFit /\ (Text!AllLegible => Text!ReadSoFar)
  BY DEF Text!TextFits
<1>2. /\ s2 = "files" /\ s1' = Append(s1, r) /\ s3' = Append(s3, e) /\ s4' = shown /\ s5' = 0 /\ s6' = s6
      /\ s2' = IF kind = "renamed" THEN "renaming" ELSE "sides"
      /\ \A i \in 1..n : path # s1[i].path
  BY DEF Text!Header
<1>3. s1 \in Seq(Text!File) /\ n \in Nat
  BY <1>1 DEF Text!FilesFit
<1>4. r \in Text!File
  <2>1. (IF s1 = <<>> THEN 0 ELSE Text!Last(s1).count) \in Nat
    <3>1. CASE s1 # <<>>
      <4>1. s1[Len(s1)] \in Text!File
        BY <1>3, <3>1
      <4> QED
        BY <3>1, <4>1 DEF Text!Last, Text!File
    <3> QED
      BY <3>1
  <2> QED
    BY <2>1 DEF Text!File
<1>5. /\ r.path = path /\ r.old = old /\ r.status = kind /\ r.form = form /\ r.text = FALSE
      /\ r.deletions = 0 /\ r.at = 1 /\ r.lines = {} /\ r.odd = FALSE
  OBVIOUS
<1>6. /\ e.header = shown /\ e.sourcePath = source /\ e.path = shown /\ e.status = "modified"
      /\ e.additions = 0 /\ e.deletions = 0
  OBVIOUS
<1> HIDE DEF r
<1>7. /\ s1' \in Seq(Text!File) /\ Len(s1') = n + 1 /\ s1'[n + 1] = r /\ s1' # <<>>
      /\ \A i \in 1..n : s1'[i] = s1[i]
      /\ 1 .. n + 1 = (1..n) \cup {n + 1} /\ n + 1 \notin 1..n
  BY <1>2, <1>3, <1>4
<1> HIDE DEF n
<1>8. Text!FilesFit'
  <2>1. ASSUME NEW i \in 1 .. n + 1
        PROVE  IsFiniteSet(s1'[i].lines) /\ \A l \in s1'[i].lines : l < s1'[i].at
    <3>1. CASE i = n + 1
      BY <1>5, <1>7, <3>1, FS_EmptySet
    <3>2. CASE i # n + 1
      BY <1>1, <1>7, <3>2, TextCounts DEF Text!FilesFit, n
    <3> QED
      BY <3>1, <3>2
  <2>2. s2' \in {"renaming", "sides"}
    BY <1>2
  <2> QED
    BY <1>7, <2>1, <2>2, TextCounts DEF Text!FilesFit
<1>9. ASSUME Text!AllLegible' PROVE Text!ReadSoFar'
  <2>1. Text!Legible(r) /\ Text!AllLegible
    <3>1. Text!Legible(r)
      BY <1>7, <1>9 DEF Text!AllLegible, Text!Legible
    <3>2. \A i \in 1..n : Text!Legible(s1[i])
      BY <1>7, <1>9 DEF Text!AllLegible, Text!Legible
    <3> QED
      BY <3>1, <3>2 DEF Text!AllLegible, n
  <2>2. /\ Text!ReadSoFar /\ s3 \in Seq(Text!Draft) /\ Len(s3) = n
    BY <1>1, <2>1 DEF Text!ReadSoFar, n
  <2>3. shown = path /\ source = old
    <3>1. CASE form = "combined"
      BY <3>1
    <3>2. CASE form # "combined"
      <4>1. Words[path] = <<path>> /\ Words[old] = <<old>>
        BY <1>5, <2>1, <3>2, TextAssumption DEF Text!Legible
      <4> QED
        BY <3>2, <4>1 DEF Text!HeaderPath, Text!HeaderSource
    <3> QED
      BY <3>1, <3>2
  <2> HIDE DEF shown, source
  <2>4. e \in Text!Draft
    BY <2>3 DEF Text!Draft, Text!Statuses
  <2> HIDE DEF e
  <2>5. /\ s3' \in Seq(Text!Draft) /\ Len(s3') = n + 1 /\ s3'[n + 1] = e
        /\ \A i \in 1..n : s3'[i] = s3[i]
    BY <1>2, <1>3, <2>2, <2>4 DEF n
  <2>6. path \notin {s1[i].path : i \in 1..n}
    BY <1>2
  <2>7. s6 \subseteq {s1[i].path : i \in 1..n} \X Nat
    BY <2>2 DEF Text!ReadSoFar, n
  <2>8. {p \in s6 : p[1] = path} = {}
    BY <2>6, <2>7
  <2>9. ASSUME NEW i \in 1 .. n + 1
        PROVE  s3'[i].header = s1'[i].path /\ Text!Understood(s1'[i], s3'[i], s6')
    <3>1. CASE i = n + 1
      <4>1. Text!Cardinality(r.lines) = 0
        BY <1>5, TextCounts, FS_EmptySet
      <4>2. {p \in s6' : p[1] = r.path} = {r.path} \X r.lines
        BY <1>2, <1>5, <2>8
      <4> QED
        BY <1>5, <1>6, <1>7, <2>3, <2>5, <3>1, <4>1, <4>2 DEF Text!Understood
    <3>2. CASE i # n + 1
      <4>1. i \in 1..n /\ s1'[i] = s1[i] /\ s3'[i] = s3[i] /\ s6' = s6
        BY <1>2, <1>7, <2>5, <3>2
      <4>2. s3[i].header = s1[i].path /\ Text!Understood(s1[i], s3[i], s6)
        BY <2>2, <4>1 DEF Text!ReadSoFar, n
      <4> QED
        BY <4>1, <4>2
    <3> QED
      BY <3>1, <3>2
  <2>10. ASSUME NEW i \in 1 .. n + 1, NEW j \in 1 .. n + 1, s1'[i].path = s1'[j].path
         PROVE  i = j
    <3>1. i \in 1..n /\ j \in 1..n => s1[i].path = s1[j].path
      BY <1>7, <2>10
    <3>2. \A k \in 1..n : s1'[k].path # path
      BY <1>2, <1>7
    <3> QED
      BY <1>5, <1>7, <2>2, <2>10, <3>1, <3>2 DEF Text!ReadSoFar, n
  <2>11. s6' \subseteq {s1'[i].path : i \in 1 .. n + 1} \X Nat
    <3>1. {s1[i].path : i \in 1..n} \subseteq {s1'[i].path : i \in 1 .. n + 1}
      BY <1>7
    <3> QED
      BY <1>2, <2>7, <3>1
  <2>12. Text!Last(s1') = r /\ Text!Last(s3') = e
    BY <1>7, <2>5 DEF Text!Last
  <2>13. /\ s4' = r.path /\ s5' \in Nat /\ s2' \in {"renaming", "sides"}
         /\ s2' = "renaming" => r.status = "renamed"
         /\ s2' = "sides" => e.status = IF r.status = "renamed" THEN "renamed" ELSE "modified"
    BY <1>2, <1>5, <1>6, <2>3
  <2> QED
    BY <1>7, <2>5, <2>9, <2>10, <2>11, <2>12, <2>13 DEF Text!ReadSoFar
<1> QED
  BY <1>8, <1>9 DEF Text!TextFits

(* Every step of the writer keeps what the readers made of it.              *)
LEMMA TextKeeps ==
  ASSUME Text!TextFits, Text!TextNext
  PROVE  Text!TextFits'
<1> USE DEF Text!Statuses
<1>1. ASSUME NEW path \in Names, NEW kind \in {"added", "modified", "deleted"}, Text!Header(path, path, kind, "plain")
      PROVE  Text!TextFits'
  BY <1>1, FilesAreAdded
<1>2. ASSUME NEW path \in Names, NEW old \in Names \ {path}, Text!Header(path, old, "renamed", "plain")
      PROVE  Text!TextFits'
  BY <1>2, FilesAreAdded
<1>3. ASSUME NEW path \in Names, Text!Header(path, path, "modified", "combined")
      PROVE  Text!TextFits'
  BY <1>3, FilesAreAdded
<1>4. CASE Text!RenameTo \/ Text!Sides \/ Text!NoText \/ Text!FileEnds
  BY <1>4, HeadersGoOn
<1>5. CASE Text!HunkStart
  BY <1>5, HunkStarts
<1>6. CASE Text!Context \/ Text!NoNewline
  BY <1>6, OtherLinesGoOn
<1>7. ASSUME NEW look \in Text!Looks, Text!Added(look) \/ Text!Removed(look)
      PROVE  Text!TextFits'
  BY <1>7, AddedLinesGoOn, RemovedLinesGoOn
<1> QED
  BY <1>1, <1>2, <1>3, <1>4, <1>5, <1>6, <1>7 DEF Text!TextNext

(* The invariant of the part.                                               *)
TextInv == part = "diff" => Text!TextFits

LEMMA TextInductive == PartsSpec => []TextInv
<1>1. PartsInit => TextInv
  BY TextStarts DEF PartsInit, TextInv
<1>2. TextInv /\ [PartsNext]_partsVars => TextInv'
  <2>1. ASSUME TextInv, PartsNext
        PROVE  TextInv'
    BY <2>1, PartStays, TextAlone, TextKeeps DEF TextInv
  <2>2. ASSUME TextInv, UNCHANGED partsVars
        PROVE  TextInv'
    <3>1. s1' = s1 /\ s2' = s2 /\ s3' = s3 /\ s4' = s4 /\ s5' = s5 /\ s6' = s6 /\ part' = part
      BY <2>2 DEF partsVars
    <3>2. Text!FilesFit => Text!FilesFit'
      BY <3>1 DEF Text!FilesFit
    <3>3. Text!ReadSoFar => Text!ReadSoFar'
      BY <3>1 DEF Text!ReadSoFar
    <3>4. Text!AllLegible' => Text!AllLegible
      BY <3>1 DEF Text!AllLegible, Text!Legible
    <3> QED
      BY <2>2, <3>1, <3>2, <3>3, <3>4 DEF TextInv, Text!TextFits
  <2> QED
    BY <2>1, <2>2
<1> QED
  BY <1>1, <1>2, PTL DEF PartsSpec

(* A file is shown when its path, which is that of its header, is           *)
(* reviewable.                                                              *)
LEMMA TextIsAsMeant ==
  ASSUME Text!TextFits
  PROVE  Text!ReadAsMeant
<1>1. SUFFICES ASSUME Text!AllLegible, NEW i \in 1..Len(s1)
               PROVE  Text!Understood(s1[i], s3[i], s6) /\ (Text!Shown(i) <=> s1[i].path \in ShownPaths)
  BY DEF Text!ReadAsMeant
<1>2. Text!ReadSoFar
  BY <1>1 DEF Text!TextFits
<1>3. Len(s3) = Len(s1) /\ s3[i].header = s1[i].path /\ Text!Understood(s1[i], s3[i], s6)
  BY <1>2 DEF Text!ReadSoFar
<1>4. s3[i].path = s1[i].path
  BY <1>3 DEF Text!Understood
<1>5. Text!Shown(i) <=> s1[i].path \in ShownPaths
  BY <1>3, <1>4 DEF Text!Shown, Text!Included
<1> QED
  BY <1>3, <1>5

-----------------------------------------------------------------------------
(* The text of an answer                                                    *)

LEMMA DocumentAlone == part = "document" /\ PartsNext => Document!DocumentNext
BY DEF PartsNext, OpenDatabase, InstallHook, SetUpAgent, ChoosePreference,
  FindStateRoot, KeepFindings, SuggestDuplicate, SummariseFindings, GatherContext,
  ReadDiff, ReadDocument, PublishFindings, RecordTelemetry, RunCommand, CheckProtocol,
  ScoreCase, RunEvaluation, RunVerification, Runs, Rest

LEMMA DocumentCounts == ASSUME NEW S PROVE Document!Cardinality(S) = Cardinality(S)
BY DEF Document!Cardinality, Cardinality

(* All there is to know of a document is that it is a sequence of tokens.   *)
DocumentInv == part = "document" => s1 \in Seq(Document!Tokens)

LEMMA DocumentInductive == PartsSpec => []DocumentInv
<1>1. PartsInit => DocumentInv
  BY DocumentAssumption DEF PartsInit, DocumentInv, Document!DocumentInit
<1>2. DocumentInv /\ [PartsNext]_partsVars => DocumentInv'
  <2>1. ASSUME DocumentInv, PartsNext, part = "document"
        PROVE  DocumentInv'
    <3>1. s1 \in Seq(Document!Tokens) /\ Document!DocumentNext
      BY <2>1, DocumentAlone DEF DocumentInv
    <3>2. CASE Document!Decide
      <4>1. s1' = s1 \/ s1' \in FirstTexts
        BY <3>2 DEF Document!Decide
      <4> QED
        BY <3>1, <4>1, DocumentAssumption DEF DocumentInv
    <3>3. ASSUME NEW c \in Document!Tokens, Document!Stream(c) PROVE DocumentInv'
      <4>1. s1' = Append(s1, c)
        BY <3>3 DEF Document!Stream
      <4> QED
        BY <3>1, <4>1 DEF DocumentInv
    <3> QED
      BY <3>1, <3>2, <3>3 DEF Document!DocumentNext
  <2>2. ASSUME DocumentInv, PartsNext, part # "document"
        PROVE  DocumentInv'
    BY <2>2, PartStays DEF DocumentInv
  <2>3. ASSUME DocumentInv, UNCHANGED partsVars
        PROVE  DocumentInv'
    BY <2>3 DEF DocumentInv, partsVars
  <2> QED
    BY <2>1, <2>2, <2>3
<1> QED
  BY <1>1, <1>2, PTL DEF PartsSpec

(* The first and the last of a set of places.                               *)
LEMMA FirstPlace ==
  ASSUME NEW S \in SUBSET Nat, S # {}
  PROVE  /\ Document!First(S) \in S /\ \A m \in S : Document!First(S) <= m
         /\ \A f \in S : (\A m \in S : f <= m) => f = Document!First(S)
<1>1. \E n \in S : \A m \in S : n <= m
  BY LeastOfNumbers
<1>2. Document!First(S) \in S /\ \A m \in S : Document!First(S) <= m
  BY <1>1 DEF Document!First
<1>3. ASSUME NEW f \in S, \A m \in S : f <= m PROVE f = Document!First(S)
  <2>1. f <= Document!First(S) /\ Document!First(S) <= f /\ f \in Nat /\ Document!First(S) \in Nat
    BY <1>2, <1>3
  <2> QED
    BY <1>2, <2>1
<1> QED
  BY <1>2, <1>3

LEMMA LastPlace ==
  ASSUME NEW n \in Nat, NEW S \in SUBSET (0..n), S # {}
  PROVE  /\ Document!Last(S) \in S /\ \A m \in S : m <= Document!Last(S)
         /\ \A l \in S : (\A m \in S : m <= l) => l = Document!Last(S)
<1> DEFINE K == {n - m : m \in S}
<1>1. K \in SUBSET Nat /\ K # {}
  <2>1. \A m \in S : m \in 0..n /\ n - m \in Nat
    OBVIOUS
  <2> QED
    BY <2>1
<1>2. PICK k \in K : \A j \in K : k <= j
  <2> HIDE DEF K
  <2> QED
    BY <1>1, LeastOfNumbers
<1>3. PICK l \in S : k = n - l
  OBVIOUS
<1>4. \A m \in S : m <= l
  <2> TAKE m \in S
  <2>1. n - l <= n - m
    BY <1>2, <1>3
  <2> QED
    BY <2>1
<1> HIDE DEF K
<1>5. Document!Last(S) \in S /\ \A m \in S : m <= Document!Last(S)
  BY <1>4 DEF Document!Last
<1>6. ASSUME NEW h \in S, \A m \in S : m <= h PROVE h = Document!Last(S)
  <2>1. \A m \in S : m \in Nat
    OBVIOUS
  <2>2. h <= Document!Last(S) /\ Document!Last(S) <= h /\ h \in Nat /\ Document!Last(S) \in Nat
    BY <1>5, <1>6, <2>1
  <2> QED
    BY <2>2
<1> QED
  BY <1>5, <1>6

(* What a token makes of the state of a scan.                               *)
ScanStates == [depth : Int, inString : BOOLEAN, escaped : BOOLEAN]
ScanStart == [depth |-> 0, inString |-> FALSE, escaped |-> FALSE]
Deeper(c, at) ==
  IF at.inString \/ at.escaped THEN 0 ELSE IF c = "open" THEN 1 ELSE IF c = "close" THEN -1 ELSE 0

(* A scanned token, field by field.                                         *)
LEMMA ScannedIs ==
  ASSUME NEW c \in Document!Tokens, NEW at \in ScanStates
  PROVE  /\ Document!Scanned(c, at) \in ScanStates
         /\ Document!Scanned(c, at).escaped <=> c = "escape" /\ ~at.escaped
         /\ Document!Scanned(c, at).inString <=> (at.inString /\ ~(c = "quote" /\ ~at.escaped)) \/ (~at.inString /\ c = "quote" /\ ~at.escaped)
         /\ Document!Scanned(c, at).depth = at.depth + Deeper(c, at)
<1> DEFINE r == Document!Scanned(c, at)
<1>1. /\ at.depth \in Int /\ at.inString \in BOOLEAN /\ at.escaped \in BOOLEAN
      /\ at = [depth |-> at.depth, inString |-> at.inString, escaped |-> at.escaped]
  BY DEF ScanStates
<1>2. CASE at.escaped
  <2>1. r = [at EXCEPT !.escaped = FALSE]
    BY <1>2 DEF Document!Scanned
  <2>2. r = [depth |-> at.depth, inString |-> at.inString, escaped |-> FALSE]
    BY <1>1, <2>1
  <2> QED
    BY <1>1, <1>2, <2>2 DEF ScanStates, Deeper
<1>3. CASE ~at.escaped /\ c = "escape"
  <2>1. r = [at EXCEPT !.escaped = TRUE]
    BY <1>3 DEF Document!Scanned
  <2>2. r = [depth |-> at.depth, inString |-> at.inString, escaped |-> TRUE]
    BY <1>1, <2>1
  <2>3. Deeper(c, at) = 0 /\ at.depth + 0 = at.depth
    BY <1>1, <1>3 DEF Deeper
  <2>4. r \in ScanStates /\ r.depth = at.depth /\ r.escaped = TRUE /\ r.inString = at.inString
    BY <1>1, <2>2 DEF ScanStates
  <2> HIDE DEF r
  <2>5. /\ r.escaped <=> c = "escape" /\ ~at.escaped
        /\ r.inString <=> (at.inString /\ ~(c = "quote" /\ ~at.escaped)) \/ (~at.inString /\ c = "quote" /\ ~at.escaped)
        /\ r.depth = at.depth + Deeper(c, at)
    BY <1>1, <1>3, <2>3, <2>4
  <2> QED
    BY <2>4, <2>5 DEF r
<1>4. CASE ~at.escaped /\ c = "quote"
  <2>1. r = [at EXCEPT !.inString = ~@]
    BY <1>4 DEF Document!Scanned
  <2>2. r = [depth |-> at.depth, inString |-> ~at.inString, escaped |-> at.escaped]
    BY <1>1, <2>1
  <2>3. Deeper(c, at) = 0 /\ at.depth + 0 = at.depth
    BY <1>1, <1>4 DEF Deeper
  <2>4. r \in ScanStates /\ r.depth = at.depth /\ r.escaped = at.escaped /\ r.inString = ~at.inString
    BY <1>1, <2>2 DEF ScanStates
  <2> HIDE DEF r
  <2>5. /\ r.escaped <=> c = "escape" /\ ~at.escaped
        /\ r.inString <=> (at.inString /\ ~(c = "quote" /\ ~at.escaped)) \/ (~at.inString /\ c = "quote" /\ ~at.escaped)
        /\ r.depth = at.depth + Deeper(c, at)
    BY <1>1, <1>4, <2>3, <2>4
  <2> QED
    BY <2>4, <2>5 DEF r
<1>5. CASE ~at.escaped /\ c \notin {"escape", "quote"} /\ (at.inString \/ c \notin {"open", "close"})
  <2>1. r = at
    BY <1>5 DEF Document!Scanned
  <2>2. Deeper(c, at) = 0 /\ at.depth + 0 = at.depth
    BY <1>1, <1>5 DEF Deeper
  <2> QED
    BY <1>1, <1>5, <2>1, <2>2
<1>6. CASE ~at.escaped /\ ~at.inString /\ c = "open"
  <2>1. r = [at EXCEPT !.depth = @ + 1]
    BY <1>6 DEF Document!Scanned
  <2>2. r = [depth |-> at.depth + 1, inString |-> at.inString, escaped |-> at.escaped]
    BY <1>1, <2>1
  <2> QED
    BY <1>1, <1>6, <2>2 DEF ScanStates, Deeper
<1>7. CASE ~at.escaped /\ ~at.inString /\ c = "close"
  <2>1. r = [at EXCEPT !.depth = @ - 1]
    BY <1>7 DEF Document!Scanned
  <2>2. r = [depth |-> at.depth - 1, inString |-> at.inString, escaped |-> at.escaped]
    BY <1>1, <2>1
  <2> QED
    BY <1>1, <1>7, <2>2 DEF ScanStates, Deeper
<1> QED
  BY <1>2, <1>3, <1>4, <1>5, <1>6, <1>7

(* The scan from a place exists, and goes from token to token.              *)
Scans(t, start, scan) ==
  /\ scan[start - 1] = ScanStart
  /\ \A i \in start..Len(t) : scan[i] \in ScanStates /\ scan[i - 1] \in ScanStates /\ scan[i] = Document!Scanned(t[i], scan[i - 1])

(* The recursive function is the one that its steps build (StepByStep).     *)
LEMMA ScanGoes ==
  ASSUME NEW t \in Seq(Document!Tokens), NEW start \in 1..Len(t)
  PROVE  Scans(t, start, Document!Scan(t, start))
<1> DEFINE low == start - 1
           m == Len(t) - low
           Over(f) == [i \in low..Len(t) |-> IF i < start THEN ScanStart ELSE Document!Scanned(t[i], f[i - 1])]
           F == CHOOSE f : f = Over(f)
<1>1. m \in Nat /\ low \in Nat /\ Len(t) \in Nat /\ start \in Nat /\ low < start /\ Len(t) = low + m
  OBVIOUS
<1>2. Document!Scan(t, start) = F
  BY DEF Document!Scan, ScanStart
<1>3. ScanStart \in ScanStates
  BY DEF ScanStart, ScanStates
<1> DEFINE step == [n \in 1..m |-> [at \in ScanStates |-> Document!Scanned(t[n + low], at)]]
<1>4. step \in [1..m -> [ScanStates -> ScanStates]]
  <2>1. ASSUME NEW n \in 1..m, NEW at \in ScanStates PROVE Document!Scanned(t[n + low], at) \in ScanStates
    <3>1. n + low \in 1..Len(t)
      BY <1>1
    <3>2. t[n + low] \in Document!Tokens
      BY <3>1
    <3> QED
      BY <3>2, ScannedIs
  <2> HIDE DEF m, low
  <2> QED
    BY <2>1
<1>5. PICK f \in [0..m -> ScanStates] : f[0] = ScanStart /\ \A n \in 1..m : f[n] = step[n][f[n - 1]]
  <2> HIDE DEF m, step
  <2>1. Iterated(m, ScanStates, ScanStart, step)
    BY <1>1, <1>3, <1>4, StepByStep
  <2> QED
    BY <2>1 DEF Iterated, Iterates
<1>6. \A n \in 1..m : f[n] = Document!Scanned(t[n + low], f[n - 1])
  <2> SUFFICES ASSUME NEW n \in 1..m PROVE f[n] = Document!Scanned(t[n + low], f[n - 1])
    OBVIOUS
  <2>1. n - 1 \in 0..m
    BY <1>1
  <2>2. f[n - 1] \in ScanStates
    BY <2>1
  <2> HIDE DEF m, low
  <2> QED
    BY <1>5, <2>2
<1> DEFINE g == [i \in low..Len(t) |-> f[i - low]]
<1>7. g = Over(g)
  <2>1. ASSUME NEW i \in low..Len(t)
        PROVE  g[i] = IF i < start THEN ScanStart ELSE Document!Scanned(t[i], g[i - 1])
    <3>1. CASE i < start
      <4>1. i = low /\ i - low = 0
        BY <1>1, <3>1
      <4> QED
        BY <1>5, <3>1, <4>1
    <3>2. CASE ~(i < start)
      <4>1. i - low \in 1..m /\ i - 1 \in low..Len(t) /\ (i - low) + low = i /\ (i - low) - 1 = (i - 1) - low
        BY <1>1, <3>2
      <4> HIDE DEF m, low
      <4>2. f[i - low] = Document!Scanned(t[i], f[(i - 1) - low])
        BY <1>6, <4>1
      <4> QED
        BY <3>2, <4>1, <4>2
    <3> QED
      BY <3>1, <3>2
  <2> HIDE DEF m, low, step
  <2> QED
    BY <2>1
<1> HIDE DEF g, step
<1>8. F = Over(F)
  <2> HIDE DEF Over
  <2> QED
    BY <1>7
<1> HIDE DEF F
<1>9. /\ F[low] = ScanStart
      /\ \A i \in start..Len(t) : F[i] = Document!Scanned(t[i], F[i - 1])
  <2>1. \A i \in low..Len(t) : Over(F)[i] = IF i < start THEN ScanStart ELSE Document!Scanned(t[i], F[i - 1])
    OBVIOUS
  <2>2. low \in low..Len(t) /\ \A i \in start..Len(t) : i \in low..Len(t) /\ ~(i < start)
    BY <1>1
  <2> HIDE DEF Over
  <2> QED
    BY <1>1, <1>8, <2>1, <2>2
<1> DEFINE Good == {n \in 0..m : F[n + low] \in ScanStates}
<1>10. 0 \in Good /\ \A n \in 1..m : n - 1 \in Good => n \in Good
  <2>1. 0 \in Good
    BY <1>1, <1>3, <1>9
  <2>2. ASSUME NEW n \in 1..m, n - 1 \in Good PROVE n \in Good
    <3>1. F[(n - 1) + low] \in ScanStates /\ n + low \in start..Len(t) /\ (n - 1) + low = (n + low) - 1 /\ n \in 0..m
          /\ n + low \in 1..Len(t)
      BY <1>1, <2>2
    <3>2. t[n + low] \in Document!Tokens
      BY <3>1
    <3>3. F[n + low] \in ScanStates
      BY <1>9, <3>1, <3>2, ScannedIs
    <3> QED
      BY <3>1, <3>3
  <2> QED
    BY <2>1, <2>2
<1>11. \A n \in 0..m : F[n + low] \in ScanStates
  <2>1. \A n \in 0..m : n \in Good
    <3> HIDE DEF Good, m
    <3> QED
      BY <1>1, <1>10, GoesUp
  <2> QED
    BY <2>1
<1>12. ASSUME NEW i \in start..Len(t) PROVE F[i] \in ScanStates /\ F[i - 1] \in ScanStates
  <2>1. i - low \in 0..m /\ (i - low) - 1 \in 0..m /\ (i - low) + low = i /\ ((i - low) - 1) + low = i - 1
    BY <1>1
  <2> QED
    BY <1>11, <2>1
<1> QED
  BY <1>1, <1>2, <1>9, <1>12 DEF Scans

(* A token is escaped when the backslash before it is not.                  *)
LEMMA EscapedStep ==
  ASSUME NEW o \in Seq(Document!Tokens), NEW i \in Nat \ {0}
  PROVE  /\ ~Document!Escaped(o, 1)
         /\ Document!Escaped(o, i + 1) <=> o[i] = "escape" /\ ~Document!Escaped(o, i)
<1> DEFINE Slashes(n) == {k \in 0 .. n - 1 : \A j \in (n - k)..(n - 1) : o[j] = "escape"}
<1>1. \A n \in Nat \ {0} : Document!Escaped(o, n) <=> Document!Last(Slashes(n)) % 2 = 1
  BY DEF Document!Escaped
<1>2. \A n \in Nat \ {0} : 0 \in Slashes(n) /\ Slashes(n) \in SUBSET (0 .. n - 1) /\ n - 1 \in Nat
  OBVIOUS
<1>3. ASSUME NEW n \in Nat \ {0}
      PROVE  /\ Document!Last(Slashes(n)) \in Slashes(n) /\ \A m \in Slashes(n) : m <= Document!Last(Slashes(n))
             /\ \A l \in Slashes(n) : (\A m \in Slashes(n) : m <= l) => l = Document!Last(Slashes(n))
  <2> HIDE DEF Slashes
  <2> QED
    BY <1>2, LastPlace
<1>4. Slashes(1) = {0}
  OBVIOUS
<1>5. ~Document!Escaped(o, 1)
  <2>1. Document!Last(Slashes(1)) \in Slashes(1)
    BY <1>3
  <2> QED
    BY <1>1, <1>4, <2>1
<1>6. CASE o[i] # "escape"
  <2>1. \A k \in Slashes(i + 1) : k = 0
    <3> TAKE k \in Slashes(i + 1)
    <3>1. k \in 0..i /\ \A j \in ((i + 1) - k)..i : o[j] = "escape"
      OBVIOUS
    <3>2. k # 0 => i \in ((i + 1) - k)..i
      BY <3>1
    <3> QED
      BY <1>6, <3>1, <3>2
  <2>2. i + 1 \in Nat \ {0}
    OBVIOUS
  <2> HIDE DEF Slashes
  <2>3. Document!Last(Slashes(i + 1)) = 0
    BY <1>3, <2>1, <2>2
  <2> QED
    BY <1>1, <1>5, <1>6, <2>2, <2>3
<1>7. CASE o[i] = "escape"
  <2> DEFINE l == Document!Last(Slashes(i))
  <2>1. l \in Slashes(i) /\ \A m \in Slashes(i) : m <= l
    <3> HIDE DEF Slashes
    <3> QED
      BY <1>3
  <2>2. l \in Nat /\ i + 1 \in Nat \ {0}
    BY <2>1
  <2> HIDE DEF l
  <2>3. l + 1 \in Slashes(i + 1)
    <3>1. l \in 0 .. i - 1 /\ \A j \in (i - l)..(i - 1) : o[j] = "escape"
      BY <2>1
    <3>2. \A j \in ((i + 1) - (l + 1))..((i + 1) - 1) : j = i \/ j \in (i - l)..(i - 1)
      BY <3>1
    <3> QED
      BY <1>7, <3>1, <3>2
  <2>4. ASSUME NEW k \in Slashes(i + 1) PROVE k <= l + 1
    <3>1. k \in 0..i /\ \A j \in ((i + 1) - k)..i : o[j] = "escape"
      OBVIOUS
    <3>2. CASE k = 0
      BY <2>2, <3>2
    <3>3. CASE k # 0
      <4>1. k - 1 \in 0 .. i - 1 /\ \A j \in (i - (k - 1))..(i - 1) : j \in ((i + 1) - k)..i
        BY <3>1, <3>3
      <4>2. k - 1 \in Slashes(i)
        BY <3>1, <4>1
      <4>3. k - 1 <= l
        BY <2>1, <4>2
      <4> QED
        BY <2>2, <3>1, <4>3
    <3> QED
      BY <3>2, <3>3
  <2> HIDE DEF Slashes
  <2>5. Document!Last(Slashes(i + 1)) = l + 1
    BY <1>3, <2>2, <2>3, <2>4
  <2>6. (l + 1) % 2 = 1 <=> ~(l % 2 = 1)
    BY <2>2
  <2>7. (Document!Escaped(o, i + 1) <=> (l + 1) % 2 = 1) /\ (Document!Escaped(o, i) <=> l % 2 = 1)
    BY <1>1, <2>2, <2>5 DEF l
  <2> QED
    BY <1>5, <1>7, <2>6, <2>7
<1> QED
  BY <1>6, <1>7

(* One place more to be counted.                                            *)
LEMMA CountGrows ==
  ASSUME NEW n \in Nat, NEW P
  PROVE  /\ Cardinality({i \in 1..n : i \in P}) \in Nat
         /\ Cardinality({i \in 1 .. n + 1 : i \in P})
              = Cardinality({i \in 1..n : i \in P}) + IF n + 1 \in P THEN 1 ELSE 0
         /\ Cardinality({i \in 1..0 : i \in P}) = 0
<1> DEFINE K == {i \in 1..n : i \in P}
           a == n + 1
<1>1. IsFiniteSet(K) /\ a \notin K
  <2>1. IsFiniteSet(1..n) /\ K \subseteq 1..n
    BY FS_Interval
  <2> HIDE DEF K
  <2>2. IsFiniteSet(K)
    BY <2>1, FS_Subset
  <2> QED
    BY <2>1, <2>2
<1>2. {i \in 1 .. n + 1 : i \in P} = IF n + 1 \in P THEN K \cup {a} ELSE K
  <2>1. 1 .. n + 1 = (1..n) \cup {n + 1}
    OBVIOUS
  <2> QED
    BY <2>1
<1>3. {i \in 1..0 : i \in P} = {}
  OBVIOUS
<1>4. Cardinality({i \in 1..0 : i \in P}) = 0
  BY <1>3, FS_EmptySet
<1> HIDE DEF K, a
<1>5. Cardinality(K) \in Nat /\ Cardinality(K \cup {a}) = Cardinality(K) + 1
  <2>1. Cardinality(K) \in Nat
    BY ONLY <1>1, FS_CardinalityType
  <2>2. Cardinality(K \cup {a}) = Cardinality(K) + 1
    BY ONLY <1>1, FS_AddElement
  <2> QED
    BY <2>1, <2>2
<1>6. Cardinality({i \in 1 .. n + 1 : i \in P}) = Cardinality(K) + IF n + 1 \in P THEN 1 ELSE 0
  <2>1. CASE n + 1 \in P
    BY <1>2, <1>5, <2>1
  <2>2. CASE n + 1 \notin P
    BY <1>2, <1>5, <2>2
  <2> QED
    BY <2>1, <2>2
<1> QED
  BY <1>4, <1>5, <1>6 DEF K

(* Quotes and braces, counted token after token.                            *)
LEMMA QuotedStep ==
  ASSUME NEW o \in Seq(Document!Tokens), NEW i \in Nat \ {0}
  PROVE  /\ ~Document!Quoted(o, 1)
         /\ Document!Quoted(o, i + 1) <=>
              (Document!Quoted(o, i) /\ ~(o[i] = "quote" /\ ~Document!Escaped(o, i)))
                \/ (~Document!Quoted(o, i) /\ o[i] = "quote" /\ ~Document!Escaped(o, i))
<1> DEFINE P == {j \in Nat : o[j] = "quote" /\ ~Document!Escaped(o, j)}
           Up(n) == Cardinality({j \in 1..n : j \in P})
<1>1. \A n \in Nat \ {0} : Document!Quoted(o, n) <=> Up(n - 1) % 2 = 1
  <2> SUFFICES ASSUME NEW n \in Nat \ {0} PROVE Document!Quoted(o, n) <=> Up(n - 1) % 2 = 1
    OBVIOUS
  <2>1. {j \in 1 .. n - 1 : o[j] = "quote" /\ ~Document!Escaped(o, j)} = {j \in 1 .. n - 1 : j \in P}
    OBVIOUS
  <2> QED
    BY <2>1, DocumentCounts DEF Document!Quoted
<1>2. i \in P <=> o[i] = "quote" /\ ~Document!Escaped(o, i)
  OBVIOUS
<1> DEFINE n == i - 1
<1>3. n \in Nat /\ n + 1 = i /\ 1 \in Nat \ {0} /\ i + 1 \in Nat \ {0} /\ (i + 1) - 1 = i /\ 1 - 1 = 0
  OBVIOUS
<1> HIDE DEF P, n
<1>4. Up(n) \in Nat /\ Up(n + 1) = Up(n) + (IF n + 1 \in P THEN 1 ELSE 0) /\ Up(0) = 0
  BY <1>3, CountGrows
<1> HIDE DEF Up
<1>5. Up(n) \in Nat /\ Up(i) = Up(n) + (IF i \in P THEN 1 ELSE 0) /\ Up(0) = 0
  BY <1>3, <1>4
<1>6. (Up(n) + 1) % 2 = 1 <=> ~(Up(n) % 2 = 1)
  BY <1>5
<1>7. ~Document!Quoted(o, 1)
  BY <1>1, <1>3, <1>5
<1>8. /\ Document!Quoted(o, i) <=> Up(n) % 2 = 1
      /\ Document!Quoted(o, i + 1) <=> Up(i) % 2 = 1
  BY <1>1, <1>3 DEF n
<1>9. CASE i \in P
  BY <1>2, <1>5, <1>6, <1>7, <1>8, <1>9
<1>10. CASE i \notin P
  <2>1. Up(i) = Up(n)
    BY <1>5, <1>10
  <2> QED
    BY <1>2, <1>7, <1>8, <1>10, <2>1
<1> QED
  BY <1>9, <1>10

LEMMA CountStep ==
  ASSUME NEW o \in Seq(Document!Tokens), NEW c, NEW n \in Nat
  PROVE  /\ Document!Count(o, c, n) \in Nat /\ Document!Count(o, c, 0) = 0
         /\ Document!Count(o, c, n + 1) = Document!Count(o, c, n)
              + IF o[n + 1] = c /\ ~Document!Quoted(o, n + 1) /\ ~Document!Escaped(o, n + 1) THEN 1 ELSE 0
<1> DEFINE P == {i \in Nat : o[i] = c /\ ~Document!Quoted(o, i) /\ ~Document!Escaped(o, i)}
           Up(k) == Cardinality({i \in 1..k : i \in P})
<1>1. \A k \in Nat : Document!Count(o, c, k) = Up(k)
  <2> SUFFICES ASSUME NEW k \in Nat PROVE Document!Count(o, c, k) = Up(k)
    OBVIOUS
  <2>1. {i \in 1..k : o[i] = c /\ ~Document!Quoted(o, i) /\ ~Document!Escaped(o, i)} = {i \in 1..k : i \in P}
    OBVIOUS
  <2> QED
    BY <2>1, DocumentCounts DEF Document!Count
<1>2. n + 1 \in P <=> o[n + 1] = c /\ ~Document!Quoted(o, n + 1) /\ ~Document!Escaped(o, n + 1)
  OBVIOUS
<1>3. 0 \in Nat /\ n + 1 \in Nat
  OBVIOUS
<1> HIDE DEF P
<1>4. Up(n) \in Nat /\ Up(n + 1) = Up(n) + (IF n + 1 \in P THEN 1 ELSE 0) /\ Up(0) = 0
  BY CountGrows
<1> HIDE DEF Up
<1> QED
  BY <1>1, <1>2, <1>3, <1>4

(* The scan of an object knows where it stands.                             *)
Knows(o, k, at) ==
  /\ at.escaped <=> Document!Escaped(o, k + 1)
  /\ at.inString <=> Document!Quoted(o, k + 1)
  /\ at.depth = Document!Count(o, "open", k) - Document!Count(o, "close", k)

LEMMA ScanKnows ==
  ASSUME NEW t \in Seq(Document!Tokens), NEW start \in 1..Len(t), NEW end \in start..Len(t),
         NEW o \in Seq(Document!Tokens), Len(o) = (end - start) + 1,
         \A k \in 1..Len(o) : o[k] = t[start - 1 + k]
  PROVE  \A k \in 0..Len(o) : Knows(o, k, Document!Scan(t, start)[start - 1 + k])
<1> DEFINE scan == Document!Scan(t, start)
           low == start - 1
           Good == {k \in 0..Len(o) : Knows(o, k, scan[low + k])}
<1>1. Scans(t, start, scan)
  BY ScanGoes
<1> HIDE DEF scan
<1>2. Len(o) \in Nat /\ low \in Nat /\ low + 0 = start - 1
  OBVIOUS
<1>3. 0 \in Good
  <2>1. /\ ~Document!Escaped(o, 0 + 1) /\ ~Document!Quoted(o, 0 + 1)
        /\ Document!Count(o, "open", 0) = 0 /\ Document!Count(o, "close", 0) = 0
    <3>1. 1 \in Nat \ {0} /\ 0 + 1 = 1 /\ 0 \in Nat
      OBVIOUS
    <3>2. ~Document!Escaped(o, 1) /\ ~Document!Quoted(o, 1)
      BY <3>1, EscapedStep, QuotedStep
    <3>3. Document!Count(o, "open", 0) = 0 /\ Document!Count(o, "close", 0) = 0
      BY <3>1, CountStep
    <3> QED
      BY <3>1, <3>2, <3>3
  <2>2. scan[low + 0] = ScanStart
    BY <1>1, <1>2 DEF Scans
  <2>3. Knows(o, 0, ScanStart)
    BY <2>1 DEF Knows, ScanStart
  <2> QED
    BY <1>2, <2>2, <2>3
<1>4. ASSUME NEW k \in 1..Len(o), k - 1 \in Good PROVE k \in Good
  <2> DEFINE at == scan[low + (k - 1)]
             i == low + k
             c == t[i]
             open == Document!Count(o, "open", k - 1)
             close == Document!Count(o, "close", k - 1)
  <2>1. /\ i \in start..Len(t) /\ i \in 1..Len(t) /\ i - 1 = low + (k - 1) /\ k \in Nat \ {0} /\ k - 1 \in Nat
        /\ (k - 1) + 1 = k /\ k \in 0..Len(o)
    BY <1>2
  <2>2. c = o[k] /\ c \in Document!Tokens
    BY <2>1
  <2>3. at \in ScanStates /\ scan[i] = Document!Scanned(c, at)
    BY <1>1, <2>1 DEF Scans
  <2>4. Knows(o, k - 1, at)
    BY <1>4
  <2> HIDE DEF at, c, i
  <2>5. /\ at.escaped <=> Document!Escaped(o, k)
        /\ at.inString <=> Document!Quoted(o, k)
        /\ at.depth = open - close
    BY <2>1, <2>4 DEF Knows
  <2>6. /\ scan[i].escaped <=> c = "escape" /\ ~at.escaped
        /\ scan[i].inString <=> (at.inString /\ ~(c = "quote" /\ ~at.escaped)) \/ (~at.inString /\ c = "quote" /\ ~at.escaped)
        /\ scan[i].depth = at.depth + Deeper(c, at)
    BY <2>2, <2>3, ScannedIs
  <2>7. scan[i].escaped <=> Document!Escaped(o, k + 1)
    BY <2>1, <2>2, <2>5, <2>6, EscapedStep
  <2>8. scan[i].inString <=> Document!Quoted(o, k + 1)
    BY <2>1, <2>2, <2>5, <2>6, QuotedStep
  <2> DEFINE plain == ~at.inString /\ ~at.escaped
  <2>9. /\ open \in Nat /\ close \in Nat
        /\ Document!Count(o, "open", k) = open + (IF c = "open" /\ plain THEN 1 ELSE 0)
        /\ Document!Count(o, "close", k) = close + (IF c = "close" /\ plain THEN 1 ELSE 0)
    <3>1. ASSUME NEW b
          PROVE  /\ Document!Count(o, b, k - 1) \in Nat
                 /\ Document!Count(o, b, k) = Document!Count(o, b, k - 1)
                      + IF o[k] = b /\ ~Document!Quoted(o, k) /\ ~Document!Escaped(o, k) THEN 1 ELSE 0
      <4> DEFINE n == k - 1
      <4>1. n \in Nat /\ n + 1 = k
        BY <2>1
      <4> HIDE DEF n
      <4>2. /\ Document!Count(o, b, n) \in Nat
            /\ Document!Count(o, b, n + 1) = Document!Count(o, b, n)
                 + IF o[n + 1] = b /\ ~Document!Quoted(o, n + 1) /\ ~Document!Escaped(o, n + 1) THEN 1 ELSE 0
        BY <4>1, CountStep
      <4> QED
        BY <4>1, <4>2 DEF n
    <3> QED
      BY <2>2, <2>5, <3>1
  <2>10. Deeper(c, at) = IF plain /\ c = "open" THEN 1 ELSE IF plain /\ c = "close" THEN -1 ELSE 0
    BY DEF Deeper
  <2> HIDE DEF open, close, plain
  <2>11. scan[i].depth = Document!Count(o, "open", k) - Document!Count(o, "close", k)
    BY <2>5, <2>6, <2>9, <2>10
  <2>12. Knows(o, k, scan[i])
    BY <2>7, <2>8, <2>11 DEF Knows
  <2> QED
    BY <2>1, <2>12 DEF i
<1> HIDE DEF Good
<1>5. \A k \in 0..Len(o) : k \in Good
  BY <1>2, <1>3, <1>4, GoesUp
<1> QED
  BY <1>5 DEF Good, scan

(* Where a search begins, and the object that it finds.                     *)
LEMMA BeginsIs ==
  ASSUME NEW t \in Seq(Document!Tokens)
  PROVE  /\ Document!From(t) \in Nat \ {0}
         /\ Document!Markers(t) # {} =>
              /\ Document!Last(Document!Markers(t)) \in Document!Markers(t)
              /\ \A m \in Document!Markers(t) : m <= Document!Last(Document!Markers(t))
              /\ Document!From(t) = Document!Last(Document!Markers(t)) + 1
<1>1. Document!Markers(t) \in SUBSET (0..Len(t)) /\ Document!Markers(t) \in SUBSET (1..Len(t)) /\ Len(t) \in Nat
  BY DEF Document!Markers
<1>2. ASSUME Document!Markers(t) # {}
      PROVE  /\ Document!Last(Document!Markers(t)) \in Document!Markers(t)
             /\ \A m \in Document!Markers(t) : m <= Document!Last(Document!Markers(t))
  BY <1>1, <1>2, LastPlace
<1> QED
  BY <1>1, <1>2 DEF Document!From

(* From a to b is the object that extractFirstJsonObject returns.           *)
Finds(t, a, b) ==
  /\ a \in 1..Len(t) /\ t[a] = "open" /\ b \in a..Len(t)
  /\ Document!Scan(t, a)[b].depth = 0
  /\ \A i \in a .. b - 1 : ~(t[i] = "close" /\ Document!Scan(t, a)[i].depth = 0)

(* The object of a text that has one.                                       *)
LEMMA ObjectIs ==
  ASSUME NEW t \in Seq(Document!Tokens), Document!HasObject(t)
  PROVE  /\ Finds(t, Document!First(Document!Opens(t)), Document!First(Document!Closes(t)))
         /\ Document!First(Document!Opens(t)) \in Document!Opens(t)
         /\ \A i \in Document!Opens(t) : Document!First(Document!Opens(t)) <= i
         /\ Document!First(Document!Closes(t)) \in Document!Closes(t)
         /\ \A i \in Document!Closes(t) : Document!First(Document!Closes(t)) <= i
<1> DEFINE a == Document!First(Document!Opens(t))
           b == Document!First(Document!Closes(t))
<1>1. Document!Opens(t) # {} /\ Document!Closes(t) # {}
  BY DEF Document!HasObject
<1>2. Document!From(t) \in Nat \ {0}
  BY BeginsIs
<1>3. Document!Opens(t) \in SUBSET Nat
  BY <1>2 DEF Document!Opens
<1>4. a \in Document!Opens(t) /\ \A i \in Document!Opens(t) : a <= i
  BY <1>1, <1>3, FirstPlace
<1>5. a \in 1..Len(t) /\ t[a] = "open"
  BY <1>2, <1>4 DEF Document!Opens
<1>6. Document!Closes(t) \in SUBSET Nat
  BY <1>5 DEF Document!Closes
<1>7. b \in Document!Closes(t) /\ \A i \in Document!Closes(t) : b <= i
  BY <1>1, <1>6, FirstPlace
<1> HIDE DEF b
<1>8. b \in a..Len(t) /\ Document!Scan(t, a)[b].depth = 0
  BY <1>7 DEF Document!Closes
<1> HIDE DEF a
<1>9. ASSUME NEW i \in a .. b - 1, t[i] = "close", Document!Scan(t, a)[i].depth = 0
      PROVE  FALSE
  <2>1. i \in a..Len(t) /\ ~(b <= i)
    BY <1>5, <1>8
  <2>2. i \in Document!Closes(t)
    BY <1>9, <2>1 DEF Document!Closes, a
  <2> QED
    BY <1>7, <2>1, <2>2
<1>10. Finds(t, a, b)
  BY <1>5, <1>8, <1>9 DEF Finds
<1> QED
  BY <1>4, <1>7, <1>10 DEF a, b

(* Up to its end the object is open.                                        *)
LEMMA StaysOpen ==
  ASSUME NEW t \in Seq(Document!Tokens), NEW a, NEW b, Finds(t, a, b)
  PROVE  \A i \in a .. b - 1 : Document!Scan(t, a)[i].depth > 0
<1> DEFINE scan == Document!Scan(t, a)
<1>1. a \in 1..Len(t) /\ t[a] = "open" /\ b \in a..Len(t) /\ Len(t) \in Nat
  BY DEF Finds
<1>2. Scans(t, a, scan)
  BY <1>1, ScanGoes
<1>3. \A i \in a .. b - 1 : ~(t[i] = "close" /\ scan[i].depth = 0)
  BY DEF Finds
<1> HIDE DEF scan
<1> DEFINE m == b - a
           Good == {n \in 0..m : n + 1 <= m => scan[a + n].depth > 0}
<1>4. m \in Nat /\ b = a + m
  BY <1>1
<1>5. 0 \in Good
  <2>1. scan[a] = Document!Scanned("open", ScanStart) /\ "open" \in Document!Tokens /\ ScanStart \in ScanStates
    BY <1>1, <1>2 DEF Scans, Document!Tokens, ScanStates, ScanStart
  <2>2. Document!Scanned("open", ScanStart).depth = ScanStart.depth + Deeper("open", ScanStart)
    BY <2>1, ScannedIs
  <2>3. scan[a].depth = 1
    BY <2>1, <2>2 DEF ScanStart, Deeper
  <2>4. a + 0 = a
    BY <1>1
  <2> QED
    BY <1>4, <2>3, <2>4
<1>6. ASSUME NEW n \in 1..m, n - 1 \in Good PROVE n \in Good
  <2> SUFFICES ASSUME n + 1 <= m PROVE scan[a + n].depth > 0
    OBVIOUS
  <2> DEFINE i == a + n
  <2>1. i \in a .. b - 1 /\ i \in a..Len(t) /\ i \in 1..Len(t) /\ i - 1 = a + (n - 1) /\ (n - 1) + 1 <= m
    BY <1>1, <1>4
  <2>2. scan[i - 1].depth > 0
    BY <1>6, <2>1
  <2> HIDE DEF i
  <2>3. /\ t[i] \in Document!Tokens /\ scan[i - 1] \in ScanStates
        /\ scan[i] = Document!Scanned(t[i], scan[i - 1])
    BY <1>2, <2>1 DEF Scans
  <2>4. scan[i].depth = scan[i - 1].depth + Deeper(t[i], scan[i - 1])
    BY <2>3, ScannedIs
  <2>5. scan[i - 1].depth \in Int
    BY <2>3 DEF ScanStates
  <2>6. Deeper(t[i], scan[i - 1]) \in {0, 1} \/ (Deeper(t[i], scan[i - 1]) = -1 /\ t[i] = "close")
    BY DEF Deeper
  <2>7. ~(t[i] = "close" /\ scan[i].depth = 0)
    BY <1>3, <2>1
  <2> QED
    BY <2>2, <2>4, <2>5, <2>6, <2>7 DEF i
<1> HIDE DEF Good, m
<1>7. \A n \in 0..m : n \in Good
  BY <1>4, <1>5, <1>6, GoesUp
<1> SUFFICES ASSUME NEW i \in a .. b - 1 PROVE scan[i].depth > 0
  BY DEF scan
<1>8. i - a \in 0..m /\ (i - a) + 1 <= m /\ a + (i - a) = i
  BY <1>1 DEF m
<1>9. i - a \in Good
  BY <1>7, <1>8
<1> QED
  BY <1>8, <1>9 DEF Good

(* Its braces outside strings balance at its end and nowhere before.        *)
LEMMA ObjectIsWhole ==
  ASSUME NEW t \in Seq(Document!Tokens), Document!HasObject(t), NEW o, o = Document!Object(t)
  PROVE  /\ Document!Count(o, "open", Len(o)) = Document!Count(o, "close", Len(o))
         /\ \A n \in 1 .. Len(o) - 1 : Document!Count(o, "open", n) > Document!Count(o, "close", n)
<1> DEFINE a == Document!First(Document!Opens(t))
           b == Document!First(Document!Closes(t))
           scan == Document!Scan(t, a)
<1>1. Finds(t, a, b)
  BY ObjectIs
<1>2. o = SubSeq(t, a, b)
  BY DEF Document!Object
<1> HIDE DEF a, b
<1>3. a \in 1..Len(t) /\ b \in a..Len(t) /\ Len(t) \in Nat /\ scan[b].depth = 0
  BY <1>1 DEF Finds
<1>4. /\ o \in Seq(Document!Tokens) /\ Len(o) = (b - a) + 1
      /\ \A k \in 1..Len(o) : o[k] = t[a - 1 + k]
  <2>1. a <= b + 1 /\ \A i \in a..b : t[i] \in Document!Tokens
    BY <1>3
  <2> QED
    BY <1>2, <1>3, <2>1
<1>5. \A k \in 0..Len(o) : Knows(o, k, scan[a - 1 + k])
  <2>1. \A k \in 0..Len(o) : Knows(o, k, Document!Scan(t, a)[a - 1 + k])
    BY ONLY t \in Seq(Document!Tokens), <1>3, <1>4, ScanKnows
  <2> QED
    BY <2>1
<1>6. \A i \in a .. b - 1 : scan[i].depth > 0
  BY <1>1, StaysOpen
<1> HIDE DEF scan
<1>7. \A k \in 0..Len(o) :
        /\ Document!Count(o, "open", k) \in Nat /\ Document!Count(o, "close", k) \in Nat
        /\ scan[a - 1 + k].depth = Document!Count(o, "open", k) - Document!Count(o, "close", k)
  <2> TAKE k \in 0..Len(o)
  <2>1. k \in Nat
    BY <1>4
  <2>2. Knows(o, k, scan[a - 1 + k])
    BY <1>5
  <2> QED
    BY <1>4, <2>1, <2>2, CountStep DEF Knows
<1>8. Document!Count(o, "open", Len(o)) = Document!Count(o, "close", Len(o))
  <2>1. Len(o) \in 0..Len(o) /\ a - 1 + Len(o) = b
    BY <1>3, <1>4
  <2> DEFINE x == Document!Count(o, "open", Len(o))
             y == Document!Count(o, "close", Len(o))
  <2>2. x \in Nat /\ y \in Nat /\ x - y = 0
    BY <1>3, <1>7, <2>1
  <2> HIDE DEF x, y
  <2>3. x = y
    BY <2>2
  <2> QED
    BY <2>3 DEF x, y
<1>9. ASSUME NEW n \in 1 .. Len(o) - 1
      PROVE  Document!Count(o, "open", n) > Document!Count(o, "close", n)
  <2>1. n \in 0..Len(o) /\ a - 1 + n \in a .. b - 1
    BY <1>3, <1>4
  <2>2. scan[a - 1 + n].depth > 0
    BY <1>6, <2>1
  <2> DEFINE x == Document!Count(o, "open", n)
             y == Document!Count(o, "close", n)
  <2>3. x \in Nat /\ y \in Nat /\ x - y > 0
    BY <1>7, <2>1, <2>2
  <2> HIDE DEF x, y
  <2>4. x > y
    BY <2>3
  <2> QED
    BY <2>4 DEF x, y
<1> QED
  BY <1>8, <1>9

(* The scan of a text and of its beginning agree.                           *)
LEMMA ScansAgree ==
  ASSUME NEW t \in Seq(Document!Tokens), NEW s \in Seq(Document!Tokens), Len(s) <= Len(t),
         \A i \in 1..Len(s) : s[i] = t[i], NEW start \in 1..Len(s)
  PROVE  \A i \in start..Len(s) : Document!Scan(s, start)[i] = Document!Scan(t, start)[i]
<1> DEFINE ss == Document!Scan(s, start)
           st == Document!Scan(t, start)
           low == start - 1
           m == Len(s) - low
           Good == {n \in 0..m : ss[low + n] = st[low + n]}
<1>1. start \in 1..Len(t) /\ m \in Nat /\ low \in Nat /\ Len(s) \in Nat /\ Len(t) \in Nat /\ Len(s) = low + m
  OBVIOUS
<1>2. Scans(s, start, ss) /\ Scans(t, start, st)
  BY <1>1, ScanGoes
<1> HIDE DEF ss, st
<1>3. 0 \in Good
  <2>1. ss[start - 1] = st[start - 1] /\ low + 0 = start - 1
    BY <1>2 DEF Scans
  <2> QED
    BY <1>1, <2>1
<1>4. ASSUME NEW n \in 1..m, n - 1 \in Good PROVE n \in Good
  <2> DEFINE i == low + n
  <2>1. i \in start..Len(s) /\ i \in start..Len(t) /\ i \in 1..Len(s) /\ i - 1 = low + (n - 1) /\ n \in 0..m
    BY <1>1
  <2>2. ss[i - 1] = st[i - 1]
    BY <1>4, <2>1
  <2> HIDE DEF i
  <2>3. ss[i] = Document!Scanned(s[i], ss[i - 1]) /\ st[i] = Document!Scanned(t[i], st[i - 1]) /\ s[i] = t[i]
    BY <1>2, <2>1 DEF Scans
  <2>4. ss[i] = st[i]
    BY <2>2, <2>3
  <2> QED
    BY <2>1, <2>4 DEF i
<1> HIDE DEF Good, m
<1>5. \A n \in 0..m : n \in Good
  BY <1>1, <1>3, <1>4, GoesUp
<1> SUFFICES ASSUME NEW i \in start..Len(s) PROVE ss[i] = st[i]
  BY DEF ss, st
<1>6. i - low \in 0..m /\ low + (i - low) = i
  BY <1>1
<1>7. i - low \in Good
  BY <1>5, <1>6
<1> QED
  BY <1>6, <1>7 DEF Good

(* A beginning that is closed, and has the last marker, holds the object.   *)
LEMMA BeginningTakesSame ==
  ASSUME NEW t \in Seq(Document!Tokens), Document!Closed(t),
         NEW n \in Document!Last(Document!Markers(t)) .. Len(t) - 1,
         NEW s, s = SubSeq(t, 1, n), Document!Closed(s)
  PROVE  Document!Object(s) = Document!Object(t)
<1> DEFINE l == Document!Last(Document!Markers(t))
           h == Document!Last(Document!Markers(s))
<1>1. Document!Markers(t) # {} /\ Document!HasObject(t) /\ Document!Markers(s) # {} /\ Document!HasObject(s)
  BY DEF Document!Closed
<1>2. /\ l \in Document!Markers(t) /\ (\A m \in Document!Markers(t) : m <= l)
      /\ Document!From(t) = l + 1
  BY <1>1, BeginsIs
<1>3. l \in 1..Len(t) /\ n \in l .. Len(t) - 1 /\ Len(t) \in Nat
  BY <1>2 DEF Document!Markers
<1> HIDE DEF l
<1>4. s \in Seq(Document!Tokens) /\ Len(s) = n /\ \A i \in 1..n : s[i] = t[i]
  <2>1. \A i \in 1..n : t[i] \in Document!Tokens
    BY <1>3
  <2> QED
    BY <1>3, <2>1
<1>5. /\ h \in Document!Markers(s) /\ (\A m \in Document!Markers(s) : m <= h)
      /\ Document!From(s) = h + 1
  BY <1>1, <1>4, BeginsIs
<1> HIDE DEF h
<1>6. h \in 1..n
  BY <1>4, <1>5 DEF Document!Markers
<1>7. l \in Document!Markers(s)
  <2>1. Document!Standalone(t, l)
    BY <1>2 DEF Document!Markers
  <2>2. l \in 1..n /\ (l # n => l + 1 \in 1..n) /\ (l # 1 => l - 1 \in 1..n) /\ l # Len(t)
    BY <1>3
  <2>3. Document!Standalone(s, l)
    BY <1>4, <2>1, <2>2 DEF Document!Standalone
  <2> QED
    BY <1>4, <2>2, <2>3 DEF Document!Markers
<1>8. h < n
  <2>1. PICK i : i \in Document!Opens(s)
    BY <1>1 DEF Document!HasObject
  <2>2. i \in (h + 1)..n
    BY <1>4, <1>5, <2>1 DEF Document!Opens
  <2> QED
    BY <1>3, <1>6, <2>2
<1>9. h \in Document!Markers(t)
  <2>1. Document!Standalone(s, h)
    BY <1>5 DEF Document!Markers
  <2>2. h \in 1..n /\ h + 1 \in 1..n /\ (h # 1 => h - 1 \in 1..n) /\ h # n /\ h \in 1..Len(t)
    BY <1>3, <1>6, <1>8
  <2>3. Document!Standalone(t, h)
    BY <1>4, <2>1, <2>2 DEF Document!Standalone
  <2> QED
    BY <2>2, <2>3 DEF Document!Markers
<1>10. h = l
  <2>1. h <= l /\ l <= h
    BY <1>2, <1>5, <1>7, <1>9
  <2> QED
    BY <1>3, <1>6, <2>1
<1>11. Document!Opens(s) = Document!Opens(t) \cap (1..n)
  <2>1. Document!Opens(s) = {i \in (l + 1)..n : s[i] = "open"} /\ Document!Opens(t) = {i \in (l + 1)..Len(t) : t[i] = "open"}
    BY <1>2, <1>4, <1>5, <1>10 DEF Document!Opens
  <2>2. \A i \in (l + 1)..n : i \in 1..n /\ i \in (l + 1)..Len(t)
    BY <1>3
  <2>3. \A i \in (l + 1)..Len(t) : i \in 1..n => i \in (l + 1)..n
    BY <1>3
  <2> QED
    BY <1>4, <2>1, <2>2, <2>3
<1> DEFINE a == Document!First(Document!Opens(s))
           b == Document!First(Document!Closes(s))
<1>12. /\ Finds(s, a, b)
       /\ a \in Document!Opens(s) /\ \A i \in Document!Opens(s) : a <= i
       /\ b \in Document!Closes(s) /\ \A i \in Document!Closes(s) : b <= i
  BY <1>1, <1>4, ObjectIs
<1>13. /\ a \in 1..n /\ b \in a..n
  BY <1>4, <1>12 DEF Finds
<1> HIDE DEF a, b
<1>14. a = Document!First(Document!Opens(t))
  <2>1. Document!Opens(t) \in SUBSET Nat /\ Document!Opens(t) # {}
    <3>1. Document!Opens(t) \subseteq 1..Len(t)
      BY <1>2, <1>3 DEF Document!Opens
    <3> QED
      BY <1>11, <1>12, <3>1
  <2>2. a \in Document!Opens(t) /\ \A i \in Document!Opens(t) : a <= i
    <3>1. \A i \in Document!Opens(t) : i \in 1..Len(t)
      BY <1>2, <1>3 DEF Document!Opens
    <3>2. \A i \in 1..Len(t) : i \in 1..n \/ a <= i
      BY <1>3, <1>13
    <3> QED
      BY <1>11, <1>12, <3>1, <3>2
  <2> QED
    BY <2>1, <2>2, FirstPlace
<1>15. \A i \in a..n : Document!Scan(s, a)[i] = Document!Scan(t, a)[i]
  <2>1. Len(s) <= Len(t) /\ a \in 1..Len(s)
    BY <1>3, <1>4, <1>13
  <2> QED
    BY <1>4, <2>1, ScansAgree
<1>16. Document!Closes(s) = Document!Closes(t) \cap (1..n)
  <2>1. /\ Document!Closes(s) = {i \in a..n : s[i] = "close" /\ Document!Scan(s, a)[i].depth = 0}
        /\ Document!Closes(t) = {i \in a..Len(t) : t[i] = "close" /\ Document!Scan(t, a)[i].depth = 0}
    BY <1>4, <1>14 DEF Document!Closes, a
  <2>2. \A i \in a..n : i \in 1..n /\ i \in a..Len(t)
    BY <1>3, <1>13
  <2>3. \A i \in a..Len(t) : i \in 1..n => i \in a..n
    BY <1>3, <1>13
  <2> QED
    BY <1>4, <1>15, <2>1, <2>2, <2>3
<1>17. b = Document!First(Document!Closes(t))
  <2>1. Document!Closes(t) \in SUBSET Nat /\ Document!Closes(t) # {}
    BY <1>13, <1>14, <1>16, <1>12 DEF Document!Closes
  <2>2. b \in Document!Closes(t) /\ \A i \in Document!Closes(t) : b <= i
    <3>1. \A i \in Document!Closes(t) : i \in 1..Len(t)
      BY <1>3, <1>13, <1>14 DEF Document!Closes
    <3>2. \A i \in 1..Len(t) : i \in 1..n \/ b <= i
      BY <1>3, <1>13
    <3> QED
      BY <1>12, <1>16, <3>1, <3>2
  <2> QED
    BY <2>1, <2>2, FirstPlace
<1>18. SubSeq(s, a, b) = SubSeq(t, a, b)
  <2>1. \A i \in 1..((b - a) + 1) : (a + i) - 1 \in 1..n
    BY <1>3, <1>13
  <2> DEFINE u == SubSeq(s, a, b)
             v == SubSeq(t, a, b)
  <2>2. a \in Nat \ {0} /\ b \in Nat /\ a <= b /\ b <= Len(s) /\ b <= Len(t)
    BY <1>3, <1>4, <1>13
  <2>3. u \in Seq(Document!Tokens) /\ Len(u) = (b - a) + 1 /\ \A i \in 1..((b - a) + 1) : u[i] = s[(a + i) - 1]
    BY <1>4, <2>2
  <2>4. v \in Seq(Document!Tokens) /\ Len(v) = (b - a) + 1 /\ \A i \in 1..((b - a) + 1) : v[i] = t[(a + i) - 1]
    BY <2>2
  <2> HIDE DEF u, v
  <2>5. \A i \in 1..Len(u) : u[i] = v[i]
    BY <1>4, <2>1, <2>3, <2>4
  <2>6. u = v
    BY <2>3, <2>4, <2>5
  <2> QED
    BY <2>6 DEF u, v
<1> QED
  BY <1>14, <1>17, <1>18 DEF Document!Object, a, b

(* Both halves of TakenIsWhole.                                             *)
LEMMA DocumentIsWhole ==
  ASSUME s1 \in Seq(Document!Tokens)
  PROVE  Document!TakenIsWhole
<1>1. SUFFICES ASSUME Document!Closed(s1), NEW o, o = Document!Object(s1)
               PROVE  /\ Document!Count(o, "open", Len(o)) = Document!Count(o, "close", Len(o))
                      /\ \A n \in 1 .. Len(o) - 1 : Document!Count(o, "open", n) > Document!Count(o, "close", n)
                      /\ \A n \in Document!Last(Document!Markers(s1)) .. Len(s1) - 1 :
                           Document!Closed(SubSeq(s1, 1, n)) => Document!Object(SubSeq(s1, 1, n)) = o
  BY DEF Document!TakenIsWhole
<1>2. Document!HasObject(s1)
  BY <1>1 DEF Document!Closed
<1>3. /\ Document!Count(o, "open", Len(o)) = Document!Count(o, "close", Len(o))
      /\ \A n \in 1 .. Len(o) - 1 : Document!Count(o, "open", n) > Document!Count(o, "close", n)
  BY <1>1, <1>2, ObjectIsWhole
<1>4. \A n \in Document!Last(Document!Markers(s1)) .. Len(s1) - 1 :
        Document!Closed(SubSeq(s1, 1, n)) => Document!Object(SubSeq(s1, 1, n)) = o
  BY <1>1, BeginningTakesSame
<1> QED
  BY <1>3, <1>4

(* What another program wrote is taken as it was meant: of a diff that     *)
(* parse-diff can read every file and line, under the name and the status  *)
(* of its header; of a streamed answer an object that is whole and that no *)
(* later text changes; of a generated protocol, however its references run *)
(* in circles, what they lead to (TextIsUnderstood; src/git/diff.ts:460,   *)
(* src/review/document.ts:331, src/codex/protocol-evidence.ts:650).        *)
THEOREM TextIsRead == PartsSpec => []TextIsUnderstood
<1>1. TextInv => (part = "diff" => Text!ReadAsMeant)
  BY TextIsAsMeant DEF TextInv
<1>2. DocumentInv => (part = "document" => Document!TakenIsWhole)
  BY DocumentIsWhole DEF DocumentInv
<1>3. EvidenceInv => (part = "protocol" => Evidence!EvidenceIsEarned)
  BY EvidenceIsTrue DEF EvidenceInv
<1>4. TextInv /\ DocumentInv /\ EvidenceInv => TextIsUnderstood
  BY <1>1, <1>2, <1>3 DEF TextIsUnderstood
<1> QED
  BY <1>4, TextInductive, DocumentInductive, EvidenceInductive, PTL

-----------------------------------------------------------------------------
(* The instructions for an agent                                            *)

(* The elements of a list that are in a set.                                *)
Chosen(E, S) == [e \in E |-> IF e \in S THEN <<e>> ELSE <<>>]

(* A list of what is in a set, from what each element gives to it.          *)
LEMMA ChosenAre ==
  ASSUME NEW E, NEW S
  PROVE  Chosen(E, S) \in [E -> Seq(E \cap S)]
<1>1. ASSUME NEW e \in E, e \in S PROVE <<e>> \in Seq(E \cap S)
  BY <1>1
<1>2. <<>> \in Seq(E \cap S)
  OBVIOUS
<1> QED
  BY <1>1, <1>2 DEF Chosen

(* Setup!Only is spread over the elements.                                  *)
LEMMA OnlyIs ==
  ASSUME NEW E, NEW S, NEW list \in Seq(E)
  PROVE  Setup!Only(list, S) = Spread(list, Chosen(E, S))
<1> DEFINE a == [i \in DOMAIN list |-> IF list[i] \in S THEN <<list[i]>> ELSE <<>>]
           b == [i \in DOMAIN list |-> Chosen(E, S)[list[i]]]
<1>1. \A i \in DOMAIN list : list[i] \in E
  OBVIOUS
<1>2. \A i \in DOMAIN list : Chosen(E, S)[list[i]] = IF list[i] \in S THEN <<list[i]>> ELSE <<>>
  BY <1>1 DEF Chosen
<1>3. a = b
  BY <1>2
<1>4. Setup!Only(list, S) = Together(a) /\ Spread(list, Chosen(E, S)) = Together(b)
  BY DEF Setup!Only, Setup!Joined, Together, Spread
<1> HIDE DEF a, b
<1> QED
  BY <1>3, <1>4

(* What is chosen of two lists is what is chosen of each.                   *)
OnlyAdds(E, S, a, b) ==
  /\ a \o b \in Seq(E)
  /\ Setup!Only(a, S) \in Seq(E \cap S)
  /\ Setup!Only(a \o b, S) = Setup!Only(a, S) \o Setup!Only(b, S)
LEMMA OnlyOfBoth ==
  ASSUME NEW E, NEW S, NEW a \in Seq(E), NEW b \in Seq(E)
  PROVE  OnlyAdds(E, S, a, b)
<1>1. Chosen(E, S) \in [E -> Seq(E \cap S)]
  BY ChosenAre
<1>2. a \o b \in Seq(E)
  OBVIOUS
<1> DEFINE own == Chosen(E, S)
<1> HIDE DEF own
<1>3. own \in [E -> Seq(E \cap S)]
  BY <1>1 DEF own
<1>4. Spread(a \o b, own) = Spread(a, own) \o Spread(b, own)
  BY <1>3, SpreadOver
<1>5. Spread(a, own) \in Seq(E \cap S)
  BY <1>3, SpreadGrows
<1>6. \A x \in Seq(E) : Setup!Only(x, S) = Spread(x, own)
  BY OnlyIs DEF own
<1> QED
  BY <1>2, <1>4, <1>5, <1>6 DEF OnlyAdds

(* All is chosen of a list that has nothing else, and nothing of one that   *)
(* has nothing of it.                                                       *)
LEMMA OnlyKeepsAll ==
  ASSUME NEW E, NEW S, NEW a \in Seq(E)
  PROVE  /\ (\A i \in 1..Len(a) : a[i] \in S) => Setup!Only(a, S) = a
         /\ (\A i \in 1..Len(a) : a[i] \notin S) => Setup!Only(a, S) = <<>>
<1> DEFINE own == Chosen(E, S)
<1>1. own \in [E -> Seq(E \cap S)]
  BY ChosenAre
<1>2. \A i \in 1..Len(a) : a[i] \in E /\ own[a[i]] = IF a[i] \in S THEN <<a[i]>> ELSE <<>>
  BY DEF Chosen
<1>3. Setup!Only(a, S) = Spread(a, own)
  BY OnlyIs
<1> HIDE DEF own
<1>4. ASSUME \A i \in 1..Len(a) : a[i] \in S PROVE Setup!Only(a, S) = a
  <2>1. \A i \in 1..Len(a) : own[a[i]] = <<a[i]>>
    BY <1>2, <1>4
  <2> QED
    BY <1>1, <1>3, <2>1, SpreadSelf
<1>5. ASSUME \A i \in 1..Len(a) : a[i] \notin S PROVE Setup!Only(a, S) = <<>>
  <2>1. \A i \in 1..Len(a) : own[a[i]] = <<>>
    BY <1>2, <1>5
  <2> QED
    BY <1>1, <1>3, <2>1, SpreadNothing
<1> QED
  BY <1>4, <1>5

-----------------------------------------------------------------------------
(* The text of AGENTS.md                                                    *)

(* The lines of AGENTS.md, as the model has them.                           *)
TextLines == {"user", "start", "block", "end", "missing"}

(* The first of a set of places is one of them, or 0.                       *)
LEMMA FirstIs ==
  ASSUME NEW n \in Nat, NEW S \in SUBSET (1..n)
  PROVE  /\ S = {} => Setup!FirstOf(S) = 0
         /\ S # {} => Setup!FirstOf(S) \in S /\ \A i \in S : Setup!FirstOf(S) <= i
<1>1. Setup!FirstOf(S) = Installation!FirstOf(S)
  BY DEF Setup!FirstOf, Installation!FirstOf
<1> QED
  BY <1>1, LowestExists

(* The section that a merge writes.                                         *)
LEMMA BlockIs ==
  /\ Setup!Block \in Seq(TextLines) /\ Len(Setup!Block) = 3
  /\ Setup!Block[1] = "start" /\ Setup!Block[2] = "block" /\ Setup!Block[3] = "end"
BY DEF Setup!Block, TextLines

(* What a merge makes of a text: the block between what is before the first *)
(* start and what is behind its end.                                        *)
MergeOf(t, a, c) ==
  /\ a \in Seq(TextLines) /\ c \in Seq(TextLines)
  /\ \A i \in 1..Len(a) : a[i] # "start"
  /\ t = (a \o Setup!Block) \o c
  /\ Len(t) = (Len(a) + 3) + Len(c) /\ t \in Seq(TextLines)
  /\ t[Len(a) + 1] = "start" /\ t[Len(a) + 2] = "block" /\ t[Len(a) + 3] = "end"
  /\ \A i \in 1..Len(a) : t[i] = a[i]
  /\ \A i \in 1..Len(c) : t[(Len(a) + 3) + i] = c[i]

(* Put together from the three, it is one.                                  *)
LEMMA MergeIs ==
  ASSUME NEW a \in Seq(TextLines), NEW c \in Seq(TextLines), \A i \in 1..Len(a) : a[i] # "start"
  PROVE  MergeOf((a \o Setup!Block) \o c, a, c)
<1> DEFINE b == Setup!Block
           ab == a \o b
           t == ab \o c
<1>1. b \in Seq(TextLines) /\ Len(b) = 3 /\ b[1] = "start" /\ b[2] = "block" /\ b[3] = "end"
  BY BlockIs
<1> HIDE DEF b
<1>2. /\ ab \in Seq(TextLines) /\ Len(ab) = Len(a) + 3 /\ Len(a) \in Nat /\ Len(c) \in Nat
      /\ \A i \in 1 .. Len(a) + 3 : ab[i] = IF i <= Len(a) THEN a[i] ELSE b[i - Len(a)]
  <2>1. /\ a \o b \in Seq(TextLines) /\ Len(a \o b) = Len(a) + Len(b)
        /\ \A i \in 1 .. Len(a) + Len(b) : (a \o b)[i] = IF i <= Len(a) THEN a[i] ELSE b[i - Len(a)]
    BY <1>1, ConcatProperties
  <2>2. Len(a) \in Nat /\ Len(c) \in Nat
    OBVIOUS
  <2> QED
    BY <1>1, <2>1, <2>2
<1> HIDE DEF ab
<1>3. /\ t \in Seq(TextLines) /\ Len(t) = (Len(a) + 3) + Len(c)
      /\ \A i \in 1 .. (Len(a) + 3) + Len(c) : t[i] = IF i <= Len(a) + 3 THEN ab[i] ELSE c[i - (Len(a) + 3)]
  <2>1. /\ ab \o c \in Seq(TextLines) /\ Len(ab \o c) = Len(ab) + Len(c)
        /\ \A i \in 1 .. Len(ab) + Len(c) : (ab \o c)[i] = IF i <= Len(ab) THEN ab[i] ELSE c[i - Len(ab)]
    <3>1. ab \in Seq(TextLines) /\ c \in Seq(TextLines)
      BY <1>2
    <3> QED
      BY <3>1, ConcatProperties
  <2> QED
    BY <1>2, <2>1
<1> HIDE DEF t
<1> DEFINE n == Len(a)
           m == Len(c)
<1>4. n \in Nat /\ m \in Nat
  BY <1>2
<1>5. /\ t[n + 1] = "start" /\ t[n + 2] = "block" /\ t[n + 3] = "end"
      /\ \A i \in 1..n : t[i] = a[i]
  <2>1. \A i \in 1 .. n + 3 : t[i] = IF i <= n THEN a[i] ELSE b[i - n]
    <3>1. ASSUME NEW i \in 1 .. n + 3 PROVE i \in 1 .. (n + 3) + m /\ i <= n + 3
      BY <1>4
    <3> QED
      BY <1>2, <1>3, <3>1
  <2>2. /\ n + 1 \in 1 .. n + 3 /\ n + 2 \in 1 .. n + 3 /\ n + 3 \in 1 .. n + 3
        /\ ~(n + 1 <= n) /\ ~(n + 2 <= n) /\ ~(n + 3 <= n)
        /\ (n + 1) - n = 1 /\ (n + 2) - n = 2 /\ (n + 3) - n = 3
        /\ \A i \in 1..n : i \in 1 .. n + 3 /\ i <= n
    BY <1>4
  <2> HIDE DEF n
  <2> QED
    BY <1>1, <2>1, <2>2
<1>6. \A i \in 1..m : t[(n + 3) + i] = c[i]
  <2> SUFFICES ASSUME NEW i \in 1..m PROVE t[(n + 3) + i] = c[i]
    OBVIOUS
  <2>1. (n + 3) + i \in 1 .. (n + 3) + m /\ ~((n + 3) + i <= n + 3) /\ ((n + 3) + i) - (n + 3) = i
    BY <1>4
  <2> QED
    BY <1>3, <2>1
<1> QED
  BY <1>3, <1>5, <1>6 DEF MergeOf, t, ab, b

(* Merging into what a merge has made changes nothing.                      *)
LEMMA MergedAgain ==
  ASSUME NEW t, NEW a, NEW c, MergeOf(t, a, c)
  PROVE  Setup!Merged(t) = t
<1> DEFINE n == Len(a)
           m == Len(c)
           S == {i \in DOMAIN t : t[i] = "start"}
           start == Setup!FirstOf(S)
           F == {i \in start + 1..Len(t) : t[i] = "end"}
           end == Setup!FirstOf(F)
<1>1. /\ a \in Seq(TextLines) /\ c \in Seq(TextLines) /\ n \in Nat /\ m \in Nat
      /\ t \in Seq(TextLines) /\ Len(t) = (n + 3) + m /\ DOMAIN t = 1..Len(t)
      /\ t = (a \o Setup!Block) \o c
  BY DEF MergeOf
<1>2. /\ t[n + 1] = "start" /\ t[n + 2] = "block" /\ t[n + 3] = "end"
      /\ \A i \in 1..n : t[i] = a[i] /\ a[i] # "start"
      /\ \A i \in 1..m : t[(n + 3) + i] = c[i]
  BY DEF MergeOf
<1> HIDE DEF n, m
<1>3. start = n + 1
  <2>1. S \in SUBSET (1..Len(t)) /\ n + 1 \in S /\ Len(t) \in Nat
    BY <1>1, <1>2
  <2>2. \A i \in S : i >= n + 1
    <3> SUFFICES ASSUME NEW i \in S PROVE i >= n + 1
      OBVIOUS
    <3>1. i \in 1..Len(t) /\ t[i] = "start"
      BY <1>1
    <3>2. ~(i \in 1..n)
      BY <1>2, <3>1
    <3> QED
      BY <1>1, <3>1, <3>2
  <2>3. start \in S /\ \A i \in S : start <= i
    <3> HIDE DEF S
    <3> QED
      BY <2>1, FirstIs
  <2>4. start \in Nat /\ start <= n + 1 /\ start >= n + 1
    <3> HIDE DEF S, start
    <3> QED
      BY <1>1, <2>1, <2>2, <2>3
  <2> HIDE DEF start
  <2> QED
    BY <1>1, <2>4
<1> HIDE DEF start, S
<1>4. end = n + 3
  <2>0. start + 1 = n + 2 /\ n + 3 \in n + 2..Len(t) /\ n + 2..Len(t) \subseteq 1..Len(t)
    BY <1>1, <1>3
  <2>1. F \in SUBSET (1..Len(t)) /\ n + 3 \in F /\ Len(t) \in Nat
    BY SMTT(30), <1>1, <1>2, <2>0
  <2>2. \A i \in F : i >= n + 3
    <3> SUFFICES ASSUME NEW i \in F PROVE i >= n + 3
      OBVIOUS
    <3>1. i \in n + 2..Len(t) /\ t[i] = "end"
      BY <1>1, <1>3
    <3> QED
      BY <1>1, <1>2, <3>1
  <2>3. end \in F /\ \A i \in F : end <= i
    <3> HIDE DEF F
    <3> QED
      BY <2>1, FirstIs
  <2>4. end \in Nat /\ end <= n + 3 /\ end >= n + 3
    <3> HIDE DEF F, end
    <3> QED
      BY <1>1, <2>1, <2>2, <2>3
  <2> HIDE DEF F, end
  <2>5. n \in Nat
    BY <1>1
  <2> QED
    BY <2>4, <2>5
<1>5. t # Setup!Missing
  <2> HIDE DEF end, F
  <2>1. Len(Setup!Missing) = 1
    BY DEF Setup!Missing
  <2>2. Len(t) # 1
    BY <1>1
  <2> QED
    BY <2>1, <2>2
<1>6. Setup!Merged(t) = (SubSeq(t, 1, n) \o Setup!Block) \o SubSeq(t, n + 4, Len(t))
  <2>1. Setup!Merged(t) = IF t = Setup!Missing THEN Setup!Block
                          ELSE IF start = 0 THEN t \o Setup!Block
                          ELSE SubSeq(t, 1, start - 1) \o Setup!Block
                               \o (IF end = 0 THEN <<>> ELSE SubSeq(t, end + 1, Len(t)))
    BY DEF Setup!Merged, start, S
  <2>2. start # 0 /\ end # 0 /\ start - 1 = n /\ end + 1 = n + 4
    <3> HIDE DEF end, F
    <3> QED
      BY <1>1, <1>3, <1>4
  <2> HIDE DEF end, F
  <2> QED
    BY <1>5, <2>1, <2>2
<1>7. SubSeq(t, 1, n) = a
  <2>1. /\ SubSeq(t, 1, n) \in Seq(TextLines) /\ Len(SubSeq(t, 1, n)) = n
        /\ \A i \in 1..n : SubSeq(t, 1, n)[i] = t[i]
    <3>1. n <= Len(t) /\ Len(t) \in Nat /\ n \in Nat /\ \A i \in 1..n : t[i] \in TextLines
      BY <1>1
    <3> QED
      BY <3>1
  <2>2. Len(a) = n
    BY DEF n
  <2> QED
    BY <1>1, <1>2, <2>1, <2>2, SeqEqual
<1>8. SubSeq(t, n + 4, Len(t)) = c
  <2> DEFINE u == SubSeq(t, n + 4, Len(t))
  <2>1. /\ u \in Seq(TextLines) /\ Len(u) = m
        /\ \A i \in 1..m : u[i] = t[(n + 3) + i]
    <3>1. Len(t) \in Nat /\ n + 4 \in Nat /\ n + 4 <= Len(t) + 1 /\ \A i \in n + 4..Len(t) : t[i] \in TextLines
      BY <1>1
    <3>2. /\ u \in Seq(TextLines)
          /\ Len(u) = IF n + 4 <= Len(t) THEN (Len(t) - (n + 4)) + 1 ELSE 0
          /\ \A i \in 1 .. (Len(t) - (n + 4)) + 1 : u[i] = t[((n + 4) + i) - 1]
      BY <3>1, SubSeqProperties
    <3> HIDE DEF u
    <3>3. (Len(t) - (n + 4)) + 1 = m
      BY <1>1
    <3>4. Len(u) = m
      BY <1>1, <3>2
    <3>5. \A i \in 1..m : ((n + 4) + i) - 1 = (n + 3) + i
      BY <1>1
    <3> QED
      BY <3>2, <3>3, <3>4, <3>5
  <2>2. Len(c) = m
    BY DEF m
  <2> HIDE DEF u
  <2>3. u = c
    <3>1. Len(u) = Len(c) /\ u \in Seq(TextLines) /\ c \in Seq(TextLines)
      BY <1>1, <2>1, <2>2
    <3>2. \A i \in 1..Len(u) : u[i] = c[i]
      BY <1>2, <2>1
    <3> QED
      BY <3>1, <3>2, SeqEqual
  <2> QED
    BY <2>3 DEF u
<1> QED
  BY <1>1, <1>6, <1>7, <1>8

(* The user's lines of two texts.                                           *)
LEMMA UserTextOfBoth ==
  ASSUME NEW a \in Seq(TextLines), NEW b \in Seq(TextLines)
  PROVE  /\ a \o b \in Seq(TextLines)
         /\ Setup!UserText(a) \in Seq(TextLines \cap {"user"})
         /\ Setup!UserText(a \o b) = Setup!UserText(a) \o Setup!UserText(b)
<1> DEFINE S == {"user"}
<1>1. \A x : Setup!UserText(x) = Setup!Only(x, S)
  BY DEF Setup!UserText
<1> HIDE DEF S
<1>2. OnlyAdds(TextLines, S, a, b)
  BY OnlyOfBoth
<1> QED
  BY <1>1, <1>2 DEF OnlyAdds, S

(* The user's lines of a text with a section are those around it.           *)
LEMMA UserTextOfMerge ==
  ASSUME NEW a \in Seq(TextLines), NEW c \in Seq(TextLines)
  PROVE  Setup!UserText((a \o Setup!Block) \o c) = Setup!UserText(a) \o Setup!UserText(c)
<1> DEFINE b == Setup!Block
           ab == a \o b
           U == TextLines \cap {"user"}
<1>1. b \in Seq(TextLines) /\ Len(b) = 3 /\ b[1] = "start" /\ b[2] = "block" /\ b[3] = "end"
  BY BlockIs
<1> HIDE DEF b
<1>2. Setup!UserText(b) = <<>>
  <2>1. \A i \in 1..Len(b) : b[i] \notin {"user"}
    BY <1>1
  <2>2. Setup!Only(b, {"user"}) = <<>>
    BY <1>1, <2>1, OnlyKeepsAll
  <2> QED
    BY <2>2 DEF Setup!UserText
<1>3. /\ a \o b \in Seq(TextLines) /\ Setup!UserText(a) \in Seq(U)
      /\ Setup!UserText(a \o b) = Setup!UserText(a) \o Setup!UserText(b)
  BY <1>1, UserTextOfBoth
<1>4. Setup!UserText(a) \o <<>> = Setup!UserText(a)
  BY <1>3, ConcatEmptySeq
<1>5. ab \in Seq(TextLines) /\ Setup!UserText(ab) = Setup!UserText(a)
  BY <1>2, <1>3, <1>4
<1> HIDE DEF ab
<1>6. Setup!UserText(ab \o c) = Setup!UserText(ab) \o Setup!UserText(c)
  BY <1>5, UserTextOfBoth
<1> QED
  BY <1>5, <1>6 DEF ab, b

(* A merge makes such a text of every text, and of one with proper markers  *)
(* one with the same lines of the user.                                     *)
LEMMA MergedIs ==
  ASSUME NEW t \in Seq(TextLines)
  PROVE  /\ \E a, c : MergeOf(Setup!Merged(t), a, c)
         /\ Setup!WellMarked(t) => Setup!UserText(Setup!Merged(t)) = Setup!UserText(t)
<1> DEFINE S == {i \in DOMAIN t : t[i] = "start"}
           start == Setup!FirstOf(S)
           F == {i \in start + 1..Len(t) : t[i] = "end"}
           end == Setup!FirstOf(F)
           b == Setup!Block
<1>1. Len(t) \in Nat /\ DOMAIN t = 1..Len(t) /\ \A i \in 1..Len(t) : t[i] \in TextLines
  OBVIOUS
<1>2. /\ start = 0 => \A i \in 1..Len(t) : t[i] # "start"
      /\ start # 0 => start \in 1..Len(t) /\ t[start] = "start"
      /\ start # 0 => \A i \in 1..Len(t) : t[i] = "start" => start <= i
  <2>1. S \in SUBSET (1..Len(t)) /\ \A i \in 1..Len(t) : i \in S <=> t[i] = "start"
    OBVIOUS
  <2>2. (S = {} => start = 0) /\ (S # {} => start \in S /\ \A i \in S : start <= i)
    <3> HIDE DEF S
    <3> QED
      BY <1>1, <2>1, FirstIs
  <2> HIDE DEF S, start
  <2>3. S # {} => start \in 1..Len(t) /\ start # 0
    <3>1. S # {} => start \in S
      BY <2>2
    <3>2. \A i \in S : i \in 1..Len(t) /\ i # 0
      BY <1>1, <2>1
    <3> QED
      BY <3>1, <3>2
  <2> QED
    BY <1>1, <2>1, <2>2, <2>3
<1>3. Setup!Merged(t) = IF t = Setup!Missing THEN b
                        ELSE IF start = 0 THEN t \o b
                        ELSE (SubSeq(t, 1, start - 1) \o b) \o (IF end = 0 THEN <<>> ELSE SubSeq(t, end + 1, Len(t)))
  BY DEF Setup!Merged
<1> HIDE DEF start, S
<1>4. start # 0 =>
      /\ end = 0 => \A i \in start + 1..Len(t) : t[i] # "end"
      /\ end # 0 => end \in start + 1..Len(t) /\ t[end] = "end"
      /\ end # 0 => \A i \in start + 1..Len(t) : t[i] = "end" => end <= i
  <2> HAVE start # 0
  <2>1. F \in SUBSET (1..Len(t)) /\ \A i \in start + 1..Len(t) : i \in F <=> t[i] = "end"
    BY <1>1, <1>2
  <2>2. (F = {} => end = 0) /\ (F # {} => end \in F /\ \A i \in F : end <= i)
    <3> HIDE DEF F
    <3> QED
      BY <1>1, <2>1, FirstIs
  <2>3. F \subseteq start + 1..Len(t)
    OBVIOUS
  <2> HIDE DEF F, end
  <2>4. F # {} => end \in start + 1..Len(t) /\ end # 0
    <3>1. F # {} => end \in F
      BY <2>2
    <3>2. \A i \in F : i \in start + 1..Len(t) /\ i # 0
      BY <1>1, <1>2, <2>3
    <3> QED
      BY <3>1, <3>2
  <2> QED
    BY <1>1, <2>1, <2>2, <2>3, <2>4
<1> HIDE DEF end, F, b
<1>5. b \in Seq(TextLines) /\ <<>> \in Seq(TextLines) /\ Len(<<>>) = 0
  BY BlockIs DEF b
<1>6. CASE t = Setup!Missing
  <2>1. Setup!Merged(t) = b
    BY <1>3, <1>6
  <2>2. (<<>> \o b) \o <<>> = b
    BY <1>5, ConcatEmptySeq
  <2>3. MergeOf((<<>> \o b) \o <<>>, <<>>, <<>>)
    <3>1. \A i \in 1..Len(<<>>) : <<>>[i] # "start"
      BY <1>5
    <3> QED
      BY <1>5, <3>1, MergeIs DEF b
  <2>4. Setup!UserText(b) = <<>> /\ Setup!UserText(t) = <<>>
    <3>1. \A i \in 1..Len(b) : b[i] \notin {"user"}
      BY BlockIs DEF b
    <3>2. \A i \in 1..Len(t) : t[i] \notin {"user"}
      BY <1>6 DEF Setup!Missing
    <3>3. Setup!Only(b, {"user"}) = <<>>
      BY <1>5, <3>1, OnlyKeepsAll
    <3>4. Setup!Only(t, {"user"}) = <<>>
      BY <3>2, OnlyKeepsAll
    <3> QED
      BY <3>3, <3>4 DEF Setup!UserText
  <2> QED
    BY <2>1, <2>2, <2>3, <2>4
<1>7. CASE t # Setup!Missing /\ start = 0
  <2>1. Setup!Merged(t) = t \o b
    BY <1>3, <1>7
  <2>2. t \o b \in Seq(TextLines)
    BY <1>5, ConcatProperties
  <2>3. (t \o b) \o <<>> = t \o b
    BY <2>2, ConcatEmptySeq
  <2>4. MergeOf((t \o b) \o <<>>, t, <<>>)
    BY <1>2, <1>5, <1>7, MergeIs DEF b
  <2>5. Setup!UserText((t \o b) \o <<>>) = Setup!UserText(t) \o Setup!UserText(<<>>)
    BY <1>5, UserTextOfMerge DEF b
  <2>6. Setup!UserText(<<>>) = <<>> /\ Setup!UserText(t) \in Seq(TextLines \cap {"user"})
    <3>1. \A i \in 1..Len(<<>>) : <<>>[i] \notin {"user"}
      OBVIOUS
    <3>2. Setup!Only(<<>>, {"user"}) = <<>>
      BY <1>5, <3>1, OnlyKeepsAll
    <3>3. Setup!Only(t, {"user"}) \in Seq(TextLines \cap {"user"})
      BY OnlyOfBoth DEF OnlyAdds
    <3> QED
      BY <3>2, <3>3 DEF Setup!UserText
  <2>7. Setup!UserText(t) \o <<>> = Setup!UserText(t)
    BY <2>6, ConcatEmptySeq
  <2> QED
    BY <2>1, <2>3, <2>4, <2>5, <2>6, <2>7
<1>8. CASE t # Setup!Missing /\ start # 0
  <2> DEFINE a == SubSeq(t, 1, start - 1)
             c == IF end = 0 THEN <<>> ELSE SubSeq(t, end + 1, Len(t))
  <2>1. start \in 1..Len(t)
    BY <1>2, <1>8
  <2>2. a \in Seq(TextLines) /\ Len(a) = start - 1 /\ \A i \in 1 .. start - 1 : a[i] = t[i]
    BY <1>1, <2>1
  <2>3. c \in Seq(TextLines)
    <3>1. CASE end = 0
      BY <3>1
    <3>2. CASE end # 0
      <4>1. end \in 1..Len(t)
        BY <1>1, <1>4, <1>8, <2>1, <3>2
      <4>2. SubSeq(t, end + 1, Len(t)) \in Seq(TextLines)
        BY <1>1, <4>1
      <4> QED
        BY <3>2, <4>2
    <3> QED
      BY <3>1, <3>2
  <2>4. Setup!Merged(t) = (a \o b) \o c
    BY <1>3, <1>8
  <2>5. \A i \in 1..Len(a) : a[i] # "start"
    <3> SUFFICES ASSUME NEW i \in 1 .. start - 1 PROVE t[i] # "start"
      BY <2>2
    <3> QED
      BY <1>1, <1>2, <1>8, <2>1
  <2> HIDE DEF a, c
  <2>6. MergeOf((a \o b) \o c, a, c)
    BY <2>2, <2>3, <2>5, MergeIs DEF b
  <2>7. ASSUME Setup!WellMarked(t) PROVE Setup!Merged(t) = t
    <3>1. start + 2 <= Len(t) /\ SubSeq(t, start, start + 2) = b
      BY <1>1, <1>2, <1>8, <2>1, <2>7 DEF Setup!WellMarked, b
    <3>2. /\ start + 2 \in start..Len(t)
          /\ \A k \in 1..3 : SubSeq(t, start, start + 2)[k] = t[(start - 1) + k]
      BY <1>1, <2>1, <3>1
    <3>3. t[start + 1] = "block" /\ t[start + 2] = "end"
      <4>1. (start - 1) + 2 = start + 1 /\ (start - 1) + 3 = start + 2
        BY <1>1, <2>1
      <4>2. b[2] = "block" /\ b[3] = "end"
        BY BlockIs DEF b
      <4>3. b[2] = t[(start - 1) + 2] /\ b[3] = t[(start - 1) + 3]
        <5>1. 2 \in 1..3 /\ 3 \in 1..3
          OBVIOUS
        <5> DEFINE x == SubSeq(t, start, start + 2)
        <5>2. x = b /\ x[2] = t[(start - 1) + 2] /\ x[3] = t[(start - 1) + 3]
          BY <3>1, <3>2, <5>1
        <5> HIDE DEF x
        <5> QED
          BY <5>2
      <4> QED
        BY <4>1, <4>2, <4>3
    <3>4. end = start + 2
      <4>1. start + 2 \in start + 1..Len(t)
        BY <1>1, <2>1, <3>1
      <4>2. end # 0 /\ end \in start + 1..Len(t) /\ t[end] = "end" /\ end <= start + 2
        BY <1>4, <1>8, <3>3, <4>1
      <4> QED
        BY <1>1, <2>1, <3>3, <4>2
    <3>5. end # 0 /\ end + 1 = (start + 2) + 1
      BY <1>1, <2>1, <3>4
    <3>6. c = SubSeq(t, (start + 2) + 1, Len(t))
      BY <3>5 DEF c
    <3>7. t = (a \o SubSeq(t, start, start + 2)) \o c
      <4>1. InThree(TextLines, t, start, start + 2, SubSeq(t, 1, start - 1), SubSeq(t, start, start + 2),
                    SubSeq(t, (start + 2) + 1, Len(t)))
        BY <2>1, <3>2, ThreeParts
      <4> QED
        BY <3>6, <4>1 DEF InThree, a
    <3> QED
      BY <2>4, <3>1, <3>7
  <2> QED
    BY <2>4, <2>6, <2>7
<1> QED
  BY <1>6, <1>7, <1>8

-----------------------------------------------------------------------------
(* The settings of an agent                                                 *)

(* The entries of a group, ours and others.                                 *)
EntryKinds == {"managed", "other"}
(* A group that a sweep leaves as it is.                                    *)
Clean(g) == g.parsed => g.entries # <<>> /\ g.entries \in Seq({"other"})
(* Such groups; what a group gives to the entries of the settings, and what *)
(* it gives to a sweep.                                                     *)
CleanGroups == {g \in Setup!GroupLike : Clean(g)}
OpenedOf == [g \in Setup!GroupLike |-> IF g.parsed THEN g.entries ELSE <<>>]
RestOf == [g \in Setup!GroupLike |-> Setup!Rest(g)]

(* A group is a record, and stays one when its entries change.              *)
LEMMA GroupIs ==
  ASSUME NEW g \in Setup!GroupLike
  PROVE  /\ g.parsed \in BOOLEAN /\ g.entries \in Seq(EntryKinds) /\ g.matcher \in {Setup!Canonical, "startup"}
         /\ \A e \in Seq(EntryKinds) :
              /\ [g EXCEPT !.entries = e] \in Setup!GroupLike
              /\ [g EXCEPT !.entries = e].entries = e
              /\ [g EXCEPT !.entries = e].parsed = g.parsed
              /\ [g EXCEPT !.entries = e].matcher = g.matcher
         /\ [g EXCEPT !.entries = g.entries] = g
         /\ \A e, f \in Seq(EntryKinds) : [[g EXCEPT !.entries = e] EXCEPT !.entries = f] = [g EXCEPT !.entries = f]
<1>1. g \in [matcher : {Setup!Canonical, "startup"}, parsed : BOOLEAN, entries : Seq(EntryKinds)]
  BY DEF Setup!GroupLike, EntryKinds
<1>2. /\ g.parsed \in BOOLEAN /\ g.entries \in Seq(EntryKinds) /\ g.matcher \in {Setup!Canonical, "startup"}
      /\ g = [matcher |-> g.matcher, parsed |-> g.parsed, entries |-> g.entries]
  BY <1>1
<1>3. \A e \in Seq(EntryKinds) : [g EXCEPT !.entries = e] = [matcher |-> g.matcher, parsed |-> g.parsed, entries |-> e]
  BY <1>1
<1>4. \A e \in Seq(EntryKinds) :
        [matcher |-> g.matcher, parsed |-> g.parsed, entries |-> e] \in Setup!GroupLike
  BY <1>2 DEF Setup!GroupLike, EntryKinds
<1>5. \A e, f \in Seq(EntryKinds) : [[g EXCEPT !.entries = e] EXCEPT !.entries = f] = [g EXCEPT !.entries = f]
  BY <1>1
<1>6. [g EXCEPT !.entries = g.entries] = g
  BY <1>1
<1> QED
  BY <1>2, <1>3, <1>4, <1>5, <1>6

(* What isManagedEntry leaves of a list.                                    *)
LEMMA OthersAre ==
  ASSUME NEW e \in Seq(EntryKinds)
  PROVE  /\ Setup!Others(e) \in Seq({"other"}) /\ Setup!Others(e) \in Seq(EntryKinds)
         /\ e \in Seq({"other"}) => Setup!Others(e) = e /\ Setup!Only(e, {"managed"}) = <<>>
<1> DEFINE S == {"other"}
<1>1. OnlyAdds(EntryKinds, S, e, e)
  BY OnlyOfBoth
<1>2. EntryKinds \cap S = {"other"}
  BY DEF EntryKinds
<1>3. Setup!Others(e) \in Seq({"other"})
  BY <1>1, <1>2 DEF OnlyAdds, Setup!Others
<1>4. \A x \in Seq({"other"}) : x \in Seq(EntryKinds)
  BY DEF EntryKinds
<1>5. ASSUME e \in Seq({"other"}) PROVE Setup!Others(e) = e /\ Setup!Only(e, {"managed"}) = <<>>
  <2>1. \A i \in 1..Len(e) : e[i] = "other"
    BY <1>5
  <2>2. Setup!Only(e, {"other"}) = e
    BY <2>1, OnlyKeepsAll
  <2>3. Setup!Only(e, {"managed"}) = <<>>
    <3>1. \A i \in 1..Len(e) : e[i] \notin {"managed"}
      BY <2>1
    <3> QED
      BY <3>1, OnlyKeepsAll
  <2> QED
    BY <2>2, <2>3 DEF Setup!Others
<1> QED
  BY <1>3, <1>4, <1>5

(* The entries of two lists, chosen apart.                                  *)
LEMMA OthersOfBoth ==
  ASSUME NEW a \in Seq(EntryKinds), NEW b \in Seq(EntryKinds)
  PROVE  /\ a \o b \in Seq(EntryKinds)
         /\ Setup!Others(a \o b) = Setup!Others(a) \o Setup!Others(b)
         /\ Setup!Only(a \o b, {"managed"}) = Setup!Only(a, {"managed"}) \o Setup!Only(b, {"managed"})
<1> DEFINE S == {"other"}
           T == {"managed"}
<1>1. \A x : Setup!Others(x) = Setup!Only(x, S)
  BY DEF Setup!Others
<1> HIDE DEF S, T
<1>2. OnlyAdds(EntryKinds, S, a, b) /\ OnlyAdds(EntryKinds, T, a, b)
  BY OnlyOfBoth
<1> QED
  BY <1>1, <1>2 DEF OnlyAdds, T

(* A managed entry is no other.                                             *)
LEMMA ManagedIs ==
  /\ <<"managed">> \in Seq(EntryKinds)
  /\ Setup!Others(<<"managed">>) = <<>>
  /\ Setup!Only(<<"managed">>, {"managed"}) = <<"managed">>
<1> DEFINE m == <<"managed">>
<1>1. m \in Seq(EntryKinds) /\ Len(m) = 1 /\ m[1] = "managed"
  BY DEF EntryKinds
<1> HIDE DEF m
<1>2. Setup!Only(m, {"other"}) = <<>>
  <2>1. \A i \in 1..Len(m) : m[i] \notin {"other"}
    BY <1>1
  <2> QED
    BY <1>1, <2>1, OnlyKeepsAll
<1>3. Setup!Only(m, {"managed"}) = m
  <2>1. \A i \in 1..Len(m) : m[i] \in {"managed"}
    BY <1>1
  <2> QED
    BY <1>1, <2>1, OnlyKeepsAll
<1> QED
  BY <1>1, <1>2, <1>3 DEF Setup!Others, m

(* The entries of settings are spread over their groups.                    *)
LEMMA EntriesAre ==
  /\ OpenedOf \in [Setup!GroupLike -> Seq(EntryKinds)]
  /\ \A s \in Seq(Setup!GroupLike) : Setup!Entries(s) = Spread(s, OpenedOf)
<1>1. ASSUME NEW g \in Setup!GroupLike PROVE (IF g.parsed THEN g.entries ELSE <<>>) \in Seq(EntryKinds)
  <2>1. g.entries \in Seq(EntryKinds)
    BY GroupIs
  <2>2. <<>> \in Seq(EntryKinds)
    OBVIOUS
  <2> QED
    BY <2>1, <2>2
<1>2. ASSUME NEW s \in Seq(Setup!GroupLike) PROVE Setup!Entries(s) = Spread(s, OpenedOf)
  <2> DEFINE a == [i \in DOMAIN s |-> IF s[i].parsed THEN s[i].entries ELSE <<>>]
             b == [i \in DOMAIN s |-> OpenedOf[s[i]]]
  <2>1. \A i \in DOMAIN s : s[i] \in Setup!GroupLike
    OBVIOUS
  <2>2. \A i \in DOMAIN s : OpenedOf[s[i]] = IF s[i].parsed THEN s[i].entries ELSE <<>>
    BY <2>1 DEF OpenedOf
  <2>3. a = b
    BY <2>2
  <2>4. Setup!Entries(s) = Together(a) /\ Spread(s, OpenedOf) = Together(b)
    BY DEF Setup!Entries, Setup!Joined, Together, Spread
  <2> HIDE DEF a, b
  <2> QED
    BY <2>3, <2>4
<1> QED
  BY <1>1, <1>2 DEF OpenedOf

(* The entries of two settings.                                             *)
EntriesAdd(a, b) ==
  /\ Setup!Entries(a) \in Seq(EntryKinds)
  /\ Setup!Entries(a \o b) = Setup!Entries(a) \o Setup!Entries(b)
LEMMA EntriesOfBoth ==
  ASSUME NEW a \in Seq(Setup!GroupLike), NEW b \in Seq(Setup!GroupLike)
  PROVE  EntriesAdd(a, b)
<1> DEFINE G == Setup!GroupLike
<1>1. OpenedOf \in [G -> Seq(EntryKinds)] /\ a \o b \in Seq(G)
  BY EntriesAre
<1>2. \A s \in Seq(G) : Setup!Entries(s) = Spread(s, OpenedOf)
  BY EntriesAre
<1> HIDE DEF G
<1>3. a \in Seq(G) /\ b \in Seq(G)
  BY DEF G
<1>4. Spread(a \o b, OpenedOf) = Spread(a, OpenedOf) \o Spread(b, OpenedOf)
  BY <1>1, <1>3, SpreadOver
<1>5. Spread(a, OpenedOf) \in Seq(EntryKinds)
  BY <1>1, <1>3, SpreadGrows
<1> QED
  BY <1>1, <1>2, <1>3, <1>4, <1>5 DEF EntriesAdd

(* The entries of one group.                                                *)
LEMMA EntriesOfOne ==
  ASSUME NEW g \in Setup!GroupLike
  PROVE  /\ Setup!Entries(<<g>>) = (IF g.parsed THEN g.entries ELSE <<>>)
         /\ Setup!Entries(<<>>) = <<>>
<1>1. OpenedOf \in [Setup!GroupLike -> Seq(EntryKinds)]
  BY EntriesAre
<1>2. <<g>> \in Seq(Setup!GroupLike) /\ <<>> \in Seq(Setup!GroupLike)
  OBVIOUS
<1>3. Spread(<<g>>, OpenedOf) = OpenedOf[g]
  BY <1>1, SpreadOne
<1>4. Spread(<<>>, OpenedOf) = <<>>
  BY <1>1, SpreadGrows
<1>5. OpenedOf[g] = IF g.parsed THEN g.entries ELSE <<>>
  BY DEF OpenedOf
<1>6. Setup!Entries(<<g>>) = Spread(<<g>>, OpenedOf) /\ Setup!Entries(<<>>) = Spread(<<>>, OpenedOf)
  BY <1>2, EntriesAre
<1> QED
  BY <1>3, <1>4, <1>5, <1>6

(* What a sweep leaves of a group.                                          *)
LEMMA RestIs ==
  ASSUME NEW g \in Setup!GroupLike
  PROVE  /\ Setup!Rest(g) \in Seq(CleanGroups) /\ Setup!Rest(g) \in Seq(Setup!GroupLike)
         /\ Clean(g) => Setup!Rest(g) = <<g>>
         /\ Setup!Others(Setup!Entries(Setup!Rest(g))) = Setup!Others(Setup!Entries(<<g>>))
<1> DEFINE e == g.entries
           o == Setup!Others(e)
           h == [g EXCEPT !.entries = o]
<1>1. g.parsed \in BOOLEAN /\ e \in Seq(EntryKinds)
  BY GroupIs
<1>2. o \in Seq({"other"}) /\ o \in Seq(EntryKinds) /\ Setup!Others(o) = o /\ (e \in Seq({"other"}) => o = e)
  BY <1>1, OthersAre
<1>3. Setup!Rest(g) = IF ~g.parsed THEN <<g>> ELSE IF o = <<>> THEN <<>> ELSE <<h>>
  BY DEF Setup!Rest
<1>4. Setup!Others(<<>>) = <<>>
  <2>1. <<>> \in Seq({"other"}) /\ <<>> \in Seq(EntryKinds)
    OBVIOUS
  <2> QED
    BY <2>1, OthersAre
<1>5. /\ Setup!Entries(<<g>>) = IF g.parsed THEN e ELSE <<>>
      /\ Setup!Entries(<<>>) = <<>>
  BY EntriesOfOne
<1> HIDE DEF o
<1>6. h \in Setup!GroupLike /\ h.entries = o /\ h.parsed = g.parsed
  BY <1>2, GroupIs
<1>7. e = o => h = g
  BY GroupIs
<1> HIDE DEF h
<1>8. CASE ~g.parsed
  <2>1. Clean(g) /\ g \in CleanGroups
    BY <1>8 DEF Clean, CleanGroups
  <2> QED
    BY <1>3, <1>8, <2>1
<1>9. CASE g.parsed /\ o = <<>>
  <2>1. Setup!Rest(g) = <<>> /\ Setup!Entries(<<g>>) = e
    BY <1>3, <1>5, <1>9
  <2>2. ~Clean(g)
    BY <1>2, <1>9 DEF Clean
  <2> QED
    BY <1>4, <1>5, <1>9, <2>1, <2>2 DEF o
<1>10. CASE g.parsed /\ o # <<>>
  <2>1. Setup!Rest(g) = <<h>> /\ Setup!Entries(<<g>>) = e
    BY <1>3, <1>5, <1>10
  <2>2. h \in CleanGroups
    BY <1>2, <1>6, <1>10 DEF Clean, CleanGroups
  <2>3. Setup!Entries(<<h>>) = h.entries
    BY <1>6, <1>10, EntriesOfOne
  <2>4. Clean(g) => h = g
    BY <1>2, <1>7, <1>10 DEF Clean
  <2>5. Setup!Others(Setup!Entries(Setup!Rest(g))) = Setup!Others(Setup!Entries(<<g>>))
    BY <1>2, <1>6, <2>1, <2>3 DEF o
  <2> QED
    BY <1>6, <2>1, <2>2, <2>4, <2>5
<1> QED
  BY <1>1, <1>8, <1>9, <1>10

(* A sweep is spread over the groups.                                       *)
LEMMA SweptAre ==
  /\ RestOf \in [Setup!GroupLike -> Seq(CleanGroups)]
  /\ \A s \in Seq(Setup!GroupLike) : Setup!Swept(s) = Spread(s, RestOf)
<1>1. \A g \in Setup!GroupLike : Setup!Rest(g) \in Seq(CleanGroups)
  BY RestIs
<1>2. ASSUME NEW s \in Seq(Setup!GroupLike) PROVE Setup!Swept(s) = Spread(s, RestOf)
  <2> DEFINE a == [i \in DOMAIN s |-> Setup!Rest(s[i])]
             b == [i \in DOMAIN s |-> RestOf[s[i]]]
  <2>1. \A i \in DOMAIN s : s[i] \in Setup!GroupLike
    OBVIOUS
  <2>2. \A i \in DOMAIN s : RestOf[s[i]] = Setup!Rest(s[i])
    BY <2>1 DEF RestOf
  <2>3. a = b
    BY <2>2
  <2>4. Setup!Swept(s) = Together(a) /\ Spread(s, RestOf) = Together(b)
    BY DEF Setup!Swept, Setup!Joined, Together, Spread
  <2> HIDE DEF a, b
  <2> QED
    BY <2>3, <2>4
<1> QED
  BY <1>1, <1>2 DEF RestOf

(* A sweep of two settings.                                                 *)
SweepAdds(a, b) == Setup!Swept(a \o b) = Setup!Swept(a) \o Setup!Swept(b)
LEMMA SweptOfBoth ==
  ASSUME NEW a \in Seq(Setup!GroupLike), NEW b \in Seq(Setup!GroupLike)
  PROVE  SweepAdds(a, b)
<1> DEFINE G == Setup!GroupLike
           C == CleanGroups
<1>1. RestOf \in [G -> Seq(C)] /\ a \o b \in Seq(G)
  BY SweptAre
<1>2. \A s \in Seq(G) : Setup!Swept(s) = Spread(s, RestOf)
  BY SweptAre
<1> HIDE DEF G, C
<1>3. a \in Seq(G) /\ b \in Seq(G)
  BY DEF G
<1>4. Spread(a \o b, RestOf) = Spread(a, RestOf) \o Spread(b, RestOf)
  BY <1>1, <1>3, SpreadOver
<1> QED
  BY <1>1, <1>2, <1>3, <1>4 DEF SweepAdds

(* A sweep of one group.                                                    *)
LEMMA SweptOfOne ==
  ASSUME NEW g \in Setup!GroupLike
  PROVE  Setup!Swept(<<g>>) = Setup!Rest(g)
<1>1. RestOf \in [Setup!GroupLike -> Seq(CleanGroups)]
  BY SweptAre
<1>2. <<g>> \in Seq(Setup!GroupLike)
  OBVIOUS
<1>3. Spread(<<g>>, RestOf) = RestOf[g]
  BY <1>1, SpreadOne
<1>4. RestOf[g] = Setup!Rest(g)
  BY DEF RestOf
<1>5. Setup!Swept(<<g>>) = Spread(<<g>>, RestOf)
  BY <1>2, SweptAre
<1> QED
  BY <1>3, <1>4, <1>5

(* A sweep leaves clean groups as they are and makes all clean, and keeps   *)
(* the entries of others.                                                   *)
LEMMA CleanStay ==
  ASSUME NEW s \in Seq(CleanGroups)
  PROVE  /\ s \in Seq(Setup!GroupLike) /\ Setup!Swept(s) = s
         /\ Setup!Entries(s) \in Seq({"other"})
<1>1. s \in Seq(Setup!GroupLike) /\ \A i \in 1..Len(s) : s[i] \in Setup!GroupLike /\ Clean(s[i])
  BY DEF CleanGroups
<1>2. RestOf \in [Setup!GroupLike -> Seq(CleanGroups)] /\ Setup!Swept(s) = Spread(s, RestOf)
  BY <1>1, SweptAre
<1>3. \A i \in 1..Len(s) : RestOf[s[i]] = <<s[i]>>
  BY <1>1, RestIs DEF RestOf
<1>4. Spread(s, RestOf) = s
  <2>1. RestOf \in [Setup!GroupLike -> Seq(CleanGroups)] /\ s \in Seq(Setup!GroupLike)
    BY <1>1, <1>2
  <2> QED
    BY ONLY <1>3, <2>1, SpreadSelf
<1> DEFINE own == [g \in CleanGroups |-> IF g.parsed THEN g.entries ELSE <<>>]
<1>5. own \in [CleanGroups -> Seq({"other"})]
  <2>1. ASSUME NEW g \in CleanGroups PROVE (IF g.parsed THEN g.entries ELSE <<>>) \in Seq({"other"})
    <3>1. g.parsed => g.entries \in Seq({"other"})
      BY DEF CleanGroups, Clean
    <3>2. <<>> \in Seq({"other"})
      OBVIOUS
    <3> QED
      BY <3>1, <3>2
  <2> QED
    BY <2>1
<1>6. Setup!Entries(s) = Spread(s, own)
  <2> DEFINE a == [i \in DOMAIN s |-> IF s[i].parsed THEN s[i].entries ELSE <<>>]
             b == [i \in DOMAIN s |-> own[s[i]]]
  <2>1. \A i \in DOMAIN s : s[i] \in CleanGroups
    OBVIOUS
  <2>2. \A i \in DOMAIN s : own[s[i]] = IF s[i].parsed THEN s[i].entries ELSE <<>>
    BY <2>1
  <2>3. Setup!Entries(s) = Together(a) /\ Spread(s, own) = Together(b)
    BY DEF Setup!Entries, Setup!Joined, Together, Spread
  <2> HIDE DEF own
  <2>4. a = b
    BY <2>2
  <2> HIDE DEF a, b
  <2> QED
    BY <2>3, <2>4
<1> HIDE DEF own
<1>7. Spread(s, own) \in Seq({"other"})
  BY <1>5, SpreadGrows
<1> QED
  BY <1>1, <1>2, <1>4, <1>6, <1>7

LEMMA SweepCleans ==
  ASSUME NEW s \in Seq(Setup!GroupLike)
  PROVE  /\ Setup!Swept(s) \in Seq(CleanGroups) /\ Setup!Swept(s) \in Seq(Setup!GroupLike)
         /\ Setup!Others(Setup!Entries(Setup!Swept(s))) = Setup!Others(Setup!Entries(s))
<1> DEFINE G == Setup!GroupLike
           OthersIn(x) == Setup!Others(Setup!Entries(x))
           Good == {x \in Seq(G) : Setup!Swept(x) \in Seq(CleanGroups) /\ OthersIn(Setup!Swept(x)) = OthersIn(x)}
<1>1. \A x \in Seq(CleanGroups) : x \in Seq(G)
  BY CleanStay
<1>2. \A x \in Seq(G) : Setup!Swept(x) \in Seq(CleanGroups)
  <2>1. RestOf \in [Setup!GroupLike -> Seq(CleanGroups)]
    BY SweptAre
  <2>2. \A x \in Seq(Setup!GroupLike) : Spread(x, RestOf) \in Seq(CleanGroups)
    BY <2>1, SpreadGrows
  <2> QED
    BY <2>2, SweptAre
<1>3. <<>> \in Good
  <2>1. <<>> \in Seq(CleanGroups) /\ <<>> \in Seq(G)
    OBVIOUS
  <2>2. Setup!Swept(<<>>) = <<>>
    BY <2>1, CleanStay
  <2> QED
    BY <2>1, <2>2
<1>4. ASSUME NEW x \in Seq(G), NEW g \in G, x \in Good PROVE Append(x, g) \in Good
  <2> DEFINE w == Setup!Swept(x)
             r == Setup!Rest(g)
             ge == <<g>>
             ex == Setup!Entries(x)
             ew == Setup!Entries(w)
             eg == Setup!Entries(ge)
             er == Setup!Entries(r)
  <2>1. /\ x \in Seq(G) /\ ge \in Seq(G) /\ w \in Seq(G) /\ r \in Seq(G) /\ Append(x, g) = x \o ge
        /\ Append(x, g) \in Seq(G)
    <3>1. ge \in Seq(G) /\ Append(x, g) \in Seq(G)
      OBVIOUS
    <3>2. Append(x, g) = x \o ge
      BY AppendIsConcat
    <3> QED
      BY <1>1, <1>2, <3>1, <3>2, RestIs
  <2>2. Setup!Swept(ge) = r /\ Setup!Others(er) = Setup!Others(eg)
    BY SweptOfOne, RestIs
  <2>3. Setup!Others(ew) = Setup!Others(ex)
    BY <1>4
  <2> HIDE DEF w, r, ge, ex, ew, eg, er
  <2>4. SweepAdds(x, ge) /\ EntriesAdd(x, ge) /\ EntriesAdd(w, r) /\ EntriesAdd(ge, x) /\ EntriesAdd(r, w)
    BY <2>1, SweptOfBoth, EntriesOfBoth
  <2>5. Setup!Swept(x \o ge) = w \o r
    BY <2>2, <2>4 DEF SweepAdds, w
  <2>6. Setup!Entries(x \o ge) = ex \o eg /\ Setup!Entries(w \o r) = ew \o er
    BY <2>4 DEF EntriesAdd, ex, eg, ew, er
  <2>7. ex \in Seq(EntryKinds) /\ eg \in Seq(EntryKinds) /\ ew \in Seq(EntryKinds) /\ er \in Seq(EntryKinds)
    BY <2>4 DEF EntriesAdd, ex, eg, ew, er
  <2>8. Setup!Others(ex \o eg) = Setup!Others(ex) \o Setup!Others(eg)
    BY <2>7, OthersOfBoth
  <2>9. Setup!Others(ew \o er) = Setup!Others(ew) \o Setup!Others(er)
    BY <2>7, OthersOfBoth
  <2>10. OthersIn(Setup!Swept(Append(x, g))) = OthersIn(Append(x, g))
    BY <2>1, <2>2, <2>3, <2>5, <2>6, <2>8, <2>9
  <2> QED
    BY <1>2, <2>1, <2>10
<1>5. Seq(G) \subseteq Good
  <2> HIDE DEF Good, G
  <2> QED
    BY <1>3, <1>4, SequencesGrow
<1> QED
  BY <1>1, <1>2, <1>5

-----------------------------------------------------------------------------
(* The place of the entry                                                   *)

(* The groups that may take the entry, the first of them, a new one, and    *)
(* the settings with the entry in its place.                                *)
Canonicals(rest) == {j \in DOMAIN rest : rest[j].parsed /\ rest[j].matcher = Setup!Canonical}
HomeIn(rest) == Setup!FirstOf(Canonicals(rest))
Fresh == [matcher |-> Setup!Canonical, parsed |-> TRUE, entries |-> <<"managed">>]
Placed(rest) ==
  IF HomeIn(rest) = 0 THEN Append(rest, Fresh)
  ELSE [rest EXCEPT ![HomeIn(rest)].entries = Append(@, "managed")]

(* The home is a group that fires on every start.                           *)
LEMMA HomeIs ==
  ASSUME NEW rest \in Seq(Setup!GroupLike)
  PROVE  \/ HomeIn(rest) = 0
         \/ /\ HomeIn(rest) \in 1..Len(rest) /\ HomeIn(rest) # 0
            /\ rest[HomeIn(rest)].parsed /\ rest[HomeIn(rest)].matcher = Setup!Canonical
<1> DEFINE S == Canonicals(rest)
<1>1. S \in SUBSET (1..Len(rest)) /\ Len(rest) \in Nat
  BY DEF Canonicals
<1>2. \A j \in S : rest[j].parsed /\ rest[j].matcher = Setup!Canonical /\ j \in 1..Len(rest) /\ j # 0
  <2>1. \A j \in S : rest[j].parsed /\ rest[j].matcher = Setup!Canonical
    BY DEF Canonicals
  <2> HIDE DEF S
  <2> QED
    BY <1>1, <2>1
<1>3. HomeIn(rest) = Setup!FirstOf(S)
  BY DEF HomeIn
<1> HIDE DEF S
<1> QED
  BY <1>1, <1>2, <1>3, FirstIs

(* A new group is one that a sweep removes.                                 *)
LEMMA FreshIs ==
  /\ Fresh \in Setup!GroupLike /\ Fresh.parsed /\ Fresh.matcher = Setup!Canonical
  /\ Fresh.entries = <<"managed">> /\ Setup!Rest(Fresh) = <<>>
<1>1. Fresh \in Setup!GroupLike /\ Fresh.parsed /\ Fresh.matcher = Setup!Canonical /\ Fresh.entries = <<"managed">>
  BY DEF Fresh, Setup!GroupLike
<1>2. Setup!Others(<<"managed">>) = <<>>
  BY ManagedIs
<1> QED
  BY <1>1, <1>2 DEF Setup!Rest

(* One group takes the place of what a sweep leaves of it: a group that has *)
(* been given the managed entry, or a new one in the place of nothing.      *)
Houses(y, r) ==
  /\ y \in Setup!GroupLike /\ y.parsed /\ y.matcher = Setup!Canonical /\ Setup!Has(y.entries, "managed")
  /\ Setup!Rest(y) = r /\ r \in Seq(CleanGroups)
  /\ Setup!Only(y.entries, {"managed"}) = <<"managed">>
  /\ Setup!Others(y.entries) = Setup!Others(Setup!Entries(r))
PlacedIn(R, rest) == \E a, r, c \in Seq(CleanGroups), y \in Setup!GroupLike :
  /\ rest = (a \o r) \o c /\ R = (a \o <<y>>) \o c /\ Houses(y, r)

(* A new group houses the entry in the place of nothing.                    *)
LEMMA FreshHouses == Houses(Fresh, <<>>)
<1>1. Setup!Has(<<"managed">>, "managed")
  <2> DEFINE m == <<"managed">>
  <2>1. 1 \in DOMAIN m /\ m[1] = "managed"
    OBVIOUS
  <2> QED
    BY <2>1 DEF Setup!Has
<1>2. Setup!Entries(<<>>) = <<>>
  BY FreshIs, EntriesOfOne
<1>3. Setup!Others(<<>>) = <<>> /\ <<>> \in Seq(CleanGroups)
  <2>1. <<>> \in Seq({"other"}) /\ <<>> \in Seq(EntryKinds) /\ <<>> \in Seq(CleanGroups)
    OBVIOUS
  <2> QED
    BY <2>1, OthersAre
<1> QED
  BY <1>1, <1>2, <1>3, FreshIs, ManagedIs DEF Houses

(* A clean group that is given the entry houses it.                         *)
LEMMA GivenHouses ==
  ASSUME NEW x \in CleanGroups, x.parsed, x.matcher = Setup!Canonical
  PROVE  Houses([x EXCEPT !.entries = Append(x.entries, "managed")], <<x>>)
<1> DEFINE e == x.entries
           m == <<"managed">>
           em == Append(e, "managed")
           y == [x EXCEPT !.entries = em]
           t == <<x>>
<1>1. x \in Setup!GroupLike /\ e \in Seq({"other"}) /\ e # <<>> /\ t \in Seq(CleanGroups)
  BY DEF CleanGroups, Clean
<1>2. /\ e \in Seq(EntryKinds)
      /\ \A f \in Seq(EntryKinds) :
           /\ [x EXCEPT !.entries = f] \in Setup!GroupLike
           /\ [x EXCEPT !.entries = f].entries = f
           /\ [x EXCEPT !.entries = f].parsed = x.parsed
           /\ [x EXCEPT !.entries = f].matcher = x.matcher
      /\ [x EXCEPT !.entries = e] = x
      /\ \A f, g \in Seq(EntryKinds) : [[x EXCEPT !.entries = f] EXCEPT !.entries = g] = [x EXCEPT !.entries = g]
  BY <1>1, GroupIs
<1>3. em = e \o m /\ em \in Seq(EntryKinds) /\ m \in Seq(EntryKinds)
  <2>1. "managed" \in EntryKinds
    BY DEF EntryKinds
  <2>2. \A f \in Seq(EntryKinds) : Append(f, "managed") = f \o <<"managed">> /\ Append(f, "managed") \in Seq(EntryKinds)
    <3>1. ASSUME NEW f \in Seq(EntryKinds)
          PROVE  Append(f, "managed") = f \o <<"managed">> /\ Append(f, "managed") \in Seq(EntryKinds)
      BY <2>1, AppendIsConcat, AppendProperties
    <3> QED
      BY <3>1
  <2>3. <<"managed">> \in Seq(EntryKinds)
    BY <2>1
  <2> QED
    BY <1>2, <2>2, <2>3
<1>4. Setup!Has(em, "managed")
  <2>1. \A f \in Seq(EntryKinds) : Setup!Has(Append(f, "managed"), "managed")
    <3>1. ASSUME NEW f \in Seq(EntryKinds) PROVE Setup!Has(Append(f, "managed"), "managed")
      <4> DEFINE l == Append(f, "managed")
      <4>1. Len(f) + 1 \in DOMAIN l /\ l[Len(f) + 1] = "managed"
        BY AppendProperties
      <4> HIDE DEF l
      <4>2. Setup!Has(l, "managed")
        BY <4>1 DEF Setup!Has
      <4> QED
        BY <4>2 DEF l
    <3> QED
      BY <3>1
  <2> QED
    BY <1>2, <2>1
<1>5. Setup!Entries(t) = e
  BY <1>1, EntriesOfOne
<1>6. Setup!Others(e) = e /\ Setup!Only(e, {"managed"}) = <<>>
  BY <1>1, <1>2, OthersAre
<1>7. Setup!Others(m) = <<>> /\ Setup!Only(m, {"managed"}) = m
  BY ManagedIs
<1> HIDE DEF m
<1>8. Setup!Others(em) = e /\ Setup!Only(em, {"managed"}) = m
  <2>1. Setup!Others(e \o m) = Setup!Others(e) \o Setup!Others(m)
    BY <1>2, <1>3, OthersOfBoth
  <2>2. Setup!Only(e \o m, {"managed"}) = Setup!Only(e, {"managed"}) \o Setup!Only(m, {"managed"})
    BY <1>2, <1>3, OthersOfBoth
  <2>3. e \o <<>> = e /\ <<>> \o m = m
    BY <1>2, <1>3, ConcatEmptySeq
  <2> QED
    BY <1>3, <1>6, <1>7, <2>1, <2>2, <2>3
<1> HIDE DEF em, e
<1>9. y \in Setup!GroupLike /\ y.entries = em /\ y.parsed /\ y.matcher = Setup!Canonical
  BY <1>2, <1>3
<1>10. [y EXCEPT !.entries = e] = x
  <2>1. [[x EXCEPT !.entries = em] EXCEPT !.entries = e] = [x EXCEPT !.entries = e]
    BY <1>2, <1>3
  <2> QED
    BY <1>2, <2>1
<1> HIDE DEF y, t
<1>11. Setup!Rest(y) = <<x>>
  BY <1>1, <1>8, <1>9, <1>10 DEF Setup!Rest
<1>12. Houses(y, t)
  BY <1>1, <1>4, <1>5, <1>6, <1>8, <1>9, <1>11 DEF Houses, m, t
<1> QED
  BY <1>12 DEF y, t, em, e

(* Placing the entry changes one group, and the others stay.                *)
LEMMA PlacedIs ==
  ASSUME NEW rest \in Seq(CleanGroups)
  PROVE  PlacedIn(Placed(rest), rest)
<1> DEFINE C == CleanGroups
           G == Setup!GroupLike
           h == HomeIn(rest)
<1>1. rest \in Seq(G) /\ \A g \in C : g \in G
  BY CleanStay DEF CleanGroups
<1>2. CASE h = 0
  <2> DEFINE none == <<>>
             fresh == <<Fresh>>
  <2>1. none \in Seq(C) /\ Fresh \in G /\ fresh \in Seq(G)
    BY FreshIs
  <2>2. Placed(rest) = rest \o fresh
    BY <1>1, <1>2, FreshIs, AppendIsConcat DEF Placed
  <2>3. rest \o none = rest
    BY <1>1, ConcatEmptySeq
  <2>4. (rest \o fresh) \o none = rest \o fresh
    <3>1. rest \o fresh \in Seq(G)
      BY <1>1, <2>1
    <3> QED
      BY <3>1, ConcatEmptySeq
  <2>5. Houses(Fresh, none)
    BY FreshHouses
  <2> HIDE DEF none
  <2>6. rest = (rest \o none) \o none
    BY <2>3
  <2>7. Placed(rest) = (rest \o <<Fresh>>) \o none
    BY <2>2, <2>4
  <2> QED
    BY <2>1, <2>5, <2>6, <2>7 DEF PlacedIn
<1>3. CASE h # 0
  <2> DEFINE x == rest[h]
             y == [x EXCEPT !.entries = Append(x.entries, "managed")]
             a == SubSeq(rest, 1, h - 1)
             c == SubSeq(rest, h + 1, Len(rest))
             n == Len(rest)
             R == [rest EXCEPT ![h] = y]
             b == <<x>>
             d == <<y>>
  <2>1. h \in 1..Len(rest) /\ x.parsed /\ x.matcher = Setup!Canonical
    BY <1>1, <1>3, HomeIs
  <2>2. x \in C /\ x \in G
    BY <1>1, <2>1
  <2>3. Houses(y, <<x>>)
    BY <2>1, <2>2, GivenHouses
  <2>4. y \in G
    BY <2>3 DEF Houses
  <2>5. Placed(rest) = R
    BY <1>3 DEF Placed
  <2> HIDE DEF y, h
  <2>6. InThree(C, rest, h, h, a, SubSeq(rest, h, h), c)
    <3>1. h \in h..Len(rest)
      BY <2>1
    <3> QED
      BY <2>1, <3>1, ThreeParts
  <2>7. SubSeq(rest, h, h) = <<x>>
    BY <2>1, OneElement
  <2>8. rest = (a \o b) \o c
    BY <2>6, <2>7 DEF InThree
  <2>9. R \in Seq(G) /\ Len(R) = n /\ n \in Nat /\ h \in 1..n
    BY <1>1, <2>1, <2>4
  <2>10. InThree(G, R, h, h, SubSeq(R, 1, h - 1), SubSeq(R, h, h), SubSeq(R, h + 1, Len(R)))
    <3>1. h \in h..Len(R) /\ h \in 1..Len(R)
      BY <2>9
    <3> HIDE DEF R
    <3> QED
      BY <2>9, <3>1, ThreeParts
  <2>11. /\ a \in Seq(C) /\ c \in Seq(C) /\ Len(a) = h - 1 /\ Len(c) = n - h
         /\ \A k \in 1 .. h - 1 : a[k] = rest[k]
         /\ \A k \in 1 .. n - h : c[k] = rest[h + k]
    BY <2>6 DEF InThree
  <2>12. \A k \in 1..n : R[k] = IF k = h THEN y ELSE rest[k]
    BY <1>1
  <2>13. SubSeq(R, 1, h - 1) = a
    <3> DEFINE p == SubSeq(R, 1, h - 1)
    <3>1. p \in Seq(G) /\ Len(p) = h - 1 /\ \A k \in 1 .. h - 1 : p[k] = R[k]
      BY <2>10 DEF InThree
    <3>2. a \in Seq(G)
      BY <1>1, <2>11
    <3> HIDE DEF p, a, R
    <3>3. \A k \in 1 .. h - 1 : p[k] = a[k]
      BY <2>9, <2>11, <2>12, <3>1
    <3>4. Len(p) = Len(a) /\ \A k \in 1..Len(p) : p[k] = a[k]
      BY <2>11, <3>1, <3>3
    <3>5. p = a
      BY <3>1, <3>2, <3>4, SeqEqual
    <3> QED
      BY <3>5 DEF p
  <2>14. SubSeq(R, h + 1, Len(R)) = c
    <3> DEFINE p == SubSeq(R, h + 1, Len(R))
    <3>1. p \in Seq(G) /\ Len(p) = n - h /\ \A k \in 1 .. n - h : p[k] = R[h + k]
      BY <2>9, <2>10 DEF InThree
    <3>2. c \in Seq(G)
      BY <1>1, <2>11
    <3> HIDE DEF p, c, R
    <3>3. \A k \in 1 .. n - h : p[k] = c[k]
      BY <2>9, <2>11, <2>12, <3>1
    <3>4. Len(p) = Len(c) /\ \A k \in 1..Len(p) : p[k] = c[k]
      BY <2>11, <3>1, <3>3
    <3>5. p = c
      BY <3>1, <3>2, <3>4, SeqEqual
    <3> QED
      BY SMTT(30), <3>5 DEF p
  <2>15. SubSeq(R, h, h) = d
    <3>1. R[h] = y
      BY <2>9, <2>12
    <3>2. SubSeq(R, h, h) = <<R[h]>>
      <4>1. R \in Seq(G) /\ h \in 1..Len(R)
        BY <2>9
      <4> HIDE DEF R
      <4> QED
        BY <4>1, OneElement
    <3> QED
      BY <3>1, <3>2
  <2>16. R = (a \o d) \o c
    BY <2>10, <2>13, <2>14, <2>15 DEF InThree
  <2>17. b \in Seq(C)
    BY <2>2
  <2> HIDE DEF R, a, c, b
  <2> QED
    BY <2>3, <2>4, <2>5, <2>8, <2>11, <2>16, <2>17 DEF PlacedIn, b
<1> QED
  BY <1>2, <1>3

(* What comes of a placed entry: a sweep takes it away again, it is the one *)
(* managed entry, and the entries of others are as they were.               *)
LEMMA PlacedKeeps ==
  ASSUME NEW rest \in Seq(CleanGroups), NEW R, PlacedIn(R, rest)
  PROVE  /\ R \in Seq(Setup!GroupLike) /\ Setup!Swept(R) = rest
         /\ Setup!Only(Setup!Entries(R), {"managed"}) = <<"managed">>
         /\ Setup!Others(Setup!Entries(R)) = Setup!Others(Setup!Entries(rest))
         /\ \E i \in DOMAIN R : R[i].parsed /\ R[i].matcher = Setup!Canonical /\ Setup!Has(R[i].entries, "managed")
<1> DEFINE C == CleanGroups
           G == Setup!GroupLike
           K == Seq(EntryKinds)
           m == <<"managed">>
           M == {"managed"}
<1>1. PICK a \in Seq(C), r \in Seq(C), c \in Seq(C), y \in G :
        rest = (a \o r) \o c /\ R = (a \o <<y>>) \o c /\ Houses(y, r)
  BY DEF PlacedIn
<1> DEFINE b == <<y>>
           ab == a \o b
           ar == a \o r
<1>2. /\ a \in Seq(G) /\ r \in Seq(G) /\ c \in Seq(G) /\ b \in Seq(G) /\ ab \in Seq(G) /\ ar \in Seq(G)
      /\ Setup!Swept(a) = a /\ Setup!Swept(c) = c
      /\ Setup!Entries(a) \in Seq({"other"}) /\ Setup!Entries(c) \in Seq({"other"})
  <2>1. a \in Seq(G) /\ r \in Seq(G) /\ c \in Seq(G)
    BY CleanStay
  <2>2. b \in Seq(G)
    OBVIOUS
  <2>3. /\ Setup!Swept(a) = a /\ Setup!Swept(c) = c
        /\ Setup!Entries(a) \in Seq({"other"}) /\ Setup!Entries(c) \in Seq({"other"})
    BY CleanStay
  <2> QED
    BY <2>1, <2>2, <2>3
<1>3. /\ y.parsed /\ y.matcher = Setup!Canonical /\ Setup!Has(y.entries, "managed")
      /\ Setup!Rest(y) = r /\ Setup!Only(y.entries, M) = m
      /\ Setup!Others(y.entries) = Setup!Others(Setup!Entries(r))
  BY <1>1 DEF Houses
<1>4. Setup!Swept(b) = r /\ Setup!Entries(b) = y.entries
  BY <1>3, SweptOfOne, EntriesOfOne
<1>5. Len(a) + 1 \in DOMAIN R /\ R[Len(a) + 1] = y
  <2>1. Len(ab) = Len(a) + 1 /\ ab[Len(a) + 1] = y
    OBVIOUS
  <2>2. ab \in Seq(G) /\ c \in Seq(G) /\ Len(a) \in Nat /\ Len(ab) \in Nat /\ Len(c) \in Nat
    BY <1>2
  <2> HIDE DEF ab
  <2>3. \A k \in 1..Len(ab) : (ab \o c)[k] = ab[k] /\ k \in DOMAIN (ab \o c)
    BY <2>2
  <2> QED
    BY <1>1, <2>1, <2>2, <2>3 DEF ab
<1>6. R \in Seq(G)
  BY <1>1, <1>2
<1> HIDE DEF b, G, C
<1>7. R = ab \o c /\ rest = ar \o c
  BY <1>1 DEF b
<1>8. /\ SweepAdds(a, b) /\ SweepAdds(ab, c)
      /\ EntriesAdd(a, b) /\ EntriesAdd(ab, c) /\ EntriesAdd(a, r) /\ EntriesAdd(ar, c)
      /\ EntriesAdd(b, a) /\ EntriesAdd(r, a) /\ EntriesAdd(c, a)
  BY <1>2, SweptOfBoth, EntriesOfBoth DEF G
<1> DEFINE ea == Setup!Entries(a)
           eb == Setup!Entries(b)
           ec == Setup!Entries(c)
           er == Setup!Entries(r)
<1>9. ea \in K /\ eb \in K /\ ec \in K /\ er \in K /\ ea \o eb \in K /\ ea \o er \in K
  BY <1>8 DEF EntriesAdd
<1>10. /\ Setup!Entries(R) = (ea \o eb) \o ec
       /\ Setup!Entries(rest) = (ea \o er) \o ec
  BY <1>7, <1>8 DEF EntriesAdd
<1>11. Setup!Swept(R) = rest
  <2>1. Setup!Swept(ab \o c) = Setup!Swept(ab) \o Setup!Swept(c) /\ Setup!Swept(ab) = Setup!Swept(a) \o Setup!Swept(b)
    BY <1>8 DEF SweepAdds
  <2> QED
    BY <1>2, <1>4, <1>7, <2>1
<1>12. ea \in Seq({"other"}) /\ ec \in Seq({"other"})
  BY <1>2
<1>13. Setup!Only(eb, M) = m /\ Setup!Others(eb) = Setup!Others(er)
  BY <1>3, <1>4
<1> HIDE DEF ea, eb, ec, er, ab, ar, M
<1>14. Setup!Only(ea, M) = <<>> /\ Setup!Only(ec, M) = <<>>
  BY <1>9, <1>12, OthersAre DEF M
<1> HIDE DEF m
<1>15. Setup!Only(Setup!Entries(R), M) = m
  <2>1. Setup!Only((ea \o eb) \o ec, M) = Setup!Only(ea \o eb, M) \o Setup!Only(ec, M)
    BY <1>9, OthersOfBoth DEF M
  <2>2. Setup!Only(ea \o eb, M) = Setup!Only(ea, M) \o Setup!Only(eb, M)
    BY <1>9, OthersOfBoth DEF M
  <2>3. (<<>> \o m) \o <<>> = m
    <3>1. m \in K
      BY ManagedIs DEF m
    <3>2. <<>> \o m = m /\ m \o <<>> = m
      BY <3>1, ConcatEmptySeq
    <3> QED
      BY <3>2
  <2> QED
    BY <1>10, <1>13, <1>14, <2>1, <2>2, <2>3
<1>16. Setup!Others(Setup!Entries(R)) = Setup!Others(Setup!Entries(rest))
  <2>1. /\ Setup!Others((ea \o eb) \o ec) = Setup!Others(ea \o eb) \o Setup!Others(ec)
        /\ Setup!Others((ea \o er) \o ec) = Setup!Others(ea \o er) \o Setup!Others(ec)
        /\ Setup!Others(ea \o eb) = Setup!Others(ea) \o Setup!Others(eb)
        /\ Setup!Others(ea \o er) = Setup!Others(ea) \o Setup!Others(er)
    BY <1>9, OthersOfBoth
  <2> QED
    BY <1>10, <1>13, <2>1
<1> QED
  BY <1>3, <1>5, <1>6, <1>11, <1>15, <1>16 DEF G, M, m

(* reconcileManagedEntries looks only at what the sweep leaves.             *)
LEMMA ReconciledIs ==
  ASSUME NEW s \in Seq(Setup!GroupLike), NEW R, R = Setup!Reconciled(s)
  PROVE  /\ R \in Seq(Setup!GroupLike) /\ Setup!Reconciled(R) = R
         /\ Setup!Only(Setup!Entries(R), {"managed"}) = <<"managed">>
         /\ Setup!Others(Setup!Entries(R)) = Setup!Others(Setup!Entries(s))
         /\ \E i \in DOMAIN R : R[i].parsed /\ R[i].matcher = Setup!Canonical /\ Setup!Has(R[i].entries, "managed")
<1> DEFINE rest == Setup!Swept(s)
<1>1. rest \in Seq(CleanGroups) /\ Setup!Others(Setup!Entries(rest)) = Setup!Others(Setup!Entries(s))
  BY SweepCleans
<1>2. \A x : Setup!Reconciled(x) = Placed(Setup!Swept(x))
  BY DEF Setup!Reconciled, Placed, HomeIn, Canonicals, Fresh
<1> HIDE DEF rest
<1>3. PlacedIn(R, rest)
  <2>1. R = Placed(rest)
    BY <1>2 DEF rest
  <2> QED
    BY <1>1, <2>1, PlacedIs
<1>4. /\ R \in Seq(Setup!GroupLike) /\ Setup!Swept(R) = rest
      /\ Setup!Only(Setup!Entries(R), {"managed"}) = <<"managed">>
      /\ Setup!Others(Setup!Entries(R)) = Setup!Others(Setup!Entries(rest))
      /\ \E i \in DOMAIN R : R[i].parsed /\ R[i].matcher = Setup!Canonical /\ Setup!Has(R[i].entries, "managed")
  BY <1>1, <1>3, PlacedKeeps
<1>5. Setup!Reconciled(R) = R
  BY <1>2, <1>4 DEF rest
<1> QED
  BY <1>1, <1>4, <1>5

-----------------------------------------------------------------------------
(* The two files, together                                                  *)

(* A step of the setup is one of EnableAgentPath.                           *)
LEMMA SetupAlone == part = "setup" /\ PartsNext => Setup!SetupNext
BY DEF PartsNext, OpenDatabase, InstallHook, SetUpAgent, ChoosePreference,
  FindStateRoot, KeepFindings, SuggestDuplicate, SummariseFindings, GatherContext,
  ReadDiff, ReadDocument, PublishFindings, RecordTelemetry, RunCommand, CheckProtocol,
  ScoreCase, RunEvaluation, RunVerification, Runs, Rest

(* Any two files are files that the model has.                              *)
LEMMA SetupStarts ==
  ASSUME Setup!SetupInit
  PROVE  Setup!SetupFits
<1> DEFINE E == {"managed", "other"}
           Mt == {Setup!Canonical, "startup"}
           T == {"user", "start", "block", "end"}
<1>1. MaxGroups \in Nat /\ MaxEntries \in Nat /\ MaxText \in Nat
  BY SetupAssumption
<1>2. \A S, n, l : n \in Nat /\ l \in Setup!Lists(S, n) => l \in Seq(S)
  <2>1. ASSUME NEW S, NEW n \in Nat, NEW l, l \in Setup!Lists(S, n) PROVE l \in Seq(S)
    <3>1. PICK k \in 0..n : l \in [1..k -> S]
      BY <2>1 DEF Setup!Lists
    <3> QED
      BY <3>1
  <2> QED
    BY <2>1
<1>3. Setup!Groups \subseteq Setup!GroupLike
  <2>1. Setup!Lists(E, MaxEntries) \subseteq Seq(E)
    <3> HIDE DEF E
    <3> QED
      BY <1>1, <1>2
  <2>2. /\ Setup!Groups = [matcher : Mt, parsed : BOOLEAN, entries : Setup!Lists(E, MaxEntries)]
        /\ Setup!GroupLike = [matcher : Mt, parsed : BOOLEAN, entries : Seq(E)]
    BY DEF Setup!Groups, Setup!GroupLike
  <2> HIDE DEF E, Mt
  <2> QED
    BY <2>1, <2>2
<1>4. Setup!Lists(Setup!Groups, MaxGroups) \subseteq Setup!SettingsLike
  <2>1. \A l \in Setup!Lists(Setup!Groups, MaxGroups) : l \in Seq(Setup!Groups)
    BY <1>1, <1>2
  <2> QED
    BY <1>3, <2>1 DEF Setup!SettingsLike
<1>5. Setup!Lists(T, MaxText) \subseteq Setup!TextLike
  <2>1. \A l \in Setup!Lists(T, MaxText) : l \in Seq(T)
    <3> HIDE DEF T
    <3> QED
      BY <1>1, <1>2
  <2> DEFINE U == {"user", "start", "block", "end", "missing"}
  <2>2. T \subseteq U /\ Setup!TextLike = Seq(U)
    BY DEF Setup!TextLike
  <2> HIDE DEF T, U
  <2>3. \A l \in Seq(T) : l \in Seq(U)
    BY <2>2
  <2> QED
    BY <2>1, <2>2, <2>3
<1>6. Setup!Missing \in Setup!TextLike /\ <<>> \in Setup!SettingsLike
  <2>1. "missing" \in {"user", "start", "block", "end", "missing"}
    OBVIOUS
  <2> QED
    BY <2>1 DEF Setup!Missing, Setup!TextLike, Setup!SettingsLike
<1> QED
  BY <1>4, <1>5, <1>6 DEF Setup!SetupInit, Setup!SetupFits

(* What a merge makes of AGENTS.md.                                         *)
LEMMA TextIs ==
  ASSUME NEW t \in Setup!TextLike
  PROVE  /\ Setup!Merged(Setup!Merged(t)) = Setup!Merged(t)
         /\ Setup!WellMarked(t) => Setup!UserText(Setup!Merged(t)) = Setup!UserText(t)
<1>1. t \in Seq(TextLines)
  BY DEF Setup!TextLike, TextLines
<1>2. PICK a, c : MergeOf(Setup!Merged(t), a, c)
  BY <1>1, MergedIs
<1>3. Setup!Merged(Setup!Merged(t)) = Setup!Merged(t)
  BY <1>2, MergedAgain
<1>4. Setup!WellMarked(t) => Setup!UserText(Setup!Merged(t)) = Setup!UserText(t)
  BY SMTT(30), <1>1, MergedIs
<1> QED
  BY <1>3, <1>4

(* A second setup finds what the first has made.                            *)
LEMMA SetupKeeps ==
  ASSUME Setup!SetupFits, Setup!SetupNext
  PROVE  Setup!SetupFits'
<1>1. /\ s3 \in Setup!SettingsLike /\ s4 \in Setup!TextLike
      /\ s1 \in {s3, Setup!Reconciled(s3)} /\ s2 \in {s4, Setup!Merged(s4)}
  BY DEF Setup!SetupFits
<1>2. Setup!Reconciled(Setup!Reconciled(s3)) = Setup!Reconciled(s3)
  BY <1>1, ReconciledIs DEF Setup!SettingsLike
<1>3. Setup!Merged(Setup!Merged(s4)) = Setup!Merged(s4)
  BY <1>1, TextIs
<1>4. s3' = s3 /\ s4' = s4 /\ s1' \in {s1, Setup!Reconciled(s1)} /\ s2' \in {s2, Setup!Merged(s2)}
  BY DEF Setup!SetupNext, Setup!EnableAgentPath
<1>5. s1' \in {s3, Setup!Reconciled(s3)} /\ s2' \in {s4, Setup!Merged(s4)}
  BY <1>1, <1>2, <1>3, <1>4
<1>6. s1' \in {s3', Setup!Reconciled(s3')} /\ s2' \in {s4', Setup!Merged(s4')}
  BY <1>4, <1>5
<1> QED
  BY <1>1, <1>4, <1>6 DEF Setup!SetupFits, Setup!Reconciled, Setup!Merged

(* Whatever was in the files, they have what a setup promises.              *)
LEMMA SetupFinishes ==
  ASSUME Setup!SetupFits
  PROVE  Setup!SetupConverges
<1>1. /\ s3 \in Seq(Setup!GroupLike) /\ s4 \in Setup!TextLike
      /\ s1 \in {s3, Setup!Reconciled(s3)} /\ s2 \in {s4, Setup!Merged(s4)}
  BY DEF Setup!SetupFits, Setup!SettingsLike
<1>2. ASSUME s1 # s3
      PROVE  /\ \E i \in DOMAIN s1 : s1[i].parsed /\ s1[i].matcher = Setup!Canonical /\ Setup!Has(s1[i].entries, "managed")
             /\ Setup!Only(Setup!Entries(s1), {"managed"}) = <<"managed">>
             /\ Setup!Others(Setup!Entries(s1)) = Setup!Others(Setup!Entries(s3))
             /\ Setup!Reconciled(s1) = s1
  BY <1>1, <1>2, ReconciledIs
<1>3. ASSUME s2 # s4
      PROVE  Setup!Merged(s2) = s2 /\ (Setup!WellMarked(s4) => Setup!UserText(s2) = Setup!UserText(s4))
  BY <1>1, <1>3, TextIs
<1> QED
  BY <1>2, <1>3 DEF Setup!SetupConverges

(* The invariant of the setup, and what follows from it.                    *)
SetupInv == part = "setup" => Setup!SetupFits
SetupMeant == part = "setup" => Setup!SetupConverges

LEMMA SetupInductive == PartsSpec => []SetupInv
<1>1. PartsInit => SetupInv
  BY SetupStarts DEF PartsInit, SetupInv
<1>2. SetupInv /\ [PartsNext]_partsVars => SetupInv'
  <2>1. ASSUME SetupInv, PartsNext
        PROVE  SetupInv'
    BY <2>1, PartStays, SetupAlone, SetupKeeps DEF SetupInv
  <2>2. ASSUME SetupInv, UNCHANGED partsVars
        PROVE  SetupInv'
    <3>1. s1' = s1 /\ s2' = s2 /\ s3' = s3 /\ s4' = s4 /\ part' = part
      BY <2>2 DEF partsVars
    <3>2. Setup!Reconciled(s3)' = Setup!Reconciled(s3) /\ Setup!Merged(s4)' = Setup!Merged(s4)
      BY <3>1 DEF Setup!Reconciled, Setup!Merged
    <3>3. Setup!SettingsLike' = Setup!SettingsLike /\ Setup!TextLike' = Setup!TextLike
      BY DEF Setup!SettingsLike, Setup!TextLike, Setup!GroupLike
    <3>4. Setup!SetupFits' <=> Setup!SetupFits
      BY <3>1, <3>2, <3>3 DEF Setup!SetupFits
    <3> QED
      BY <2>2, <3>1, <3>4 DEF SetupInv
  <2> QED
    BY <2>1, <2>2
<1> QED
  BY <1>1, <1>2, PTL DEF PartsSpec

(* Files that are shared with a user or other projects stay theirs: an      *)
(* install or uninstall keeps the lines of the user's hook, a second setup  *)
(* changes nothing, and two projects share a state directory only if they   *)
(* are the same (src/git/hook-installation.ts:384,                          *)
(* src/integrations/claude-code.ts, src/git/state-root.ts:30).              *)
THEOREM SharedFilesAreKept == PartsSpec => SharedFilesKept
<1> DEFINE SharedStep ==
      /\ part = "installation" => Installation!KeepsUserLines
      /\ part = "setup" => Setup!SetupConverges'
      /\ part = "root" => Root!ProjectsApart
<1>1. SetupInv => SetupMeant
  BY SetupFinishes DEF SetupInv, SetupMeant
<1>2. InstallationInv /\ MarkersInv /\ SetupMeant' /\ [PartsNext]_partsVars => [SharedStep]_partsVars
  <2>1. ASSUME InstallationInv, MarkersInv, SetupMeant', PartsNext
        PROVE  SharedStep
    <3>1. part = "installation" => Installation!KeepsUserLines
      BY <2>1, InstallationAlone, UserLinesStay DEF InstallationInv, MarkersInv
    <3>2. part = "setup" => Setup!SetupConverges'
      BY <2>1, PartStays DEF SetupMeant
    <3>3. Root!ProjectsApart
      BY RootsAreApart
    <3> QED
      BY <3>1, <3>2, <3>3
  <2> HIDE DEF SharedStep
  <2> QED
    BY <2>1
<1>3. PartsSpec => [][SharedStep]_partsVars
  <2> HIDE DEF SharedStep
  <2> QED
    BY <1>1, <1>2, InstallationInductive, MarkersInductive, SetupInductive, PTL DEF PartsSpec
<1> QED
  BY <1>3 DEF SharedFilesKept
===============================================================================
