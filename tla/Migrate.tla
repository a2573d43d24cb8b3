------------------------------ MODULE Migrate ------------------------------
(***************************************************************************)
(* The migration runner (src/migrate.ts): processes that run `up`, `down`  *)
(* and `status` against one database, each on a connection of its own,     *)
(* with nothing that keeps two of them apart but the locks of the          *)
(* statements they execute.                                                *)
(*                                                                         *)
(* A run reads which versions are applied, outside of any transaction, and *)
(* then works on what it read.  Each version is applied, or reverted, in   *)
(* one transaction of two statements: the migration's SQL, and the row of  *)
(* schema_migrations.  The SQL of every migration of the repository is one *)
(* CREATE TABLE IF NOT EXISTS, which some follow with a CREATE INDEX IF    *)
(* NOT EXISTS, or one DROP TABLE IF EXISTS.                                *)
(***************************************************************************)
EXTENDS Integers, FiniteSets

CONSTANTS
    Runners,        \* processes of migrate.ts
    Indexed,        \* versions whose *.up.sql also creates an index
    Scenarios       \* what the runners are asked to do, and what they find

(* The migration files: one record for every *.up.sql of the registered    *)
(* features, with whether there is a *.down.sql for it.  A feature without *)
(* files, or without a directory, adds none.                               *)
ASSUME ScenariosAssumption ==
    \A s \in Scenarios :
        /\ DOMAIN s.command = Runners /\ IsFiniteSet(s.files)
        /\ \A f \in s.files : f.version \in Nat /\ f.down \in BOOLEAN
        /\ s.applied \subseteq Nat /\ IsFiniteSet(s.applied)

VARIABLES
    command,        \* the command of each run
    files,          \* the migration files of the repository
    bookkeeping,    \* there is a table schema_migrations
    journal,        \* the versions in schema_migrations
    tables,         \* the versions whose table exists
    pc,             \* where each run is
    pending,        \* the versions an up still has to apply
    target,         \* the version a transaction works on
    created,        \* its CREATE or DROP found something to create or drop
    removed         \* its DELETE found a row

task == <<command, files>>
transaction == <<pending, target, created, removed>>
vars == <<task, bookkeeping, journal, tables, pc, transaction>>

NoVersion == -1

Commanded(c) == {p \in Runners : command[p] = c}
Ups == Commanded("up")
Downs == Commanded("down")

Init ==
    /\ \E s \in Scenarios :
           /\ command = s.command /\ files = s.files
           /\ journal = s.applied /\ tables = s.applied
           /\ bookkeeping = (s.applied # {})
    /\ pc = [p \in Runners |-> "start"]
    /\ pending = [p \in Runners |-> {}]
    /\ target = [p \in Runners |-> NoVersion]
    /\ created = [p \in Runners |-> FALSE]
    /\ removed = [p \in Runners |-> FALSE]

----------------------------------------------------------------------------
(* The exit codes 0 and 1; a status that reports pending versions exits    *)
(* with 0 too.                                                             *)
Ended == {"succeeded", "behind", "failed"}

Goto(p, to) == pc' = [pc EXCEPT ![p] = to]

(* The process exits. *)
Leave(p, how) ==
    /\ Goto(p, how)
    /\ pending' = [pending EXCEPT ![p] = {}]
    /\ target' = [target EXCEPT ![p] = NoVersion]
    /\ created' = [created EXCEPT ![p] = FALSE]
    /\ removed' = [removed EXCEPT ![p] = FALSE]
    /\ UNCHANGED <<task, bookkeeping>>

(* ... and whatever its open transaction did is rolled back. *)
Exit(p, how) == Leave(p, how) /\ UNCHANGED <<journal, tables>>

(* The transactions that have executed a statement and not ended.          *)
Creating(v) == {p \in Ups : pc[p] \in {"insertRow", "commitUp"} /\ target[p] = v /\ created[p]}
Indexing(v) == {p \in Ups : pc[p] \in {"insertRow", "commitUp"} /\ target[p] = v /\ v \in Indexed}
Inserting(v) == {p \in Ups : pc[p] = "commitUp" /\ target[p] = v}
Dropping(v) == {p \in Downs : pc[p] \in {"deleteRow", "commitDown"} /\ target[p] = v /\ created[p]}
Deleting(v) == {p \in Downs : pc[p] = "commitDown" /\ target[p] = v /\ removed[p]}

Lowest(S) == CHOOSE v \in S : \A w \in S : v <= w
Highest(S) == CHOOSE v \in S : \A w \in S : v >= w

----------------------------------------------------------------------------
(* discoverMigrations *)

Versions == {f.version : f \in files}
DownFiles == {f.version : f \in {g \in files : g.down}}

(* All features share one namespace. *)
Ambiguous == \E f, g \in files : f # g /\ f.version = g.version

----------------------------------------------------------------------------
(* runMigrate *)

(* Every command that needs it creates the bookkeeping table first, in a   *)
(* statement of its own.                                                   *)
Invoke(p) ==
    /\ pc[p] = "start"
    /\ \/ command[p] = "help" /\ Exit(p, "succeeded")
       \/ command[p] = "unknown" /\ Exit(p, "failed")
       \/ /\ command[p] \in {"up", "status", "down"}
          /\ bookkeeping' = TRUE /\ Goto(p, "read")
          /\ UNCHANGED <<task, journal, tables, transaction>>

(* The SELECT of the applied versions. *)
Reads(p, c) == pc[p] = "read" /\ command[p] = c /\ bookkeeping

ReadForStatus(p) ==
    /\ Reads(p, "status")
    /\ Exit(p, IF Ambiguous THEN "failed"
               ELSE IF Versions \subseteq journal THEN "succeeded" ELSE "behind")

----------------------------------------------------------------------------
(* up *)

(* Variant: the versions of a feature come in the order of the registry,   *)
(* not sorted: here the highest first.                                     *)
BeginUpHighest(p, versions) ==
    /\ target' = [target EXCEPT ![p] = Highest(versions)]
    /\ pending' = [pending EXCEPT ![p] = versions]

(* discoverMigrations sorts by version.                                    *)
BeginUp(p, versions) ==
    /\ target' = [target EXCEPT ![p] = Lowest(versions)]
    /\ pending' = [pending EXCEPT ![p] = versions]

ReadForUp(p) ==
    /\ Reads(p, "up")
    /\ \/ Ambiguous /\ Exit(p, "failed")
       \/ ~Ambiguous /\ Versions \subseteq journal /\ Exit(p, "succeeded")
       \/ /\ ~Ambiguous /\ ~(Versions \subseteq journal)
          /\ Goto(p, "createTable") /\ BeginUp(p, Versions \ journal)
          /\ UNCHANGED <<task, bookkeeping, journal, tables, created, removed>>

(* A table that exists, be it about to be dropped, is left as it is, and   *)
(* no lock is taken on it; only CREATE INDEX locks it, and waits for the   *)
(* transaction that drops it.  For a table that is about to be created the *)
(* statement waits.  Having waited, it may fail (StatementFails).          *)
CreateTable(p) ==
    /\ pc[p] = "createTable" /\ Creating(target[p]) = {}
    /\ target[p] \in Indexed => Dropping(target[p]) = {}
    /\ created' = [created EXCEPT ![p] = target[p] \notin tables]
    /\ Goto(p, "insertRow")
    /\ UNCHANGED <<task, bookkeeping, journal, tables, pending, target, removed>>

(* Variant: a row that is there counts as success.                         *)
InsertRowConflictSucceeds(p) ==
    /\ pc[p] = "insertRow"
    /\ Inserting(target[p]) = {} /\ Deleting(target[p]) = {}
    /\ \/ target[p] \in journal /\ Exit(p, "succeeded")
       \/ /\ target[p] \notin journal /\ Goto(p, "commitUp")
          /\ UNCHANGED <<task, bookkeeping, journal, tables, pending, target, created, removed>>

(* Variant: the INSERT asks the pool, whose one connection the transaction *)
(* keeps.                                                                  *)
InsertRowThroughPool(p) ==
    /\ pc[p] = "insertRow" /\ \A q \in Runners : pc[q] = "start"
    /\ Goto(p, "commitUp")
    /\ UNCHANGED <<task, bookkeeping, journal, tables, pending, target, created, removed>>

(* The primary key refuses a row that is there; the INSERT waits for a     *)
(* transaction that inserts or deletes that row.                           *)
InsertRow(p) ==
    /\ pc[p] = "insertRow"
    /\ Inserting(target[p]) = {} /\ Deleting(target[p]) = {}
    /\ \/ target[p] \in journal /\ Exit(p, "failed")
       \/ /\ target[p] \notin journal /\ Goto(p, "commitUp")
          /\ UNCHANGED <<task, bookkeeping, journal, tables, pending, target, created, removed>>

(* Variant: the SQL of the migration and its row are not one transaction.  *)
StatementFailsKeepsTable(p) ==
    /\ pc[p] \notin Ended \cup {"start"} /\ Leave(p, "failed")
    /\ tables' = IF p \in Ups /\ created[p] THEN tables \cup {target[p]} ELSE tables
    /\ UNCHANGED journal

(* A statement fails, or the process dies.                                 *)
StatementFails(p) == pc[p] \notin Ended /\ Exit(p, "failed")

ApplyUp(p) ==
    /\ journal' = journal \cup {target[p]}
    /\ tables' = IF created[p] THEN tables \cup {target[p]} ELSE tables

CommitUp(p) ==
    LET rest == pending[p] \ {target[p]} IN
    /\ pc[p] = "commitUp" /\ ApplyUp(p)
    /\ \/ rest = {} /\ Leave(p, "succeeded")
       \/ /\ rest # {} /\ Goto(p, "createTable") /\ BeginUp(p, rest)
          /\ created' = [created EXCEPT ![p] = FALSE] /\ UNCHANGED <<task, bookkeeping, removed>>

(* The commit happens, and its acknowledgement is lost.                    *)
CommitUpUnacknowledged(p) == pc[p] = "commitUp" /\ ApplyUp(p) /\ Leave(p, "failed")

----------------------------------------------------------------------------
(* down *)

(* Variant: whether the version is still registered is not looked at.      *)
ReadForDownUnregistered(p) ==
    /\ Reads(p, "down")
    /\ \/ journal = {} /\ Exit(p, "succeeded")
       \/ /\ journal # {} /\ Goto(p, "dropTable")
          /\ target' = [target EXCEPT ![p] = Highest(journal)]
          /\ UNCHANGED <<task, bookkeeping, journal, tables, pending, created, removed>>

(* The highest applied version is what the run reverts.  It gives up when  *)
(* that version is no longer registered, or has no down file.              *)
ReadForDown(p) ==
    /\ Reads(p, "down")
    /\ \/ journal = {} /\ Exit(p, "succeeded")
       \/ journal # {} /\ (Ambiguous \/ Highest(journal) \notin DownFiles) /\ Exit(p, "failed")
       \/ /\ journal # {} /\ ~Ambiguous /\ Highest(journal) \in DownFiles
          /\ Goto(p, "dropTable")
          /\ target' = [target EXCEPT ![p] = Highest(journal)]
          /\ UNCHANGED <<task, bookkeeping, journal, tables, pending, created, removed>>

(* DROP TABLE takes the table's lock, and drops nothing if it is gone.     *)
DropTable(p) ==
    /\ pc[p] = "dropTable"
    /\ Dropping(target[p]) = {} /\ Indexing(target[p]) = {}
    /\ created' = [created EXCEPT ![p] = target[p] \in tables]
    /\ Goto(p, "deleteRow")
    /\ UNCHANGED <<task, bookkeeping, journal, tables, pending, target, removed>>

DeleteRow(p) ==
    /\ pc[p] = "deleteRow" /\ Deleting(target[p]) = {}
    /\ removed' = [removed EXCEPT ![p] = target[p] \in journal]
    /\ Goto(p, "commitDown")
    /\ UNCHANGED <<task, bookkeeping, journal, tables, pending, target, created>>

ApplyDown(p) ==
    /\ journal' = IF removed[p] THEN journal \ {target[p]} ELSE journal
    /\ tables' = IF created[p] THEN tables \ {target[p]} ELSE tables

CommitDown(p) == pc[p] = "commitDown" /\ ApplyDown(p) /\ Leave(p, "succeeded")

CommitDownUnacknowledged(p) == pc[p] = "commitDown" /\ ApplyDown(p) /\ Leave(p, "failed")

----------------------------------------------------------------------------
(* The command is given again.                                             *)
Rerun(p) ==
    /\ pc[p] \in Ended /\ Goto(p, "start")
    /\ UNCHANGED <<task, bookkeeping, journal, tables, transaction>>

AdvanceUp(p) == ReadForUp(p) \/ CreateTable(p) \/ InsertRow(p) \/ CommitUp(p)
AdvanceDown(p) == ReadForDown(p) \/ DropTable(p) \/ DeleteRow(p) \/ CommitDown(p)
Advance(p) == Invoke(p) \/ ReadForStatus(p) \/ AdvanceUp(p) \/ AdvanceDown(p)

Next ==
    \E p \in Runners :
        \/ Advance(p) \/ CommitUpUnacknowledged(p) \/ CommitDownUnacknowledged(p)
        \/ StatementFails(p) \/ Rerun(p)

(* The database answers, and its lock queues are first come, first served: *)
(* a statement that can have its lock again and again gets it.             *)
Fairness == \A p \in Runners : SF_vars(Advance(p))

Spec == Init /\ [][Next]_vars /\ Fairness

----------------------------------------------------------------------------
(***************************************************************************)
(* Properties.                                                             *)
(***************************************************************************)
Known == Versions \cup UNION {s.applied : s \in Scenarios}

TypeOK ==
    /\ \E s \in Scenarios : command = s.command /\ files = s.files
    /\ bookkeeping \in BOOLEAN
    /\ journal \subseteq Known /\ tables \subseteq Known
    /\ pc \in [Runners -> Ended \cup {"start", "read", "createTable", "insertRow", "commitUp",
                                     "dropTable", "deleteRow", "commitDown"}]
    /\ pending \in [Runners -> SUBSET Versions]
    /\ target \in [Runners -> Versions \cup {NoVersion}]
    /\ created \in [Runners -> BOOLEAN] /\ removed \in [Runners -> BOOLEAN]

(* The bookkeeping table says what the schema is: a version has its row    *)
(* exactly when its table is there (migrate.ts: "One row per applied       *)
(* version").  It holds while any number of `up` run, and while one `up`   *)
(* and one `down` do, whatever fails in between.  Three runs can break it. *)
JournalMatchesSchema == journal = tables

(* Runs of `up` never leave a version out: if a version is applied, all    *)
(* lower versions are (discoverMigrations sorts, and the first version     *)
(* that fails ends the run).                                               *)
NoGaps ==
    Downs = {} => \A v \in journal : \A w \in Versions : w < v => w \in journal

(* An `up` that exits 0 leaves every version applied, also when another    *)
(* one has applied some of them in the meantime; and a `status` that       *)
(* reports nothing pending stays right.                                    *)
UpCompletes ==
    Downs = {} => \A p \in Ups \cup Commanded("status") :
                      pc[p] = "succeeded" => Versions \subseteq journal

(* The database changes only as a command may change it: an `up` adds      *)
(* versions of the registered files, a `down` takes one whose down file is *)
(* there, no other command changes anything, and none does while two       *)
(* features claim one version (migrate.ts, discoverMigrations and runDown).*)
ChangesAreAsked ==
    [][/\ ~(journal' \subseteq journal /\ tables' \subseteq tables) =>
              /\ ~Ambiguous /\ Ups # {}
              /\ journal' \subseteq journal \cup Versions
              /\ tables' \subseteq tables \cup Versions
       /\ ~(journal \subseteq journal' /\ tables \subseteq tables') =>
              /\ ~Ambiguous /\ Downs # {}
              /\ journal \subseteq journal' \cup DownFiles
              /\ tables \subseteq tables' \cup DownFiles]_vars

(* Every run ends, whoever it has to wait for.                             *)
RunsEnd == \A p \in Runners : pc[p] \notin Ended ~> pc[p] \in Ended
=============================================================================
