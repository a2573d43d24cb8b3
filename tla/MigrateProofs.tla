--------------------------- MODULE MigrateProofs ---------------------------
(***************************************************************************)
(* The migration runner for any number of processes, any migration files   *)
(* and any state of the database they find, whatever fails and whoever     *)
(* runs at the same time.                                                  *)
(***************************************************************************)
EXTENDS Migrate, FiniteSetTheorems, WellFoundedInduction, TLAPS

UpWork == {"createTable", "insertRow", "commitUp"}
DownWork == {"dropTable", "deleteRow", "commitDown"}
Resting == Ended \cup {"start", "read"}

(* Who works on a version was told to; an up works on the lowest that is   *)
(* left to it.                                                             *)
Roles ==
    \A p \in Runners :
        /\ pc[p] \in UpWork => /\ p \in Ups /\ target[p] \in pending[p]
                               /\ \A v \in pending[p] : target[p] <= v
        /\ pc[p] \in DownWork => p \in Downs
        /\ pc[p] \notin UpWork => pending[p] = {}

RunsInv == TypeOK /\ Roles /\ IsFiniteSet(journal)

(* Runs that do not get in each other's way: only ups, only downs, or one  *)
(* of each.  With two of one and one of the other the journal can part     *)
(* from the schema.                                                        *)
AtMostOne(R) == \A p, q \in R : p = q
Apart == Downs = {} \/ Ups = {} \/ (AtMostOne(Ups) /\ AtMostOne(Downs))

(* A CREATE that found the table is of a table that is still there.        *)
UpsCreate ==
    \A p \in Ups : pc[p] \in {"insertRow", "commitUp"} /\ ~created[p] => target[p] \in tables

(* One up and one down never work on the same version.                     *)
UpsAddNew == Downs # {} => \A p \in Ups : pending[p] \cap journal = {}
DownsTakeOld == Ups # {} => \A p \in Downs : pc[p] \in DownWork => target[p] \in journal

(* What a down has found is still so, for nobody else may drop that table. *)
DownsDrop ==
    \A p \in Downs :
        /\ pc[p] \in {"deleteRow", "commitDown"} => (created[p] <=> target[p] \in tables)
        /\ pc[p] = "commitDown" => (removed[p] <=> target[p] \in journal)
HasDropped(p) == pc[p] \in {"deleteRow", "commitDown"} /\ created[p]
OneDropper ==
    \A p, q \in Downs : HasDropped(p) /\ HasDropped(q) /\ target[p] = target[q] => p = q

JournalInv ==
    JournalMatchesSchema /\ UpsCreate /\ UpsAddNew /\ DownsTakeOld /\ DownsDrop /\ OneDropper

(* What an up has left behind is applied, as long as nothing is reverted.  *)
UpsCover ==
    Downs = {} => \A p \in Ups : pc[p] \in UpWork => Versions \ pending[p] \subseteq journal

----------------------------------------------------------------------------
(***************************************************************************)
(* The lowest and the highest of some versions.                            *)
(***************************************************************************)
(* A finite set has a highest element: otherwise take one that has none    *)
(* and loses the property with every element.                              *)
LEMMA Greatest ==
    ASSUME NEW S \in SUBSET Nat, IsFiniteSet(S), S # {}
    PROVE  Highest(S) \in S /\ \A v \in S : Highest(S) >= v
<1> DEFINE endless == {T \in FiniteSubsetsOf(Nat) :
                          T # {} /\ ~ \E v \in T : \A w \in T : v >= w}
<1>1. endless = {}
  <2> SUFFICES ASSUME endless # {} PROVE FALSE
    OBVIOUS
  <2>1. endless \subseteq FiniteSubsetsOf(Nat)
    OBVIOUS
  <2>2. IsWellFoundedOn(StrictSubsetOrdering(Nat), FiniteSubsetsOf(Nat))
    BY FS_StrictSubsetOrderingWellFounded
  <2> HIDE DEF endless
  <2>3. PICK T \in endless : \A U \in endless : ~ (<<U, T>> \in StrictSubsetOrdering(Nat))
    BY <2>1, <2>2, WFMin
  <2>4. T \in SUBSET Nat /\ IsFiniteSet(T) /\ T # {} /\ ~ \E v \in T : \A w \in T : v >= w
    BY DEF endless, FiniteSubsetsOf
  <2>5. PICK x \in T : TRUE
    BY <2>4
  <2>6. T \ {x} # {}
    BY <2>4
  <2>7. T \ {x} \in FiniteSubsetsOf(Nat)
    BY <2>4, FS_RemoveElement DEF FiniteSubsetsOf
  <2>8. <<T \ {x}, T>> \in StrictSubsetOrdering(Nat)
    BY <2>4 DEF StrictSubsetOrdering
  <2>9. PICK v \in T \ {x} : \A w \in T \ {x} : v >= w
    BY <2>3, <2>6, <2>7, <2>8 DEF endless
  <2> QED
    BY <2>4, <2>9
<1>2. S \in FiniteSubsetsOf(Nat)
  BY DEF FiniteSubsetsOf
<1>3. \E v \in S : \A w \in S : v >= w
  BY <1>1, <1>2
<1> QED
  BY <1>3 DEF Highest

(* The lowest element is the highest lower bound.                          *)
LEMMA Least ==
    ASSUME NEW S \in SUBSET Nat, S # {}
    PROVE  Lowest(S) \in S /\ \A v \in S : Lowest(S) <= v
<1> DEFINE below == {n \in Nat : \A v \in S : n <= v}
<1>1. PICK top \in S : TRUE
  OBVIOUS
<1>2. below \in SUBSET Nat /\ top \in Nat /\ \A n \in below : n <= top
  OBVIOUS
<1>3. 0 \in below
  OBVIOUS
<1> DEFINE m == Highest(below)
<1>4. m \in below /\ \A n \in below : m >= n
  <2> HIDE DEF below
  <2>1. IsFiniteSet(below)
    BY <1>2, FS_BoundedSetOfNaturals
  <2> QED
    BY <1>2, <1>3, <2>1, Greatest
<1> HIDE DEF m
<1>5. m \in S
  <2> SUFFICES ASSUME m \notin S PROVE FALSE
    OBVIOUS
  <2>1. \A v \in S : m <= v /\ m # v
    BY <1>4
  <2>2. m + 1 \in below
    BY <1>4, <2>1
  <2>3. m >= m + 1 /\ m \in Nat
    BY <1>4, <2>2
  <2> QED
    BY <2>3
<1>6. \A v \in S : m <= v
  BY <1>4
<1> QED
  BY <1>5, <1>6 DEF Lowest

----------------------------------------------------------------------------
(***************************************************************************)
(* What one step can do.                                                   *)
(***************************************************************************)
Stays(q) ==
    /\ pc'[q] = pc[q] /\ pending'[q] = pending[q] /\ target'[q] = target[q]
    /\ created'[q] = created[q] /\ removed'[q] = removed[q]

DatabaseStays == UNCHANGED <<journal, tables>>

(* A run reads, ends, or is given again. *)
Idles(p) ==
    /\ DatabaseStays /\ pc'[p] \in Resting /\ pending'[p] = {}
    /\ pc'[p] = "succeeded" /\ command[p] \in {"up", "status"} => Versions \subseteq journal

StartsUp(p) ==
    /\ DatabaseStays /\ ~Ambiguous /\ p \in Ups /\ pc'[p] = "createTable"
    /\ ~(Versions \subseteq journal) /\ pending'[p] = Versions \ journal
    /\ target'[p] = Lowest(Versions \ journal)

Creates(p) ==
    /\ DatabaseStays /\ pc[p] = "createTable" /\ pc'[p] = "insertRow"
    /\ (created'[p] <=> target[p] \notin tables)
    /\ target'[p] = target[p] /\ pending'[p] = pending[p]

Inserts(p) ==
    /\ DatabaseStays /\ pc[p] = "insertRow" /\ pc'[p] = "commitUp"
    /\ created'[p] = created[p] /\ target'[p] = target[p] /\ pending'[p] = pending[p]

CommitsUp(p) ==
    /\ pc[p] = "commitUp" /\ ApplyUp(p)
    /\ \/ pc'[p] = "failed" /\ pending'[p] = {}
       \/ pc'[p] = "succeeded" /\ pending'[p] = {} /\ pending[p] \ {target[p]} = {}
       \/ /\ pc'[p] = "createTable" /\ pending[p] \ {target[p]} # {}
          /\ pending'[p] = pending[p] \ {target[p]}
          /\ target'[p] = Lowest(pending[p] \ {target[p]})

StartsDown(p) ==
    /\ DatabaseStays /\ p \in Downs /\ journal # {} /\ pc'[p] = "dropTable"
    /\ pending'[p] = {} /\ target'[p] = Highest(journal)
    /\ ~Ambiguous /\ Highest(journal) \in DownFiles

Drops(p) ==
    /\ DatabaseStays /\ pc[p] = "dropTable" /\ pc'[p] = "deleteRow"
    /\ Dropping(target[p]) = {} /\ (created'[p] <=> target[p] \in tables)
    /\ target'[p] = target[p] /\ pending'[p] = pending[p]

Deletes(p) ==
    /\ DatabaseStays /\ pc[p] = "deleteRow" /\ pc'[p] = "commitDown"
    /\ created'[p] = created[p] /\ (removed'[p] <=> target[p] \in journal)
    /\ target'[p] = target[p] /\ pending'[p] = pending[p]

CommitsDown(p) ==
    /\ pc[p] = "commitDown" /\ ApplyDown(p) /\ pc'[p] \in {"succeeded", "failed"}
    /\ pending'[p] = {}

StepOf(p) ==
    \/ Idles(p) \/ StartsUp(p) \/ Creates(p) \/ Inserts(p) \/ CommitsUp(p)
    \/ StartsDown(p) \/ Drops(p) \/ Deletes(p) \/ CommitsDown(p)

RunStep(p) ==
    \/ Advance(p) \/ CommitUpUnacknowledged(p) \/ CommitDownUnacknowledged(p)
    \/ StatementFails(p) \/ Rerun(p)

LEMMA KnownAreNumbers ==
    ASSUME TypeOK
    PROVE  Versions \subseteq Nat /\ Known \subseteq Nat
<1>1. PICK s \in Scenarios : files = s.files
  BY DEF TypeOK
<1>2. Versions \subseteq Nat
  BY <1>1, ScenariosAssumption DEF Versions
<1>3. \A t \in Scenarios : t.applied \subseteq Nat
  BY ScenariosAssumption
<1> QED
  BY <1>2, <1>3 DEF Known

(* The process exits. *)
LEMMA Leaving ==
    ASSUME TypeOK, NEW p \in Runners, NEW how \in Ended, Leave(p, how)
    PROVE  /\ UNCHANGED task
           /\ \A q \in Runners \ {p} : Stays(q)
           /\ pc'[p] = how /\ pending'[p] = {} /\ target'[p] = NoVersion
           /\ pc' \in [Runners -> Resting \cup UpWork \cup DownWork]
           /\ pending' \in [Runners -> SUBSET Versions]
           /\ target' \in [Runners -> Versions \cup {NoVersion}]
           /\ created' \in [Runners -> BOOLEAN] /\ removed' \in [Runners -> BOOLEAN]
           /\ bookkeeping' = bookkeeping
  BY DEF TypeOK, Leave, Goto, Stays, Resting, UpWork, DownWork

TypedRuns ==
    /\ pc \in [Runners -> Resting \cup UpWork \cup DownWork]
    /\ pending \in [Runners -> SUBSET Versions]
    /\ target \in [Runners -> Versions \cup {NoVersion}]
    /\ created \in [Runners -> BOOLEAN] /\ removed \in [Runners -> BOOLEAN]
    /\ bookkeeping \in BOOLEAN

LEMMA TypeParts ==
    TypeOK <=> /\ \E s \in Scenarios : command = s.command /\ files = s.files
               /\ journal \subseteq Known /\ tables \subseteq Known
               /\ TypedRuns
<1>1. Resting \cup UpWork \cup DownWork =
          Ended \cup {"start", "read", "createTable", "insertRow", "commitUp",
                      "dropTable", "deleteRow", "commitDown"}
  BY DEF Resting, UpWork, DownWork
<1> QED
  BY <1>1 DEF TypeOK, TypedRuns

(* A step of a run changes nothing of another run, and is of one of nine   *)
(* kinds.                                                                  *)
Own(p) == UNCHANGED task /\ (\A q \in Runners \ {p} : Stays(q)) /\ TypedRuns'

LEMMA Leaves ==
    ASSUME RunsInv, NEW p \in Runners, NEW how \in Ended, Leave(p, how)
    PROVE  Own(p) /\ pc'[p] = how /\ pending'[p] = {}
<1>1. TypeOK /\ bookkeeping \in BOOLEAN
  BY DEF RunsInv, TypeOK
<1>2. Versions' = Versions
  BY Leaving, <1>1 DEF Versions, task
<1> QED
  BY <1>1, <1>2, Leaving DEF Own, TypedRuns

LEMMA ExitIdles ==
    ASSUME RunsInv, NEW p \in Runners, NEW how \in Ended, Exit(p, how),
           how = "succeeded" /\ command[p] \in {"up", "status"} => Versions \subseteq journal
    PROVE  Own(p) /\ Idles(p)
  BY Leaves DEF Exit, Idles, DatabaseStays, Resting

LEMMA StepIs ==
    ASSUME RunsInv, NEW p \in Runners, RunStep(p)
    PROVE  Own(p) /\ StepOf(p)
<1>1. TypedRuns /\ Roles /\ TypeOK
  BY TypeParts DEF RunsInv
<1>2. UNCHANGED task => Versions' = Versions
  BY DEF Versions, task
<1>3. CASE Invoke(p)
  <2>1. CASE command[p] = "help" /\ Exit(p, "succeeded")
    BY <2>1, ExitIdles DEF StepOf, Ended
  <2>2. CASE command[p] = "unknown" /\ Exit(p, "failed")
    BY <2>2, ExitIdles DEF StepOf, Ended
  <2>3. CASE /\ command[p] \in {"up", "status", "down"}
             /\ bookkeeping' = TRUE /\ Goto(p, "read")
             /\ UNCHANGED <<task, journal, tables, transaction>>
    <3>1. pending[p] = {}
      BY <1>1, <1>3 DEF Invoke, Roles, UpWork
    <3>2. Own(p)
      BY <1>1, <1>2, <2>3 DEF Own, TypedRuns, Goto, Stays, transaction, Resting
    <3>3. pc'[p] = "read"
      BY <1>1, <2>3 DEF TypedRuns, Goto
    <3> QED
      BY <2>3, <3>1, <3>2, <3>3 DEF StepOf, Idles, DatabaseStays, Resting, transaction
  <2> QED
    BY <1>3, <2>1, <2>2, <2>3 DEF Invoke
<1>4. CASE ReadForStatus(p)
  <2> DEFINE how == IF Ambiguous THEN "failed"
                    ELSE IF Versions \subseteq journal THEN "succeeded" ELSE "behind"
  <2>1. how \in Ended /\ (how = "succeeded" => Versions \subseteq journal) /\ Exit(p, how)
    BY <1>4 DEF ReadForStatus, Ended
  <2> HIDE DEF how
  <2> QED
    BY <2>1, ExitIdles DEF StepOf
<1>5. CASE ReadForUp(p)
  <2>1. CASE Ambiguous /\ Exit(p, "failed")
    BY <2>1, ExitIdles DEF StepOf, Ended
  <2>2. CASE ~Ambiguous /\ Versions \subseteq journal /\ Exit(p, "succeeded")
    BY <2>2, ExitIdles DEF StepOf, Ended
  <2>3. CASE /\ ~Ambiguous /\ ~(Versions \subseteq journal)
             /\ Goto(p, "createTable") /\ BeginUp(p, Versions \ journal)
             /\ UNCHANGED <<task, bookkeeping, journal, tables, created, removed>>
    <3>1. Lowest(Versions \ journal) \in Versions
      BY <1>1, <2>3, Least, KnownAreNumbers
    <3>2. Own(p)
      BY <1>1, <1>2, <2>3, <3>1 DEF Own, TypedRuns, Goto, BeginUp, Stays, UpWork
    <3>3. /\ pc'[p] = "createTable" /\ pending'[p] = Versions \ journal
          /\ target'[p] = Lowest(Versions \ journal) /\ p \in Ups
      BY <1>1, <1>5, <2>3 DEF TypedRuns, Goto, BeginUp, ReadForUp, Reads, Ups, Commanded
    <3> QED
      BY <2>3, <3>2, <3>3 DEF StepOf, StartsUp, DatabaseStays
  <2> QED
    BY <1>5, <2>1, <2>2, <2>3 DEF ReadForUp
<1>6. CASE CreateTable(p)
  <2>1. Own(p)
    BY <1>1, <1>2, <1>6 DEF CreateTable, Own, TypedRuns, Goto, Stays, UpWork
  <2>2. Creates(p)
    BY <1>1, <1>6 DEF CreateTable, Creates, TypedRuns, Goto, DatabaseStays
  <2> QED
    BY <2>1, <2>2 DEF StepOf
<1>7. CASE InsertRow(p)
  <2>1. CASE target[p] \in journal /\ Exit(p, "failed")
    BY <2>1, ExitIdles DEF StepOf, Ended
  <2>2. CASE /\ target[p] \notin journal /\ Goto(p, "commitUp")
             /\ UNCHANGED <<task, bookkeeping, journal, tables, pending, target, created, removed>>
    <3>1. Own(p)
      BY <1>1, <1>2, <2>2 DEF Own, TypedRuns, Goto, Stays, UpWork
    <3>2. Inserts(p)
      BY <1>1, <1>7, <2>2 DEF InsertRow, Inserts, TypedRuns, Goto, DatabaseStays
    <3> QED
      BY <3>1, <3>2 DEF StepOf
  <2> QED
    BY <1>7, <2>1, <2>2 DEF InsertRow
<1>8. CASE CommitUp(p)
  <2> DEFINE rest == pending[p] \ {target[p]}
  <2>1. pc[p] = "commitUp" /\ ApplyUp(p)
    BY <1>8 DEF CommitUp
  <2>2. CASE rest = {} /\ Leave(p, "succeeded")
    BY <2>1, <2>2, Leaves DEF StepOf, CommitsUp, Ended
  <2>3. CASE /\ rest # {} /\ Goto(p, "createTable") /\ BeginUp(p, rest)
             /\ created' = [created EXCEPT ![p] = FALSE] /\ UNCHANGED <<task, bookkeeping, removed>>
    <3>1. rest \in SUBSET Versions
      BY <1>1 DEF TypedRuns
    <3>2. Lowest(rest) \in Versions
      BY <1>1, <2>3, <3>1, Least, KnownAreNumbers
    <3> HIDE DEF rest
    <3>3. Own(p)
      BY <1>1, <1>2, <2>3, <3>1, <3>2 DEF Own, TypedRuns, Goto, BeginUp, Stays, UpWork
    <3>4. pc'[p] = "createTable" /\ pending'[p] = rest /\ target'[p] = Lowest(rest)
      BY <1>1, <2>3 DEF TypedRuns, Goto, BeginUp
    <3> QED
      BY <2>1, <2>3, <3>3, <3>4 DEF StepOf, CommitsUp, rest
  <2> QED
    BY <1>8, <2>2, <2>3 DEF CommitUp
<1>9. CASE CommitUpUnacknowledged(p)
  <2>1. pc[p] = "commitUp" /\ ApplyUp(p) /\ Leave(p, "failed")
    BY <1>9 DEF CommitUpUnacknowledged
  <2> QED
    BY <2>1, Leaves DEF StepOf, CommitsUp, Ended
<1>10. CASE ReadForDown(p)
  <2>1. p \in Downs /\ command[p] = "down"
    BY <1>10 DEF ReadForDown, Reads, Downs, Commanded
  <2>2. CASE Exit(p, "succeeded") \/ Exit(p, "failed")
    BY <2>1, <2>2, ExitIdles DEF StepOf, Ended
  <2>3. CASE /\ journal # {} /\ ~Ambiguous /\ Highest(journal) \in DownFiles
             /\ Goto(p, "dropTable")
             /\ target' = [target EXCEPT ![p] = Highest(journal)]
             /\ UNCHANGED <<task, bookkeeping, journal, tables, pending, created, removed>>
    <3>1. Highest(journal) \in Versions
      BY <2>3 DEF DownFiles, Versions
    <3>2. Own(p)
      BY <1>1, <1>2, <2>3, <3>1 DEF Own, TypedRuns, Goto, Stays, DownWork
    <3>3. pending[p] = {}
      BY <1>1, <1>10 DEF ReadForDown, Reads, Roles, UpWork
    <3>4. pc'[p] = "dropTable" /\ target'[p] = Highest(journal)
      BY <1>1, <2>3 DEF TypedRuns, Goto
    <3> QED
      BY <2>1, <2>3, <3>2, <3>3, <3>4 DEF StepOf, StartsDown, DatabaseStays
  <2> QED
    BY <1>10, <2>2, <2>3 DEF ReadForDown
<1>11. CASE DropTable(p)
  <2>1. Own(p)
    BY <1>1, <1>2, <1>11 DEF DropTable, Own, TypedRuns, Goto, Stays, DownWork
  <2>2. Drops(p)
    BY <1>1, <1>11 DEF DropTable, Drops, TypedRuns, Goto, DatabaseStays
  <2> QED
    BY <2>1, <2>2 DEF StepOf
<1>12. CASE DeleteRow(p)
  <2>1. Own(p)
    BY <1>1, <1>2, <1>12 DEF DeleteRow, Own, TypedRuns, Goto, Stays, DownWork
  <2>2. Deletes(p)
    BY <1>1, <1>12 DEF DeleteRow, Deletes, TypedRuns, Goto, DatabaseStays
  <2> QED
    BY <2>1, <2>2 DEF StepOf
<1>13. CASE CommitDown(p)
  BY <1>13, Leaves DEF CommitDown, StepOf, CommitsDown, Ended
<1>14. CASE CommitDownUnacknowledged(p)
  BY <1>14, Leaves DEF CommitDownUnacknowledged, StepOf, CommitsDown, Ended
<1>15. CASE StatementFails(p)
  BY <1>15, ExitIdles DEF StatementFails, StepOf, Ended
<1>16. CASE Rerun(p)
  <2>1. /\ pc[p] \in Ended /\ Goto(p, "start")
        /\ UNCHANGED <<task, bookkeeping, journal, tables, transaction>>
    BY <1>16 DEF Rerun
  <2>2. pending[p] = {}
    BY <1>1, <2>1 DEF Roles, UpWork, Ended
  <2>3. Own(p)
    BY <1>1, <1>2, <2>1 DEF Own, TypedRuns, Goto, Stays, transaction, Resting
  <2>4. pc'[p] = "start"
    BY <1>1, <2>1 DEF TypedRuns, Goto
  <2> QED
    BY <2>1, <2>2, <2>3, <2>4 DEF StepOf, Idles, DatabaseStays, Resting, transaction
<1> QED
  BY <1>3, <1>4, <1>5, <1>6, <1>7, <1>8, <1>9, <1>10, <1>11, <1>12, <1>13, <1>14, <1>15, <1>16
     DEF RunStep, Advance, AdvanceUp, AdvanceDown

----------------------------------------------------------------------------
(***************************************************************************)
(* Types, and what each run is at.                                         *)
(***************************************************************************)
LEMMA TypePartsNext ==
    TypeOK' <=> /\ \E s \in Scenarios : command' = s.command /\ files' = s.files
                /\ journal' \subseteq Known' /\ tables' \subseteq Known'
                /\ TypedRuns'
<1>1. Resting \cup UpWork \cup DownWork =
          Ended \cup {"start", "read", "createTable", "insertRow", "commitUp",
                      "dropTable", "deleteRow", "commitDown"}
  BY DEF Resting, UpWork, DownWork
<1> QED
  BY <1>1 DEF TypeOK, TypedRuns

LEMMA TaskStays ==
    ASSUME UNCHANGED task
    PROVE  /\ Ups' = Ups /\ Downs' = Downs /\ Versions' = Versions /\ Known' = Known
           /\ Commanded("status")' = Commanded("status") /\ command' = command /\ files' = files
           /\ Ambiguous' = Ambiguous /\ DownFiles' = DownFiles
  BY DEF task, Ups, Downs, Commanded, Versions, Known, Ambiguous, DownFiles

LEMMA RunsStep ==
    ASSUME RunsInv, NEW p \in Runners, RunStep(p)
    PROVE  RunsInv'
<1>1. Own(p) /\ StepOf(p) /\ UNCHANGED task /\ \A q \in Runners \ {p} : Stays(q)
  BY StepIs DEF Own
<1>2. TypeOK /\ TypedRuns /\ Roles /\ IsFiniteSet(journal)
  BY TypeParts DEF RunsInv
<1>3. /\ Ups' = Ups /\ Downs' = Downs /\ Versions' = Versions /\ Known' = Known
      /\ command' = command /\ files' = files
  BY <1>1, TaskStays
<1>4. pc[p] = "commitUp" => target[p] \in Versions
  BY <1>2 DEF Roles, UpWork, TypedRuns
<1>5. journal' \subseteq Known /\ tables' \subseteq Known /\ IsFiniteSet(journal')
  <2>1. journal \subseteq Known /\ tables \subseteq Known
    BY <1>2, TypeParts
  <2>2. CASE DatabaseStays
    BY <1>2, <2>1, <2>2 DEF DatabaseStays
  <2>3. CASE CommitsUp(p)
    BY <1>2, <1>4, <2>1, <2>3, FS_AddElement DEF CommitsUp, ApplyUp, Known
  <2>4. CASE CommitsDown(p)
    BY <1>2, <2>1, <2>4, FS_RemoveElement DEF CommitsDown, ApplyDown
  <2> QED
    BY <1>1, <2>2, <2>3, <2>4
       DEF StepOf, Idles, StartsUp, Creates, Inserts, StartsDown, Drops, Deletes
<1>6. TypeOK'
  <2>1. \E s \in Scenarios : command' = s.command /\ files' = s.files
    BY <1>2, <1>3, TypeParts
  <2> QED
    BY <1>1, <1>3, <1>5, <2>1, TypePartsNext DEF Own
<1> DEFINE role(q) == /\ pc[q] \in UpWork => /\ q \in Ups /\ target[q] \in pending[q]
                                             /\ \A v \in pending[q] : target[q] <= v
                      /\ pc[q] \in DownWork => q \in Downs
                      /\ pc[q] \notin UpWork => pending[q] = {}
<1>7. ASSUME NEW q \in Runners \ {p}
      PROVE  role(q)'
  BY <1>1, <1>2, <1>3 DEF Roles, Stays
<1>8. role(p)'
  <2>1. role(p)
    BY <1>2 DEF Roles
  <2>2. CASE Idles(p)
    BY <2>2 DEF Idles, Resting, Ended, UpWork, DownWork
  <2>3. CASE StartsUp(p)
    <3>1. Versions \ journal \in SUBSET Nat /\ Versions \ journal # {}
      BY <1>2, <2>3, KnownAreNumbers DEF StartsUp
    <3> QED
      BY <1>3, <2>3, <3>1, Least DEF StartsUp, UpWork, DownWork
  <2>4. CASE Creates(p) \/ Inserts(p)
    BY <1>3, <2>1, <2>4 DEF Creates, Inserts, UpWork, DownWork
  <2>5. CASE CommitsUp(p)
    <3> DEFINE rest == pending[p] \ {target[p]}
    <3>1. CASE pc'[p] \in Ended /\ pending'[p] = {}
      BY <3>1 DEF Ended, UpWork, DownWork
    <3>2. CASE /\ pc'[p] = "createTable" /\ rest # {} /\ pending'[p] = rest
               /\ target'[p] = Lowest(rest)
      <4>1. rest \in SUBSET Nat
        BY <1>2, KnownAreNumbers DEF TypedRuns
      <4>2. Lowest(rest) \in rest /\ \A v \in rest : Lowest(rest) <= v
        BY <3>2, <4>1, Least
      <4>3. p \in Ups
        BY <2>1, <2>5 DEF CommitsUp, UpWork
      <4> HIDE DEF rest
      <4> QED
        BY <1>3, <3>2, <4>2, <4>3 DEF UpWork, DownWork
    <3> QED
      BY <2>5, <3>1, <3>2 DEF CommitsUp, Ended
  <2>6. CASE StartsDown(p)
    BY <1>3, <2>6 DEF StartsDown, UpWork, DownWork
  <2>7. CASE Drops(p) \/ Deletes(p)
    BY <1>3, <2>1, <2>7 DEF Drops, Deletes, UpWork, DownWork
  <2>8. CASE CommitsDown(p)
    BY <2>8 DEF CommitsDown, UpWork, DownWork
  <2> QED
    BY <1>1, <2>2, <2>3, <2>4, <2>5, <2>6, <2>7, <2>8 DEF StepOf
<1>9. Roles'
  <2>1. \A q \in Runners : role(q)'
    BY <1>7, <1>8
  <2> QED
    BY <2>1 DEF Roles
<1> QED
  BY <1>5, <1>6, <1>9 DEF RunsInv

LEMMA RunsInitially == Init => RunsInv
<1> SUFFICES ASSUME Init PROVE RunsInv
  OBVIOUS
<1>1. PICK s \in Scenarios : /\ command = s.command /\ files = s.files
                             /\ journal = s.applied /\ tables = s.applied
                             /\ bookkeeping = (s.applied # {})
  BY DEF Init
<1>2. /\ pc = [p \in Runners |-> "start"] /\ pending = [p \in Runners |-> {}]
      /\ target = [p \in Runners |-> NoVersion]
      /\ created = [p \in Runners |-> FALSE] /\ removed = [p \in Runners |-> FALSE]
  BY DEF Init
<1>3. bookkeeping \in BOOLEAN
  BY <1>1, Zenon
<1>4. TypedRuns
  BY <1>2, <1>3 DEF TypedRuns, Resting
<1>5. TypeOK
  BY <1>1, <1>4, TypeParts DEF Known
<1>6. Roles
  BY <1>2 DEF Roles, UpWork, DownWork
<1>7. IsFiniteSet(journal)
  BY <1>1, ScenariosAssumption
<1> QED
  BY <1>5, <1>6, <1>7 DEF RunsInv

LEMMA NextIsRunStep == Next <=> \E p \in Runners : RunStep(p)
  BY DEF Next, RunStep

LEMMA RunsStutter ==
    ASSUME UNCHANGED vars
    PROVE  /\ UNCHANGED task /\ DatabaseStays /\ bookkeeping' = bookkeeping
           /\ pc' = pc /\ pending' = pending /\ target' = target
           /\ created' = created /\ removed' = removed
  BY DEF vars, transaction, DatabaseStays

LEMMA RunsInvariant == Spec => []RunsInv
<1>1. Init => RunsInv
  BY RunsInitially
<1>2. RunsInv /\ [Next]_vars => RunsInv'
  <2>1. CASE Next
    BY <2>1, NextIsRunStep, RunsStep
  <2>2. ASSUME RunsInv, UNCHANGED vars PROVE RunsInv'
    <3>1. /\ Ups' = Ups /\ Downs' = Downs /\ Versions' = Versions /\ Known' = Known
          /\ command' = command /\ files' = files
      BY <2>2, RunsStutter, TaskStays
    <3>2. TypeOK'
      BY <2>2, <3>1, RunsStutter, TypeParts, TypePartsNext
         DEF RunsInv, TypedRuns, DatabaseStays
    <3> QED
      BY <2>2, <3>1, <3>2, RunsStutter DEF RunsInv, Roles, DatabaseStays
  <2> QED
    BY <2>1, <2>2
<1> QED
  BY <1>1, <1>2, PTL DEF Spec

(* Every run works on versions there are files for, and the journal and    *)
(* the schema hold nothing but those and what was found.                   *)
THEOREM MigrateTyped == Spec => []TypeOK
<1>1. RunsInv => TypeOK
  BY DEF RunsInv
<1> QED
  BY <1>1, RunsInvariant, PTL

----------------------------------------------------------------------------
(***************************************************************************)
(* The journal and the schema.                                             *)
(***************************************************************************)
LEMMA JournalStep ==
    ASSUME RunsInv, Apart, JournalInv, NEW p \in Runners, RunStep(p)
    PROVE  JournalInv'
<1>1. StepOf(p) /\ UNCHANGED task /\ \A q \in Runners \ {p} : Stays(q)
  BY StepIs DEF Own
<1>2. TypeOK /\ TypedRuns /\ Roles /\ IsFiniteSet(journal)
  BY TypeParts DEF RunsInv
<1>3. Ups' = Ups /\ Downs' = Downs /\ Ups \subseteq Runners /\ Downs \subseteq Runners
  BY <1>1, TaskStays DEF Ups, Downs, Commanded
<1>4. journal = tables
  BY DEF JournalInv, JournalMatchesSchema
<1>5. CommitsUp(p) => p \in Ups /\ target[p] \in pending[p]
  BY <1>2 DEF CommitsUp, Roles, UpWork
<1>6. CommitsDown(p) => p \in Downs
  BY <1>2 DEF CommitsDown, Roles, DownWork
<1>7. DatabaseStays \/ CommitsUp(p) \/ CommitsDown(p)
  BY <1>1 DEF StepOf, Idles, StartsUp, Creates, Inserts, StartsDown, Drops, Deletes
<1>8. CommitsUp(p) => journal' = journal \cup {target[p]} /\ tables' = tables \cup {target[p]}
  <2> SUFFICES ASSUME CommitsUp(p)
               PROVE  journal' = journal \cup {target[p]} /\ tables' = tables \cup {target[p]}
    OBVIOUS
  <2>1. /\ journal' = journal \cup {target[p]}
        /\ tables' = IF created[p] THEN tables \cup {target[p]} ELSE tables
    BY DEF CommitsUp, ApplyUp
  <2>2. ~created[p] => target[p] \in tables
    BY <1>5 DEF JournalInv, UpsCreate, CommitsUp
  <2> QED
    BY <2>1, <2>2
<1>9. CommitsDown(p) => /\ journal' = journal \ {target[p]} /\ tables' = tables \ {target[p]}
                        /\ created[p] <=> target[p] \in tables
  <2> SUFFICES ASSUME CommitsDown(p)
               PROVE  /\ journal' = journal \ {target[p]} /\ tables' = tables \ {target[p]}
                      /\ created[p] <=> target[p] \in tables
    OBVIOUS
  <2>1. /\ journal' = IF removed[p] THEN journal \ {target[p]} ELSE journal
        /\ tables' = IF created[p] THEN tables \ {target[p]} ELSE tables
    BY DEF CommitsDown, ApplyDown
  <2>2. /\ created[p] <=> target[p] \in tables
        /\ removed[p] <=> target[p] \in journal
    BY <1>6 DEF JournalInv, DownsDrop, CommitsDown
  <2> QED
    BY <2>1, <2>2
<1>10. JournalMatchesSchema'
  BY <1>4, <1>7, <1>8, <1>9 DEF JournalMatchesSchema, DatabaseStays
<1>11. UpsCreate'
  <2> SUFFICES ASSUME NEW q \in Ups, pc'[q] \in {"insertRow", "commitUp"}, ~created'[q]
               PROVE  target'[q] \in tables'
    BY <1>3 DEF UpsCreate
  <2>1. CASE q # p
    <3>1. target'[q] = target[q] /\ target[q] \in tables /\ target[q] \in pending[q]
      BY <1>1, <1>2, <1>3, <2>1 DEF JournalInv, UpsCreate, Stays, Roles, UpWork
    <3>2. ~CommitsDown(p)
      BY <1>4, <1>6, <3>1 DEF JournalInv, UpsAddNew
    <3> QED
      BY <1>7, <1>8, <3>1, <3>2 DEF DatabaseStays
  <2>2. CASE q = p
    <3>1. Creates(p) \/ Inserts(p)
      BY <1>1, <2>2 DEF StepOf, Idles, StartsUp, CommitsUp, StartsDown, Drops, Deletes,
                        CommitsDown, Resting, Ended
    <3> QED
      BY <2>2, <3>1 DEF Creates, Inserts, DatabaseStays, JournalInv, UpsCreate
  <2> QED
    BY <2>1, <2>2
<1>12. UpsAddNew'
  <2> SUFFICES ASSUME Downs # {}, NEW q \in Ups
               PROVE  pending'[q] \cap journal' = {}
    BY <1>3 DEF UpsAddNew
  <2>1. pending[q] \cap journal = {} /\ AtMostOne(Ups)
    BY DEF JournalInv, UpsAddNew, Apart
  <2>2. CASE q # p
    <3>1. pending'[q] = pending[q]
      BY <1>1, <1>3, <2>2 DEF Stays
    <3>2. ~CommitsUp(p)
      BY <1>5, <2>1, <2>2 DEF AtMostOne
    <3> QED
      BY <1>7, <1>9, <2>1, <3>1, <3>2 DEF DatabaseStays
  <2>3. CASE q = p
    <3>1. CASE CommitsUp(p)
      BY <1>8, <2>1, <2>3, <3>1 DEF CommitsUp
    <3>2. CASE StartsUp(p)
      BY <2>3, <3>2 DEF StartsUp, DatabaseStays
    <3>3. CASE pending'[p] = {}
      BY <2>3, <3>3
    <3>4. CASE Creates(p) \/ Inserts(p) \/ Drops(p) \/ Deletes(p)
      BY <2>1, <2>3, <3>4 DEF Creates, Inserts, Drops, Deletes, DatabaseStays
    <3> QED
      BY <1>1, <3>1, <3>2, <3>3, <3>4 DEF StepOf, Idles, StartsDown, CommitsDown
  <2> QED
    BY <2>2, <2>3
<1>13. DownsTakeOld'
  <2> SUFFICES ASSUME Ups # {}, NEW q \in Downs, pc'[q] \in DownWork
               PROVE  target'[q] \in journal'
    BY <1>3 DEF DownsTakeOld
  <2>1. AtMostOne(Downs) /\ (pc[q] \in DownWork => target[q] \in journal)
    BY DEF JournalInv, DownsTakeOld, Apart
  <2>2. CASE q # p
    <3>1. target'[q] = target[q] /\ target[q] \in journal
      BY <1>1, <1>3, <2>1, <2>2 DEF Stays
    <3>2. ~CommitsDown(p)
      BY <1>6, <2>1, <2>2 DEF AtMostOne
    <3> QED
      BY <1>7, <1>8, <3>1, <3>2 DEF DatabaseStays
  <2>3. CASE q = p
    <3>1. StartsDown(p) \/ Drops(p) \/ Deletes(p)
      BY <1>1, <2>3 DEF StepOf, Idles, StartsUp, Creates, Inserts, CommitsUp, CommitsDown,
                        Resting, Ended, DownWork
    <3>2. CASE StartsDown(p)
      <4>1. journal \in SUBSET Nat
        BY <1>2, TypeParts, KnownAreNumbers
      <4> QED
        BY <1>2, <2>3, <3>2, <4>1, Greatest DEF StartsDown, DatabaseStays
    <3>3. CASE Drops(p) \/ Deletes(p)
      BY <2>1, <2>3, <3>3 DEF Drops, Deletes, DatabaseStays, DownWork
    <3> QED
      BY <3>1, <3>2, <3>3
  <2> QED
    BY <2>2, <2>3
<1> DEFINE found(q) ==
        /\ pc[q] \in {"deleteRow", "commitDown"} => (created[q] <=> target[q] \in tables)
        /\ pc[q] = "commitDown" => (removed[q] <=> target[q] \in journal)
<1>14. ASSUME NEW q \in Downs
       PROVE  found(q)'
  <2>1. found(q)
    BY DEF JournalInv, DownsDrop
  <2>2. CASE q # p
    <3>1. /\ pc'[q] = pc[q] /\ target'[q] = target[q]
          /\ created'[q] = created[q] /\ removed'[q] = removed[q]
      BY <1>1, <1>3, <2>2 DEF Stays
    <3>2. CASE DatabaseStays
      BY <2>1, <3>1, <3>2 DEF DatabaseStays
    <3>3. CASE CommitsUp(p)
      <4>1. pc[q] \in DownWork => target[q] \in journal
        BY <1>5, <3>3 DEF JournalInv, DownsTakeOld
      <4> QED
        BY <1>4, <1>8, <2>1, <3>1, <3>3, <4>1 DEF DownWork
    <3>4. CASE CommitsDown(p)
      <4>1. pc[q] \in {"deleteRow", "commitDown"} /\ target[q] = target[p] =>
                target[p] \notin tables
        BY <1>6, <1>9, <2>1, <2>2, <3>4 DEF JournalInv, OneDropper, HasDropped, CommitsDown
      <4> QED
        BY <1>4, <1>9, <2>1, <3>1, <3>4, <4>1
    <3> QED
      BY <1>7, <3>2, <3>3, <3>4
  <2>3. CASE q = p
    <3>1. CASE Drops(p)
      BY <2>3, <3>1 DEF Drops, DatabaseStays
    <3>2. CASE Deletes(p)
      BY <2>1, <2>3, <3>2 DEF Deletes, DatabaseStays
    <3>3. CASE pc'[p] \notin {"deleteRow", "commitDown"}
      BY <2>3, <3>3
    <3> QED
      BY <1>1, <3>1, <3>2, <3>3 DEF StepOf, Idles, StartsUp, Creates, Inserts, CommitsUp,
                                    StartsDown, CommitsDown, Resting, Ended
  <2> QED
    BY <2>2, <2>3
<1>15. DownsDrop'
  BY <1>3, <1>14 DEF DownsDrop
<1>16. OneDropper'
  <2>1. ASSUME NEW q \in Downs, q # p
        PROVE  (HasDropped(q)' <=> HasDropped(q)) /\ target'[q] = target[q]
    BY <1>1, <1>3, <2>1 DEF Stays, HasDropped
  <2>2. HasDropped(p)' => \/ HasDropped(p) /\ target'[p] = target[p]
                          \/ Dropping(target[p]) = {} /\ target'[p] = target[p]
    BY <1>1 DEF StepOf, Idles, StartsUp, Creates, Inserts, CommitsUp, StartsDown, Drops,
                Deletes, CommitsDown, Resting, Ended, HasDropped
  <2>3. ASSUME NEW q \in Downs, q # p, HasDropped(p)', HasDropped(q)', target'[p] = target'[q],
               p \in Downs
        PROVE  FALSE
    <3>1. HasDropped(q) /\ target[q] = target[p]
      BY <2>1, <2>2, <2>3
    <3>2. q \in Dropping(target[p])
      BY <3>1 DEF Dropping, HasDropped
    <3> QED
      BY <2>2, <2>3, <3>1, <3>2 DEF JournalInv, OneDropper
  <2>4. ASSUME NEW q \in Downs, NEW r \in Downs, HasDropped(q)', HasDropped(r)',
               target'[q] = target'[r]
        PROVE  q = r
    <3>1. CASE q # p /\ r # p
      BY <2>1, <2>4, <3>1 DEF JournalInv, OneDropper
    <3>2. CASE q = p \/ r = p
      BY <2>3, <2>4, <3>2
    <3> QED
      BY <3>1, <3>2
  <2> QED
    BY <1>3, <2>4 DEF OneDropper
<1> QED
  BY <1>10, <1>11, <1>12, <1>13, <1>15, <1>16 DEF JournalInv

(* The runs of a scenario do not get in each other's way.                  *)
KeepApart(s) ==
    LET told(c) == {p \in Runners : s.command[p] = c} IN
    told("down") = {} \/ told("up") = {} \/ (AtMostOne(told("up")) /\ AtMostOne(told("down")))

(* Any number of ups, or of downs, or one of each, leave the journal and   *)
(* the schema in agreement, whatever fails in between, and although a      *)
(* commit may go unacknowledged (migrate.ts, applyUp and applyDown).       *)
THEOREM JournalIsTheSchema ==
    ASSUME \A s \in Scenarios : KeepApart(s)
    PROVE  Spec => []JournalMatchesSchema
<1>1. Init => Apart /\ JournalInv
  <2> SUFFICES ASSUME Init PROVE Apart /\ JournalInv
    OBVIOUS
  <2>1. PICK s \in Scenarios : command = s.command /\ journal = s.applied /\ tables = s.applied
    BY DEF Init
  <2>2. KeepApart(s)
    OBVIOUS
  <2>3. Apart
    BY <2>1, <2>2 DEF KeepApart, Apart, Ups, Downs, Commanded
  <2>4. /\ pc = [p \in Runners |-> "start"] /\ pending = [p \in Runners |-> {}]
    BY DEF Init
  <2>5. Ups \subseteq Runners /\ Downs \subseteq Runners
    BY DEF Ups, Downs, Commanded
  <2> QED
    BY <2>1, <2>3, <2>4, <2>5 DEF JournalInv, JournalMatchesSchema, UpsCreate, UpsAddNew,
       DownsTakeOld, DownsDrop, OneDropper, HasDropped, DownWork
<1>2. RunsInv /\ Apart /\ JournalInv /\ [Next]_vars => (Apart /\ JournalInv)'
  <2> SUFFICES ASSUME RunsInv, Apart, JournalInv, [Next]_vars PROVE (Apart /\ JournalInv)'
    OBVIOUS
  <2>1. CASE Next
    <3>1. PICK p \in Runners : RunStep(p)
      BY <2>1, NextIsRunStep
    <3>2. JournalInv' /\ UNCHANGED task
      BY <3>1, JournalStep, StepIs DEF Own
    <3> QED
      BY <3>2, TaskStays DEF Apart
  <2>2. CASE UNCHANGED vars
    <3>1. Ups' = Ups /\ Downs' = Downs
      BY <2>2, RunsStutter, TaskStays
    <3> QED
      BY <2>2, <3>1, RunsStutter DEF Apart, JournalInv, JournalMatchesSchema, UpsCreate,
         UpsAddNew, DownsTakeOld, DownsDrop, OneDropper, HasDropped, DatabaseStays
  <2> QED
    BY <2>1, <2>2
<1>3. JournalInv => JournalMatchesSchema
  BY DEF JournalInv
<1> QED
  BY <1>1, <1>2, <1>3, RunsInvariant, PTL DEF Spec

----------------------------------------------------------------------------
(***************************************************************************)
(* Runs of up.                                                             *)
(***************************************************************************)
(* As long as nothing is reverted, the journal only grows.                 *)
LEMMA JournalGrows ==
    ASSUME RunsInv, Downs = {}, NEW p \in Runners, RunStep(p)
    PROVE  journal \subseteq journal'
<1>1. StepOf(p) /\ Roles
  BY StepIs DEF RunsInv
<1>2. ~CommitsDown(p)
  BY <1>1 DEF CommitsDown, Roles, DownWork
<1> QED
  BY <1>1, <1>2 DEF StepOf, Idles, StartsUp, Creates, Inserts, CommitsUp, ApplyUp, StartsDown,
     Drops, Deletes, DatabaseStays

LEMMA UpsCoverStep ==
    ASSUME RunsInv, UpsCover, NEW p \in Runners, RunStep(p)
    PROVE  UpsCover'
<1>1. StepOf(p) /\ UNCHANGED task /\ \A q \in Runners \ {p} : Stays(q)
  BY StepIs DEF Own
<1>2. Ups' = Ups /\ Downs' = Downs /\ Versions' = Versions /\ Ups \subseteq Runners
  BY <1>1, TaskStays DEF Ups, Commanded
<1> SUFFICES ASSUME Downs = {}, NEW q \in Ups, pc'[q] \in UpWork
             PROVE  Versions \ pending'[q] \subseteq journal'
  BY <1>2 DEF UpsCover
<1>3. journal \subseteq journal'
  BY JournalGrows
<1>4. CASE q # p
  BY <1>1, <1>2, <1>3, <1>4 DEF UpsCover, Stays
<1>5. CASE q = p
  <2>1. CASE StartsUp(p)
    BY <1>5, <2>1 DEF StartsUp, DatabaseStays
  <2>2. CASE Creates(p) \/ Inserts(p)
    BY <1>3, <1>5, <2>2 DEF Creates, Inserts, UpsCover, UpWork
  <2>3. CASE CommitsUp(p)
    <3>1. pending'[p] = pending[p] \ {target[p]} /\ journal' = journal \cup {target[p]}
      BY <1>5, <2>3 DEF CommitsUp, ApplyUp, UpWork
    <3>2. Versions \ pending[p] \subseteq journal
      BY <1>5, <2>3 DEF CommitsUp, UpsCover, UpWork
    <3> QED
      BY <1>5, <3>1, <3>2
  <2> QED
    BY <1>1, <1>5, <2>1, <2>2, <2>3 DEF StepOf, Idles, StartsDown, Drops, Deletes, CommitsDown,
       UpWork, Resting, Ended
<1> QED
  BY <1>4, <1>5

LEMMA UpsCoverStutter ==
    ASSUME UpsCover, UNCHANGED vars
    PROVE  UpsCover'
  BY RunsStutter, TaskStays DEF UpsCover, DatabaseStays

LEMMA UpsCoverInvariant == Spec => []UpsCover
<1>1. Init => UpsCover
  BY DEF Init, UpsCover, Ups, Commanded, UpWork
<1>2. RunsInv /\ UpsCover /\ [Next]_vars => UpsCover'
  BY NextIsRunStep, UpsCoverStep, UpsCoverStutter
<1> QED
  BY <1>1, <1>2, RunsInvariant, PTL DEF Spec

(* Runs of up that find no version left out leave none out: they apply in  *)
(* ascending order, and stop at the first that fails.                      *)
FoundWithoutGaps(s) ==
    \A v \in s.applied : \A f \in s.files : f.version < v => f.version \in s.applied

THEOREM UpsLeaveNoGaps ==
    ASSUME \A s \in Scenarios : FoundWithoutGaps(s)
    PROVE  Spec => []NoGaps
<1>1. Init => NoGaps
  BY DEF Init, NoGaps, FoundWithoutGaps, Versions
<1>2. RunsInv /\ UpsCover /\ NoGaps /\ [Next]_vars => NoGaps'
  <2> SUFFICES ASSUME RunsInv, UpsCover, NoGaps, [Next]_vars PROVE NoGaps'
    OBVIOUS
  <2>1. CASE UNCHANGED vars
    BY <2>1, RunsStutter, TaskStays DEF NoGaps, DatabaseStays
  <2>2. CASE Next
    <3>1. PICK p \in Runners : RunStep(p)
      BY <2>2, NextIsRunStep
    <3>2. StepOf(p) /\ UNCHANGED task /\ Roles
      BY <3>1, StepIs DEF Own, RunsInv
    <3>3. Downs' = Downs /\ Versions' = Versions
      BY <3>2, TaskStays
    <3> SUFFICES ASSUME Downs = {}, NEW v \in journal', NEW w \in Versions, w < v
                 PROVE  w \in journal'
      BY <3>3 DEF NoGaps
    <3>4. journal \subseteq journal'
      BY <3>1, JournalGrows
    <3>5. CASE v \in journal
      BY <3>4, <3>5 DEF NoGaps
    <3>6. CASE v \notin journal
      <4>1. CommitsUp(p) /\ v = target[p]
        BY <3>2, <3>6 DEF StepOf, Idles, StartsUp, Creates, Inserts, CommitsUp, ApplyUp,
           StartsDown, Drops, Deletes, CommitsDown, ApplyDown, DatabaseStays
      <4>2. /\ p \in Ups /\ pc[p] \in UpWork /\ \A u \in pending[p] : target[p] <= u
            /\ target[p] \in pending[p]
        BY <3>2, <4>1 DEF CommitsUp, Roles, UpWork
      <4>3. Versions \subseteq Nat /\ pending[p] \subseteq Versions
        BY KnownAreNumbers, TypeParts DEF RunsInv, TypedRuns
      <4>4. w \notin pending[p]
        <5>1. w \in Nat /\ target[p] \in Nat /\ w < target[p]
          BY <4>1, <4>2, <4>3
        <5>2. ~(target[p] <= w)
          BY <5>1
        <5> QED
          BY <4>2, <5>2
      <4> QED
        BY <3>4, <4>2, <4>4 DEF UpsCover
    <3> QED
      BY <3>5, <3>6
  <2> QED
    BY <2>1, <2>2
<1> QED
  BY <1>1, <1>2, RunsInvariant, UpsCoverInvariant, PTL DEF Spec

(* An up that exits 0 has left nothing pending, even if others have done   *)
(* its work, and what a status has reported stays true.                    *)
THEOREM UpsComplete == Spec => []UpCompletes
<1>1. Init => UpCompletes
  BY DEF Init, UpCompletes, Ups, Commanded
<1>2. RunsInv /\ UpsCover /\ UpCompletes /\ [Next]_vars => UpCompletes'
  <2> SUFFICES ASSUME RunsInv, UpsCover, UpCompletes, [Next]_vars PROVE UpCompletes'
    OBVIOUS
  <2>1. CASE UNCHANGED vars
    BY <2>1, RunsStutter, TaskStays DEF UpCompletes, DatabaseStays
  <2>2. CASE Next
    <3>1. PICK p \in Runners : RunStep(p)
      BY <2>2, NextIsRunStep
    <3>2. StepOf(p) /\ UNCHANGED task /\ Roles /\ \A q \in Runners \ {p} : Stays(q)
      BY <3>1, StepIs DEF Own, RunsInv
    <3>3. /\ Ups' = Ups /\ Downs' = Downs /\ Versions' = Versions
          /\ Commanded("status")' = Commanded("status")
      BY <3>2, TaskStays
    <3> SUFFICES ASSUME Downs = {}, NEW q \in Ups \cup Commanded("status"), pc'[q] = "succeeded"
                 PROVE  Versions \subseteq journal'
      BY <3>3 DEF UpCompletes
    <3>4. journal \subseteq journal'
      BY <3>1, JournalGrows
    <3>5. q \in Runners /\ command[q] \in {"up", "status"}
      BY DEF Ups, Commanded
    <3>6. CASE q # p
      BY <3>2, <3>4, <3>5, <3>6 DEF Stays, UpCompletes
    <3>7. CASE q = p
      <4>1. CASE Idles(p)
        BY <3>4, <3>5, <3>7, <4>1 DEF Idles
      <4>2. CASE CommitsUp(p)
        <5>1. pending[p] \ {target[p]} = {} /\ journal' = journal \cup {target[p]}
          BY <3>7, <4>2 DEF CommitsUp, ApplyUp
        <5>2. Versions \ pending[p] \subseteq journal
          BY <3>2, <4>2 DEF CommitsUp, Roles, UpsCover, UpWork
        <5> QED
          BY <5>1, <5>2
      <4>3. ~CommitsDown(p)
        BY <3>2 DEF CommitsDown, Roles, DownWork
      <4> QED
        BY <3>2, <3>7, <4>1, <4>2, <4>3 DEF StepOf, StartsUp, Creates, Inserts, StartsDown,
           Drops, Deletes
    <3> QED
      BY <3>6, <3>7
  <2> QED
    BY <2>1, <2>2
<1> QED
  BY <1>1, <1>2, RunsInvariant, UpsCoverInvariant, PTL DEF Spec

----------------------------------------------------------------------------
(***************************************************************************)
(* What may change at all.                                                 *)
(***************************************************************************)
(* Who works on a version found each version claimed once, and a down that *)
(* works found the down file.                                              *)
Permitted ==
    \A p \in Runners :
        /\ pc[p] \in UpWork \cup DownWork => ~Ambiguous
        /\ pc[p] \in DownWork => target[p] \in DownFiles

LEMMA PermittedStep ==
    ASSUME RunsInv, Permitted, NEW p \in Runners, RunStep(p)
    PROVE  Permitted'
<1>1. StepOf(p) /\ UNCHANGED task /\ \A q \in Runners \ {p} : Stays(q)
  BY StepIs DEF Own
<1>2. Ambiguous' = Ambiguous /\ DownFiles' = DownFiles
  BY <1>1, TaskStays
<1> DEFINE permitted(q) == /\ pc[q] \in UpWork \cup DownWork => ~Ambiguous
                           /\ pc[q] \in DownWork => target[q] \in DownFiles
<1>3. ASSUME NEW q \in Runners \ {p}
      PROVE  permitted(q)'
  BY <1>1, <1>2 DEF Permitted, Stays
<1>4. permitted(p)'
  <2>1. CASE StartsUp(p) \/ StartsDown(p)
    BY <1>2, <2>1 DEF StartsUp, StartsDown, DownWork
  <2>2. CASE Creates(p) \/ Inserts(p) \/ CommitsUp(p)
    BY <1>2, <2>2 DEF Creates, Inserts, CommitsUp, Permitted, UpWork, DownWork
  <2>3. CASE Drops(p) \/ Deletes(p)
    BY <1>2, <2>3 DEF Drops, Deletes, Permitted, DownWork
  <2>4. CASE Idles(p) \/ CommitsDown(p)
    BY <2>4 DEF Idles, CommitsDown, UpWork, DownWork, Resting, Ended
  <2> QED
    BY <1>1, <2>1, <2>2, <2>3, <2>4 DEF StepOf
<1> QED
  BY <1>3, <1>4 DEF Permitted

LEMMA PermittedInvariant == Spec => []Permitted
<1>1. Init => Permitted
  BY DEF Init, Permitted, UpWork, DownWork
<1>2. UNCHANGED vars /\ Permitted => Permitted'
  BY RunsStutter, TaskStays DEF Permitted
<1>3. RunsInv /\ Permitted /\ [Next]_vars => Permitted'
  BY <1>2, NextIsRunStep, PermittedStep
<1> QED
  BY <1>1, <1>3, RunsInvariant, PTL DEF Spec

(* The commits of transactions are the only steps that change the journal  *)
(* or the schema, and they do what their command may do, whatever runs     *)
(* beside them (migrate.ts: runUp, runDown, discoverMigrations).           *)
THEOREM OnlyWhatWasAsked == Spec => ChangesAreAsked
<1> DEFINE Asked ==
        /\ ~(journal' \subseteq journal /\ tables' \subseteq tables) =>
               /\ ~Ambiguous /\ Ups # {}
               /\ journal' \subseteq journal \cup Versions
               /\ tables' \subseteq tables \cup Versions
        /\ ~(journal \subseteq journal' /\ tables \subseteq tables') =>
               /\ ~Ambiguous /\ Downs # {}
               /\ journal \subseteq journal' \cup DownFiles
               /\ tables \subseteq tables' \cup DownFiles
<1>1. ASSUME RunsInv, Permitted, NEW p \in Runners, RunStep(p)
      PROVE  Asked
  <2>1. StepOf(p) /\ Roles /\ TypedRuns
    BY <1>1, StepIs, TypeParts DEF RunsInv
  <2>2. CASE CommitsUp(p)
    <3>1. /\ journal' = journal \cup {target[p]} /\ tables \subseteq tables'
          /\ tables' \subseteq tables \cup {target[p]}
      BY <2>2 DEF CommitsUp, ApplyUp
    <3>2. /\ p \in Ups /\ target[p] \in Versions /\ ~Ambiguous
      BY <1>1, <2>1, <2>2 DEF CommitsUp, Roles, Permitted, UpWork, TypedRuns
    <3> QED
      BY <3>1, <3>2
  <2>3. CASE CommitsDown(p)
    <3>1. /\ journal' \subseteq journal /\ tables' \subseteq tables
          /\ journal \subseteq journal' \cup {target[p]}
          /\ tables \subseteq tables' \cup {target[p]}
      BY <2>3 DEF CommitsDown, ApplyDown
    <3>2. /\ p \in Downs /\ target[p] \in DownFiles /\ ~Ambiguous
      BY <1>1, <2>1, <2>3 DEF CommitsDown, Roles, Permitted, DownWork
    <3> QED
      BY <3>1, <3>2
  <2>4. CASE DatabaseStays
    BY <2>4 DEF DatabaseStays
  <2> QED
    BY <2>1, <2>2, <2>3, <2>4
       DEF StepOf, Idles, StartsUp, Creates, Inserts, StartsDown, Drops, Deletes
<1> HIDE DEF Asked
<1>2. RunsInv /\ Permitted /\ [Next]_vars => [Asked]_vars
  BY <1>1, NextIsRunStep
<1>3. Spec => [][Asked]_vars
  BY <1>2, RunsInvariant, PermittedInvariant, PTL DEF Spec
<1> QED
  BY <1>3 DEF ChangesAreAsked, Asked
=============================================================================
