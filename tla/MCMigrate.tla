----------------------------- MODULE MCMigrate -----------------------------
(* Small instances of Migrate for TLC. *)
EXTENDS Migrate, TLC

CONSTANTS r1, r2, r3

File(version, down) == [feature |-> version, version |-> version, down |-> down]

Repository == {File(1, TRUE), File(2, TRUE), File(3, TRUE)}

Task(c1, c2, c3, migrations, versions) ==
    [command |-> (r1 :> c1 @@ r2 :> c2 @@ r3 :> c3), files |-> migrations, applied |-> versions]

(* Runs of up, from nothing and from version 1, with a status among them;  *)
(* one up and one down, with version 0 retired and no down file for        *)
(* version 2; two downs; two files for version 2.                          *)
MCScenarios ==
    {Task("up", "up", "up", Repository, {1}),
     Task("up", "up", "up", Repository, {}),
     Task("down", "down", "help", Repository, {1, 2, 3}),
     Task("up", "up", "status", Repository, {}),
     Task("up", "down", "help", {File(1, TRUE), File(2, FALSE), File(3, TRUE)}, {0, 1}),
     Task("status", "down", "unknown", Repository, {}),
     Task("up", "status", "down",
          Repository \cup {[feature |-> 4, version |-> 2, down |-> TRUE]}, {1})}

MCOverlap == {Task("up", "up", "down", Repository, {})}
=============================================================================
