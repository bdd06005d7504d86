--------------------------- MODULE MCUpgradeOperation ---------------------------
(* Small instances of UpgradeOperation for TLC: who upgrades to what.      *)
EXTENDS UpgradeClaims

CONSTANTS o1, o2

Full == [mode |-> "full", migrates |-> FALSE]
Migrating == [mode |-> "full", migrates |-> TRUE]
Scoped == [mode |-> "frontend_only", migrates |-> FALSE]
Legacy == [mode |-> "v1", migrates |-> FALSE]

(* One operation, of every kind of release. *)
Alone == { [o \in Ops |-> r] : r \in {Full, Migrating, Scoped, Legacy} }

(* Two operations of different releases. *)
Successive == { [o \in Ops |-> IF o = o1 THEN pair[1] ELSE pair[2]] :
                  pair \in { << Migrating, Full >>, << Scoped, Migrating >>, << Legacy, Scoped >> } }
=============================================================================
