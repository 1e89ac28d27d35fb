----------------------------- MODULE MCRecords -----------------------------
(***************************************************************************)
(* Settings, ChangeLog and StoreOpen for TLC: what is recorded of the      *)
(* changes that administrators make to settings and that a user makes to   *)
(* what he takes, and the file it is recorded in.  They share no table, so *)
(* a behaviour is about one of them.                                       *)
(*                                                                         *)
(* Settings: requests that change a plain setting, a filter, or both,      *)
(* reset them, and one that cannot be accepted.  ChangeLog: two modes, the *)
(* second of which comes and goes, and a category of two services.         *)
(* StoreOpen: three versions of the program, of which the second rebuilds. *)
(***************************************************************************)
EXTENDS Settings, ChangeLog, StoreOpen, TLC

CONSTANTS level, fixed, allow, deny, v, c, x, y, Parts

VARIABLE part

MCSymmetry == Permutations(Putters) \cup Permutations(Rows)

MCBodies ==
    {level :> Unset, deny :> v, allow :> Unset,
     (level :> v) @@ (allow :> v), (level :> v) @@ (fixed :> v),
     (level :> Invalid) @@ (allow :> Default)}

\* With a reset of a setting that the environment overrides.
MCResetBodies == MCBodies \cup {(level :> v) @@ (fixed :> Unset)}

MCCategoryOf == (x :> c) @@ (y :> c)

RecordsInit ==
    /\ SettingsInit /\ LogInit /\ StoreInit /\ part \in Parts
    /\ part # "settings" => row = [k \in Settable |-> Unset]
    /\ part # "store" => /\ db = NoFile
                         /\ script = CHOOSE s \in Scripts : TRUE
                         /\ env = [backup |-> FALSE, restore |-> FALSE]
RecordsNext ==
    \/ part = "settings" /\ SettingsNext
       /\ UNCHANGED <<logVars, storeVars, part>>
    \/ part = "log" /\ LogNext /\ UNCHANGED <<settingsVars, storeVars, part>>
    \/ part = "store" /\ StoreNext
       /\ UNCHANGED <<settingsVars, logVars, part>>
recordsVars == <<settingsVars, logVars, storeVars, part>>
RecordsSpec == RecordsInit /\ [][RecordsNext]_recordsVars

\* With imports the log can be wrong, see log_import_bug.cfg.
WithImports == part = "log" /\ ImportNext
               /\ UNCHANGED <<settingsVars, storeVars, part>>
ImportsSpec == RecordsInit /\ [][RecordsNext \/ WithImports]_recordsVars
=============================================================================
