---------------------------- MODULE MCModuleSystem ----------------------------
(* The instance of ModuleSystem that TLC checks: an entry and two more files. *)
EXTENDS ModuleSystem
CONSTANTS entry, a, b

MCModules == {entry, a, b}
===============================================================================
