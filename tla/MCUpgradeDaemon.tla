-------------------------- MODULE MCUpgradeDaemon --------------------------
(* Instances of UpgradeDaemon for TLC.  The processes are interchangeable:  *)
(* no definition orders them, so they form a symmetry set in the runs that  *)
(* check safety only.                                                       *)
EXTENDS UpgradeDaemon, TLC

ProcSymmetry == Permutations(Procs)

=============================================================================
