------------------------- MODULE MCMachineRegistry -------------------------
(* MachineRegistry on small instances: every machine reports one           *)
(* application.                                                            *)
EXTENDS MachineRegistry

TheApp == [m \in Machine |-> CHOOSE a \in App : TRUE]
=============================================================================
