----------------------------- MODULE MCControls -----------------------------
(* Instances for TLC of the controls on orders and of the broker's orders: *)
(* one run explores each component on its own, the others staying where    *)
(* they start.                                                             *)
EXTENDS KillSwitch, AutoGovernor, IbPort

CONSTANTS o1, o2

VARIABLE focus    \* the component that moves

controlVars == <<focus, vars, governorVars, portVars>>

\* A bracket of two shares with a target, one of one share without.
TheShares == [o \in Orders |-> IF o = o1 THEN 2 ELSE 1]

ControlsInit ==
  /\ focus \in {"switch", "governor", "port"}
  /\ Init /\ GovernorInit /\ PortInit
  /\ focus # "switch" => row = "off" /\ cache = Miss /\ \A s \in Strategies : mode[s] = "OFF"

ControlsNext ==
  \/ focus = "switch"   /\ Next /\ UNCHANGED <<focus, governorVars, portVars>>
  \/ focus = "governor" /\ GovernorNext /\ UNCHANGED <<focus, vars, portVars>>
  \/ focus = "port"     /\ PortNext /\ UNCHANGED <<focus, vars, governorVars>>

ControlsSpec == ControlsInit /\ [][ControlsNext]_controlVars

\* Every variable of the three keeps its type.
TypesOK == TypeOK /\ GovernorTypeOK /\ PortTypeOK
=============================================================================
