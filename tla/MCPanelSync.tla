------------------------------ MODULE MCPanelSync ------------------------------
(***************************************************************************)
(* Instances of PanelSync for TLC.                                         *)
(***************************************************************************)
EXTENDS PanelSync

\* The second configuration of three is one Normalize refuses.
MCBadConfigs == {2}
===============================================================================
