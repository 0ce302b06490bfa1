------------------------------- MODULE MCFlow -------------------------------
(***************************************************************************)
(* Instances of Flow: paths of up to MaxDepth commands, two exit codes and *)
(* two panic values, every choice of missing hooks.                        *)
(***************************************************************************)
EXTENDS Flow

CONSTANTS exit0, exit1, panic1, panic2

MCExits  == {exit0, exit1}
MCPanics == {panic1, panic2}
=============================================================================
