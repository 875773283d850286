----------------------------- MODULE MCDeployment -----------------------------
(***************************************************************************)
(* TLC instances of a release going out.                                   *)
(***************************************************************************)
EXTENDS DeploymentProperties

CONSTANTS joao, abc

Owners == abc :> joao
=============================================================================
