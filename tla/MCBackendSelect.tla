--------------------------- MODULE MCBackendSelect --------------------------
(* BackendSelect alone for TLC, on all targets.                             *)
EXTENDS BackendSelect, MCTargets
=============================================================================
