-------------------------- MODULE MCPrintExecution --------------------------
(***************************************************************************)
(* Small instances of PrintExecution for TLC.                              *)
(***************************************************************************)
EXTENDS PrintExecutionProps, TLC

\* Three groups, the second with two documents.
ThreeGroups == <<1, 2, 1>>
=============================================================================
