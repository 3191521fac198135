---------------------------- MODULE MCWorkflowRoutes ----------------------------
(* An instance of WorkflowRoutes: the issue and its pull request are model values. *)
EXTENDS WorkflowRoutes
================================================================================
