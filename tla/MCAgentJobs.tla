---------------------------- MODULE MCAgentJobs ----------------------------
(***************************************************************************)
(* Small instances of AgentJobs.                                           *)
(***************************************************************************)
EXTENDS AgentJobs

MCRuns == Messages \X (0..MaxAttempts)
============================================================================
