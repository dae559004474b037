-------------------------- MODULE MCApprovalChain --------------------------
(* A Bond and a Deposit of one account running at once, every failure   *)
(* the code meets enabled, and at most one reorg.                         *)
EXTENDS ApprovalChain

MCMaxReorgs == 1

=============================================================================
