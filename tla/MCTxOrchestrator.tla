-------------------------- MODULE MCTxOrchestrator --------------------------
(* Two concurrent operations of one account, a gas limit of two so that  *)
(* all three receipt kinds exist, and a two-second event timeout.        *)
EXTENDS TxOrchestrator

MCGasLimit == 2
MCEventTimeout == 2
MCMaxClock == 5

=============================================================================
