--------------------------- MODULE MCChainIndexer ---------------------------
(***************************************************************************)
(* A factory, one vault and two logs: the vault's creation and a deposit.  *)
(***************************************************************************)
EXTENDS ChainIndexer

CONSTANTS create, deposit, v1

MCEmitter == [t \in Txs |-> IF t = create THEN Factory ELSE v1]
MCCreates == [t \in Txs |-> IF t = create THEN v1 ELSE NoVault]
=============================================================================
