SPECIFICATION FairSpec
CONSTANTS
  Senders = {1, 2}
  Priorities = {1, 2, 3}
  MaxTx = 4
  TxReplacement <- SamePriority
  Txs <- MCTxs
  MaxGas = 3
  MaxBlockTxs = 2
  Width = 5
INVARIANTS IndicesAgree  ProposalAccepted
 
