-------------------------------- MODULE MCMvcc --------------------------------
EXTENDS Mvcc, TLC

TxSymmetry == Permutations(Txs)
=============================================================================
