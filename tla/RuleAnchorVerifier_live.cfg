SPECIFICATION FairSpec
CONSTANTS
    contract = contract  deployment2 = deployment2
    root = root  manifest = manifest  other = other
    t1 = t1  t2 = t2  t3 = t3  t4 = t4  t5 = t5
    v1 = v1  v2 = v2
    Address = {contract}
    Root = {root}
    Manifest = {manifest, other}
    Zero = Zero
    NoTx = NoTx
    None = None
    Absent = Absent
    Torn = Torn
    Tx = {t1,t2}
    TxTo <- MCTxTo
    TxCall <- MCTxCall
    MaxHeight = 4
    MaxReorgs = 1
    MaxReorgDepth = 1
    Batch <- OneBatch
    NodeChain = 1
    Verifier = {v1}
    Output = {1}
    Confirmations = 2
    CalmReads = TRUE
    CrashPoints <- WhileWriting
PROPERTIES AnchoringIsEvidenced
