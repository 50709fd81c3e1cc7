SPECIFICATION Spec
CONSTANTS
    contract = contract  deployment2 = deployment2
    root = root  manifest = manifest  other = other
    t1 = t1  t2 = t2  t3 = t3  t4 = t4  t5 = t5
    v1 = v1  v2 = v2
    Address = {contract}
    Root = {root}
    Manifest = {manifest, other}
    Zero = Zero
    NoTx = NoTx
    None = None
    Absent = Absent
    Torn = Torn
    Tx = {t1}
    TxTo <- MCTxTo
    TxCall <- MCTxCall
    MaxHeight = 5
    MaxReorgs = 1
    MaxReorgDepth = 2
    Batch <- OneBatch
    NodeChain = 1
    Verifier = {v1}
    Output = {1}
    Confirmations = 3
    CalmReads = FALSE
    CrashPoints <- Everywhere
INVARIANTS ConfirmationCountHandlesReorgs
