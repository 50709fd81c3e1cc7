SPECIFICATION Spec
CONSTANTS
    contract = contract  deployment2 = deployment2
    root = root  manifest = manifest  other = other
    t1 = t1  t2 = t2  t3 = t3  t4 = t4  t5 = t5
    v1 = v1  v2 = v2
    Address = {contract, deployment2}
    Root = {root}
    Manifest = {manifest, other}
    Zero = Zero
    NoTx = NoTx
    None = None
    Absent = Absent
    Torn = Torn
    Tx = {t1, t3, t4, t5}
    TxTo <- MCTxTo
    TxCall <- MCTxCall
    MaxHeight = 4
    MaxReorgs = 2
    MaxReorgDepth = 2
    Batch <- FourBatches
    NodeChain = 1
    Verifier = {v1}
    Output = {1}
    Confirmations = 3
    CalmReads = TRUE
    CrashPoints <- Everywhere
INVARIANTS TypeOK LogExplainsStorage EvidenceFinal EvidenceNamesTheAnchor
PROPERTIES EvidenceKept LedgerRefined
