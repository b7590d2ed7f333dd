SPECIFICATION Spec
CONSTANTS
    Confs = {0, 1, 2}
    Epochs = {"blocksync", "blockread", "blockwrite", "downgrade"}
    NearTipTolerance = 1
    SafeDepth = 1
    MaxHeight = 3
INVARIANTS ReadComplete GatesHold
