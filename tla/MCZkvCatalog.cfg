SPECIFICATION Spec
CONSTANTS
    None = None
    Names = {x, demo}
    DemoName = demo
    Ids = {a, d}
    DemoId = d
    Cli = {cli}
    Gui = {gui1, gui2}
    MaxOverlaps = 1
    MaxCalls = 4
    MaxCrashes = 1
INVARIANTS FilesAgree
PROPERTIES NeverClobbered NothingUnasked
SYMMETRY GuiSymmetry
CHECK_DEADLOCK FALSE
