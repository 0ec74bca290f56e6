\* A corridor junction under programs that keep yellow and green apart.
CONSTANTS
    ma = ma
    tu = tu
    rt = rt
    cr = cr
    pm = pm
    pc = pc
    gMain = gMain
    gTurn = gTurn
    gCross = gCross
    Unresolved = Unresolved
    None = None
    Links = {ma, tu, rt, cr, pm, pc}
    VehicleLinks = {ma, tu, rt, cr}
    MainLinks = {ma}
    CrossLinks = {cr}
    Groups = {gMain, gTurn, gCross}
    PriorityGroups = {gMain, gTurn}
    LinksOf <- MCLinksOf
    Foes <- MCFoes
    MinYellow = 2
    MinAllRed = 1
    PedestrianPhaseRequired = TRUE
    BindingEnabled = TRUE
    Compiled <- MCCompiled
    TlsPrograms <- MCTlsPrograms
    Replacements <- MCReplacements
SPECIFICATION Spec
INVARIANTS
    OverridesBalance
    OverriddenProgramsVerify
PROPERTIES
    GreenOnlyAfterFoesAreRed
