SPECIFICATION Spec
CONSTANTS
    p1 = p1
    p2 = p2
    gemini = gemini
    kimi = kimi
    geminiA = geminiA
    geminiB = geminiB
    patched = patched
    stock = stock
    main = main
    title = title
    none = none
    NoBinary = none
    Launchers <- MCLaunchers
    Verifiers <- MCVerifiers
    Probers <- MCProbers
    Conversations = {main}
    Binaries = {geminiA, geminiB}
    Seam <- MCSeam
    Asks <- MCAsks
    Dialect <- MCDialect
    Tools <- MCTools
    Hostnames = "distinct"
    Harnesses = {gemini}
    HarnessOf <- MCHarnessOf
    VersionOf <- MCVersionOf
    First <- MCFirst
    MaxRounds = 1
    MaxUpgrades = 1
INVARIANTS CacheIsTrue GuardActsOnEvidence
PROPERTIES
    GuardDecides
CHECK_DEADLOCK FALSE
