CONSTANTS
    Pairs = {p1, p2}
    Rule = r1
    Rules = {r1, r2}
    Unmatched = unmatched
    Visual = visual
    Navigation = navigation
    Categories = {visual, navigation}
    Category <- MCCategory
    Scopes <- MCScopes
    Verdicts <- MCVerdicts
    RoundDrift <- MCRoundDrift
    Sources = {w1, w2}
    Captures = {c1}
    Audits = {a1}
    None = None
    MaxCatalog = 6
    MaxSaves = 2
SYMMETRY Symmetric
SPECIFICATION Spec
INVARIANTS NothingForgotten SoundReport
PROPERTIES FreshRelease HonestRelease AuthenticRelease
CHECK_DEADLOCK FALSE
