SPECIFICATION Spec
CONSTANTS
    pred = pred
    xy = xy
    yx = yx
    iff = iff
    NoFact = NoFact
    Fact <- Facts
    Symm <- SymmOfFacts
    Rewrite <- Rewritten
    Steps <- ClientSteps
    Literals <- AssertedLiterals
    Queries <- AskedFacts
    Rewrites <- ForcedFacts
    Premises <- GeneratorPremises
    MaxNodes = 5
    MaxLevel = 1
    MaxGenerators = 1
    MaxLemmas = 1
INVARIANTS
    Acyclic
    StepsSound
    Connected
    LemmasStayClosed
PROPERTY StepsKept
