SPECIFICATION Spec
CONSTANTS
    beam = beam
    target = target
    v1 = v1
    Fields = {beam, target}
    Values = {v1}
    Proposed = Proposed
    None = None
    MaxQuestions = 1
    MaxConstraints = 1
SYMMETRY Symm
INVARIANTS
    AnswersBind
    NotAskedAgain
CHECK_DEADLOCK FALSE
