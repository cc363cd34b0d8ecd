SPECIFICATION Spec
CONSTANTS
    zero = zero
    one = one
    qnan = qnan
    N = 4
    Numbers = {zero, one}
    Zero = zero
    Indefinite = qnan
    Empty = empty
    Negative = {qnan}
    Less <- LessMC
    Unary <- UnaryMC
    Binary <- BinaryMC
    LogExact = FALSE
VIEW View
INVARIANT TypeOK
PROPERTY StackRefined
