CONSTANTS
    Works = {1, 2}
    Deps <- MCDeps
    Required = {1, 2}
    Attempts = {1, 2}
    Base = Base
    Foreign = Foreign
    None = None
SPECIFICATION Spec
INVARIANT ReadyHasDependencies
