SPECIFICATION Spec
CONSTANTS
    Times = {0, 1, 2}
    Nothing = Nothing
    MaxSequence = 7
PROPERTIES
    ImplementsAgenda
