SPECIFICATION Spec
CONSTANTS
    Bases <- Deployments
    MaxEdits = 2
INVARIANT TypeOK
INVARIANT AcceptedIsWhole
PROPERTY ServesWhenItCan
