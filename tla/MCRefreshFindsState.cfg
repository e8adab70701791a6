SPECIFICATION Spec
CONSTANT Interface = {1, 2}
PROPERTIES RefreshFindsState
