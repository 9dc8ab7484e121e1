\* A folder the user names root: mkdir root, then cd root twice.  The
\* editor is not fed keys here.
CONSTANTS
    Names = {"root", "a"}
    MaxFiles = 20
    CharIndices = {}
    Controls = {}
    MaxLines = 0
    MaxChars = 0
SPECIFICATION Spec
PROPERTY ImplementsAbstract
