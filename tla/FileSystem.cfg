\* terminal1's file commands over the initial tree, on a new name (a), an
\* initial folder (Text) and the initial document (doc), with the editor
\* fed the arrows, Esc, one character (x, index 88) and backspace.  Enter
\* is left out: FileSystemEnter.cfg shows it halts the kernel.
CONSTANTS
    Names = {"doc"}
    MaxFiles = 20
    CharIndices = {88, 95}
    Controls = {"up", "down", "esc"}
    MaxLines = 2
    MaxChars = 1
SPECIFICATION Spec
INVARIANTS FsTypeOK NamesUnique EditorCursorInBuffer
PROPERTY ImplementsAbstract
