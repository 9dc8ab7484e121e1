----------------------------- MODULE FileSystem -----------------------------
(***************************************************************************)
(* file/file_system.rs and file/mod.rs, driven by the file commands of     *)
(* terminal1's print_keypresses (cd, mk, mkdir, rm, edit).  The state is   *)
(* FileSystem's two fields: the tree of FileNodes under root, and path,    *)
(* the names from the root to the current folder.  Every operation walks   *)
(* path from the root by name (index_folder, retrieve), changes the folder *)
(* it reaches, and writes the copies back up to the root.  A name is a     *)
(* string; a content (Vec<Vec<char>>) is a sequence of lines, each a      *)
(* sequence of character codes.  edit runs the editor loop of terminal1,   *)
(* fed by the flags that keyboard.rs and vga_buffer.rs set on keypresses.  *)
(***************************************************************************)
EXTENDS Naturals, Sequences, SequencesExt, Functions, FiniteSets, TLC

CONSTANTS
    Names,      \* parameters the user types after cd, mk, mkdir, rm, edit
    MaxFiles,   \* mk and mkdir are not issued once the tree holds this many files
    CharIndices,\* EDIT_CHAR indices the user types: code - 32, 95 for backspace
    Controls,   \* of "up", "down", "enter", "esc": the other keys the editor reads
    MaxLines,   \* no down, enter or character once the last buffer has this many lines
    MaxChars    \* characters are not typed once the buffer holds this many

Document == "Document"
Folder == "Folder"
Empty == << >>          \* Vec::new()
Text == << << 116 >> >> \* the lines initial::init writes, cut to one line "t"
Backspace == 95         \* the EDIT_CHAR index of backspace (0x7f - 32)
RootName == "root"

VARIABLES
    root,       \* FileSystem.root
    path,       \* FileSystem.path
    panicked,   \* an unwrap() of Err or a panic halted the kernel
    editing,    \* EDITING_1
    para,       \* the name edit was given
    content,    \* the editor's buffer, content of the edit handler
    vec_cur,    \* the editor's line, 0-based
    flags,      \* EDIT_UP, EDIT_DOWN, EDIT_ENTER and IF_ESC, by control key
    edit_char   \* the indices i with EDIT_CHAR[i] set

editor == << editing, para, content, vec_cur, flags, edit_char >>
vars == << root, path, panicked, editor >>

\* FileNode::new: no children and no content.  access is never read.
NewNode(name, type) ==
    [file_name |-> name, file_type |-> type, children |-> << >>, content |-> Empty]

Doc(name) == [NewNode(name, Document) EXCEPT !.content = Text]

Folded(name, kids) == [NewNode(name, Folder) EXCEPT !.children = kids]

CompilerDocs == << "type", "calculate", "if", "for", "while", "sleep", "breakpoint",
                   "random", "error1", "error2", "error3", "error4", "error5", "error6" >>

\* FileSystem::new() followed by initial::init.
InitialRoot ==
    Folded(RootName,
        << Doc("doc"),
           Folded("Text", << NewNode("Document1", Document), NewNode("Document2", Document) >>),
           Folded("Compiler", [i \in 1 .. Len(CompilerDocs) |-> Doc(CompilerDocs[i])]) >>)

\* The first child called n, 0 if none: the loops of retrieve and
\* index_folder compare names only, whatever the type.
Position(node, n) == SelectInSeq(node.children, LAMBDA c : c.file_name = n)

(***************************************************************************)
(* The walk of index_folder, retrieve and list over path: a component      *)
(* named "root" is skipped; otherwise the walk enters the first child of   *)
(* that name and records its index, or, when there is none, goes on from  *)
(* an empty Document.  Returns the node reached and the indices.           *)
(***************************************************************************)
RECURSIVE WalkFrom(_, _, _)
WalkFrom(node, p, idx) ==
    IF p = << >> THEN << node, idx >>
    ELSE IF Head(p) = RootName THEN WalkFrom(node, Tail(p), idx)
    ELSE LET i == Position(node, Head(p)) IN
         IF i = 0 THEN WalkFrom(NewNode("", Document), Tail(p), idx)
         ELSE WalkFrom(node.children[i], Tail(p), Append(idx, i))

Current == WalkFrom(root, path, << >>)[1]
index_folder == WalkFrom(root, path, << >>)[2]

\* retrieve(n): the first child of the current folder called n.
Found(n) == Position(Current, n) # 0
Retrieved(n) == Current.children[Position(Current, n)]

(***************************************************************************)
(* The end of add_file, remove_file and edit_file: vec_filenode holds the  *)
(* nodes along index_folder; the last is replaced by leaf and each is      *)
(* written back at its index into its parent, up to the new root.          *)
(***************************************************************************)
RECURSIVE NodeAt(_, _)
NodeAt(node, idx) == IF idx = << >> THEN node ELSE NodeAt(node.children[Head(idx)], Tail(idx))

RECURSIVE WrittenBack(_, _, _)
WrittenBack(node, idx, leaf) ==
    IF idx = << >> THEN leaf
    ELSE [node EXCEPT !.children[Head(idx)] = WrittenBack(@, Tail(idx), leaf)]

\* vec_filenode[len-1], the folder the three operations change.
LastFolder == NodeAt(root, index_folder)

\* add_file: Err when a file of that name but of the other type exists;
\* otherwise push the node to the current folder's children.
AddFileErr(f) == Found(f.file_name) /\ Retrieved(f.file_name).file_type # f.file_type

AddFile(f) ==
    WrittenBack(root, index_folder, [LastFolder EXCEPT !.children = Append(@, f)])

\* remove_file: Err unless a file of that name and type exists; otherwise
\* count to the first child of that name (len_children when there is
\* none) and shift the later ones left over it.
RemoveFileErr(f) == ~Found(f.file_name) \/ Retrieved(f.file_name).file_type # f.file_type

\* (Mutant: the counting loop without its break, which counts every child.)
RemovedIndexNoBreak(d, n) == Len(d.children)

RemovedIndex(d, n) == IF Position(d, n) = 0 THEN Len(d.children) ELSE Position(d, n)

RemoveFile(f) ==
    WrittenBack(root, index_folder,
                [LastFolder EXCEPT !.children = RemoveAt(@, RemovedIndex(LastFolder, f.file_name))])

\* edit_file: Err unless a Document of that name exists; otherwise put the
\* retrieved file, its content replaced, at the first child of that name.
EditFileErr(n) == ~Found(n) \/ Retrieved(n).file_type # Document

EditFile(n, c) ==
    WrittenBack(root, index_folder,
                [LastFolder EXCEPT !.children[Position(LastFolder, n)] = [Retrieved(n) EXCEPT !.content = c]])

\* The files of a tree, each at its path of names below the root.
RECURSIVE FilesBelow(_, _)
FilesBelow(node, p) ==
    UNION { { << Append(p, c.file_name), c >> } \cup FilesBelow(c, Append(p, c.file_name))
            : c \in { node.children[i] : i \in 1 .. Len(node.children) } }

FileCount == Cardinality(FilesBelow(root, << >>))

-----------------------------------------------------------------------------
(* terminal1's commands, each the whole branch of print_keypresses.  The  *)
(* task runs them one at a time, and none while it is in the editor loop.  *)

Controls0 == {"up", "down", "enter", "esc"}

Init ==
    /\ root = InitialRoot /\ path = << RootName >> /\ panicked = FALSE
    /\ editing = FALSE /\ para = RootName /\ content = Empty /\ vec_cur = 0
    /\ flags = [k \in Controls0 |-> FALSE] /\ edit_char = {}

\* A command of terminal1 can run: the kernel is up and no edit is open.
Idle == ~panicked /\ ~editing

\* cd ..: outof_forlder, which keeps the root.
CdUp ==
    /\ Idle
    /\ path' = IF Len(path) = 1 THEN path ELSE Front(path)
    /\ UNCHANGED << root, panicked, editor >>

\* (Mutant: into_folder enters whatever retrieve finds.)
CdAnyType(n) ==
    /\ Idle
    /\ path' = IF Found(n) THEN Append(path, n) ELSE path
    /\ UNCHANGED << root, panicked, editor >>

\* cd n: into_folder, which enters n if retrieve finds a Folder.
Cd(n) ==
    /\ Idle
    /\ path' = IF Found(n) /\ Retrieved(n).file_type = Folder THEN Append(path, n) ELSE path
    /\ UNCHANGED << root, panicked, editor >>

\* (Mutant: mk and mkdir left to add_file's own test.)
MakeUnchecked(n, t) ==
    /\ Idle
    /\ FileCount < MaxFiles
    /\ root' = AddFile(NewNode(n, t))
    /\ panicked' = AddFileErr(NewNode(n, t))
    /\ UNCHANGED << path, editor >>

\* mk n / mkdir n: "The file exsits" if retrieve finds n, else
\* add_file(FileNode::new(n, t)).unwrap().
Make(n, t) ==
    /\ Idle
    /\ ~Found(n) => FileCount < MaxFiles
    /\ IF Found(n) THEN UNCHANGED << root, panicked >>
       ELSE /\ root' = AddFile(NewNode(n, t))
            /\ panicked' = AddFileErr(NewNode(n, t))
    /\ UNCHANGED << path, editor >>

\* rm n: remove_file(retrieved file).unwrap() if retrieve finds n.
Rm(n) ==
    /\ Idle
    /\ IF Found(n) THEN /\ root' = RemoveFile(Retrieved(n))
                        /\ panicked' = RemoveFileErr(Retrieved(n))
       ELSE UNCHANGED << root, panicked >>
    /\ UNCHANGED << path, editor >>

\* edit n: read_file(n, true) is Err for a missing file or a folder;
\* otherwise EDITING_1 is set and the loop starts on a cursor past the
\* last line, with the flags as earlier keypresses left them.
Edit(n) ==
    /\ Idle
    /\ IF Found(n) /\ Retrieved(n).file_type = Document
       THEN /\ editing' = TRUE /\ para' = n
            /\ content' = Retrieved(n).content
            /\ vec_cur' = Len(Retrieved(n).content)
       ELSE UNCHANGED << editing, para, content, vec_cur >>
    /\ UNCHANGED << root, path, panicked, flags, edit_char >>

-----------------------------------------------------------------------------
(* The keyboard task and the editor loop.                                  *)

\* The lines and characters of the buffer, for the bounds on typing.
CharCount(buf) == FoldSeq(LAMBDA l, acc : acc + Len(l), 0, buf)

(***************************************************************************)
(* A key the keyboard task decodes.  Enter and characters set EDIT_ENTER   *)
(* and EDIT_CHAR only while EDITING_1; the arrows reach line_up and        *)
(* line_down and Esc reaches write_byte 0x1b, which set EDIT_UP, EDIT_DOWN *)
(* and IF_ESC before any test, so in any mode.                             *)
(***************************************************************************)
KeyControl(k) ==
    /\ ~panicked
    /\ k = "enter" => editing
    /\ k \in {"down", "enter"} => Len(content) < MaxLines
    /\ flags' = [flags EXCEPT ![k] = TRUE]
    /\ UNCHANGED << root, path, panicked, editing, para, content, vec_cur, edit_char >>

KeyChar(i) ==
    /\ ~panicked /\ editing /\ Len(content) < MaxLines
    /\ i # Backspace => CharCount(content) < MaxChars
    /\ edit_char' = edit_char \cup {i}
    /\ UNCHANGED << root, path, panicked, editing, para, content, vec_cur, flags >>

\* task2's sleep command, at its end, takes an Esc pressed meanwhile:
\* IF_ESC is one flag for both terminals.
Task2TakesEsc ==
    /\ ~panicked /\ flags["esc"]
    /\ flags' = [flags EXCEPT !["esc"] = FALSE]
    /\ UNCHANGED << root, path, panicked, editing, para, content, vec_cur, edit_char >>

\* vec_cur += 1 on EDIT_DOWN, after a new line is pushed at the end.
\* (Mutant: the push for a cursor at the end dropped.)
DownNoPush(buf, cur) == << buf, cur + 1 >>

Down(buf, cur) ==
    << IF cur >= Len(buf) THEN Append(buf, << >>) ELSE buf, cur + 1 >>

\* One set EDIT_CHAR[i], on the buffer and line bc: the character i + 32
\* is pushed on the line, a line being pushed first at the end; backspace
\* (i + 32 = 0x7f) removes an empty line but the first and pops the line.
CharStep(bc, i) ==
    LET buf == IF bc[2] = Len(bc[1]) THEN Append(bc[1], << >>) ELSE bc[1]
        cur == bc[2]
        Pop(l) == IF l = << >> THEN l ELSE Front(l)
    IN  IF i + 32 # 127 THEN << [buf EXCEPT ![cur + 1] = Append(@, i + 32)], cur >>
        ELSE IF buf[cur + 1] = << >> /\ cur # 0
             THEN << [RemoveAt(buf, cur + 1) EXCEPT ![cur] = Pop(@)], cur - 1 >>
             ELSE << [buf EXCEPT ![cur + 1] = Pop(@)], cur >>

(***************************************************************************)
(* One turn of the editor loop after its sleep: EDIT_UP moves up unless on *)
(* the first line (the flag then stays set), EDIT_DOWN moves down,          *)
(* EDIT_ENTER inserts an empty line after the cursor's and moves to it,     *)
(* each set EDIT_CHAR in index order is applied, all are cleared, and on    *)
(* IF_ESC the loop ends and edit_file(para, content).unwrap() saves the     *)
(* buffer.  Vec::insert panics on an index past the length.                *)
(***************************************************************************)
EditTick ==
    LET cur1 == IF flags["up"] /\ vec_cur # 0 THEN vec_cur - 1 ELSE vec_cur
        bc2  == IF flags["down"] THEN Down(content, cur1) ELSE << content, cur1 >>
        bad  == flags["enter"] /\ bc2[2] + 1 > Len(bc2[1])
        bc3  == IF flags["enter"] THEN << InsertAt(bc2[1], bc2[2] + 2, << >>), bc2[2] + 1 >>
                ELSE bc2
        bc4  == FoldLeft(CharStep, bc3, SetToSortSeq(edit_char, <))
        esc  == flags["esc"]
    IN
    /\ ~panicked /\ editing
    /\ IF bad
       THEN panicked' = TRUE /\ UNCHANGED << root, editor >>
       ELSE /\ content' = bc4[1] /\ vec_cur' = bc4[2]
            /\ flags' = [flags EXCEPT !["up"] = @ /\ vec_cur = 0, !["down"] = FALSE,
                                      !["enter"] = FALSE, !["esc"] = FALSE]
            /\ edit_char' = {}
            /\ editing' = ~esc
            /\ root' = IF esc THEN EditFile(para, bc4[1]) ELSE root
            /\ panicked' = (esc /\ EditFileErr(para))
            /\ UNCHANGED para
    /\ UNCHANGED path

Next ==
    \/ CdUp
    \/ \E n \in Names :
        \/ Cd(n) \/ Rm(n) \/ Edit(n)
        \/ \E t \in {Document, Folder} : Make(n, t)
    \/ \E k \in Controls : KeyControl(k)
    \/ \E i \in CharIndices : KeyChar(i)
    \/ Task2TakesEsc
    \/ EditTick

Spec == Init /\ [][Next]_vars

-----------------------------------------------------------------------------
(* Properties.                                                             *)

Folders == {root} \cup {e[2] : e \in FilesBelow(root, << >>)}

\* A line is a sequence of the codes the editor pushes (32 .. 126).
Lines == Seq(Seq(32 .. 126))

FsTypeOK ==
    /\ path \in Seq(Names \cup {RootName}) /\ path # << >> /\ Head(path) = RootName
    /\ root.file_type = Folder /\ panicked \in BOOLEAN
    /\ \A f \in Folders :
        /\ f.file_type \in {Document, Folder}
        /\ f.content \in Lines
        /\ f.file_type = Document => f.children = << >>
    /\ editing \in BOOLEAN /\ para \in Names \cup {RootName} /\ content \in Lines
    /\ vec_cur \in Nat /\ flags \in [Controls0 -> BOOLEAN] /\ edit_char \subseteq CharIndices

(***************************************************************************)
(* The editor's line is always one of the buffer's lines or just past the  *)
(* last, so the content[vec_cur] of a character or backspace never indexes *)
(* out of the buffer.  About the push that EDIT_DOWN and a character make  *)
(* at the end, and backspace's remove then step up, whatever flags one     *)
(* turn of the loop finds set together.                                    *)
(***************************************************************************)
EditorCursorInBuffer == editing => vec_cur <= Len(content)

NamesUnique ==
    \A f \in Folders : \A i, j \in 1 .. Len(f.children) :
        i # j => f.children[i].file_name # f.children[j].file_name

\* The hierarchy as the abstract specification sees it: each path of names
\* below the root with its file's type and content.
FilesOf(r) ==
    LET fs == FilesBelow(r, << >>)
    IN  [p \in {e[1] : e \in fs} |->
            LET e == CHOOSE x \in fs : x[1] = p
            IN  [type |-> e[2].file_type, content |-> e[2].content]]

Abs == INSTANCE AbstractFileSystem
         WITH files <- FilesOf(root), cwd <- Tail(path), InitialFiles <- FilesOf(InitialRoot)

(***************************************************************************)
(* Every file command does to the hierarchy and the current folder what    *)
(* the abstract specification says: the folder that index_folder and       *)
(* retrieve reach by walking path from the root is the one path names, and *)
(* add_file, remove_file and edit_file change exactly the file named, with *)
(* all that lies below it, after the copies are written back to the root.  *)
(***************************************************************************)
ImplementsAbstract == Abs!Spec
=============================================================================
