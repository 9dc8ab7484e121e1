------------------------- MODULE AbstractFileSystem -------------------------
(***************************************************************************)
(* What terminal1's file commands promise: a hierarchy of named documents  *)
(* and folders and a current folder.  A file is named by its path of names *)
(* below the root; cd enters a folder of the current one, cd .. leaves it, *)
(* mk and mkdir create a name not yet taken, rm removes a file with all    *)
(* that lies below it, and edit replaces a document's content.  Nothing    *)
(* else changes.                                                            *)
(***************************************************************************)
EXTENDS Sequences, SequencesExt, Functions, TLC

CONSTANTS Names, InitialFiles, Document, Folder, Empty

VARIABLES files, cwd

vars == << files, cwd >>

IsFolder(p) == p \in DOMAIN files /\ files[p].type = Folder

Init == files = InitialFiles /\ cwd = << >>

ChangeDir(n) ==
    /\ cwd' = IF IsFolder(Append(cwd, n)) THEN Append(cwd, n) ELSE cwd
    /\ UNCHANGED files

ChangeDirUp ==
    /\ cwd' = IF cwd = << >> THEN cwd ELSE Front(cwd)
    /\ UNCHANGED files

Create(n, t) ==
    LET p == Append(cwd, n) IN
    /\ files' = IF p \in DOMAIN files THEN files
                ELSE files @@ (p :> [type |-> t, content |-> Empty])
    /\ UNCHANGED cwd

\* A removed folder takes every file below it.
Delete(n) ==
    LET p == Append(cwd, n) IN
    /\ files' = IF p \in DOMAIN files
                THEN Restrict(files, {q \in DOMAIN files : ~IsPrefix(p, q)})
                ELSE files
    /\ UNCHANGED cwd

\* Any content may be written; only the document named changes.  (As
\* files' names the new content, this Next is checked, not enumerated.)
Write(n) ==
    LET p == Append(cwd, n) IN
    /\ p \in DOMAIN files /\ files[p].type = Document
    /\ DOMAIN files' = DOMAIN files
    /\ files' = [files EXCEPT ![p].content = files'[p].content]
    /\ UNCHANGED cwd

Next ==
    \/ ChangeDirUp
    \/ \E n \in Names :
        \/ ChangeDir(n) \/ Delete(n)
        \/ \E t \in {Document, Folder} : Create(n, t)
        \/ Write(n)

Spec == Init /\ [][Next]_vars
=============================================================================
