------------------------------ MODULE Lowerer ------------------------------
(***************************************************************************)
(* Lowering (src/src/compiler/Lowering/Lowerer.rs): if, while and for are *)
(* rewritten to labels and gotos, and the result is flattened into one     *)
(* block.  The rewrite is a pure function of the bound tree and of the    *)
(* Lowerer's label counter, so it is a family of RECURSIVE operators that *)
(* return << rewritten statement, new labelCount >>.                       *)
(***************************************************************************)
EXTENDS BoundTree, SequencesExt

(***************************************************************************)
(* GenerateLabel: labelCount += 1, then the name "Label" followed by the   *)
(* character (labelCount + 48) as u8.  The label is kept as that byte,     *)
(* computed in u8 arithmetic (wrapping, as a release build does).          *)
(***************************************************************************)
GenerateLabel(labelCount) == ((labelCount % 256) + 48) % 256

(***************************************************************************)
(* BoundTreeRewriter::RewriteStatement rebuilds a node only when one of    *)
(* its children changed; it lowers nothing, so it returns an equal tree.   *)
(* The Lowerer's own RewriteExpression / RewriteVariableDeclaration /      *)
(* RewriteConditionalGotoStatement / RewriteExpressionStatement are the    *)
(* same structural copy.                                                   *)
(***************************************************************************)
TreeRewriterRewriteStatement(node) == node
RewriteLeaf(node) == node

RECURSIVE RewriteStatement(_, _), RewriteBlockStatement(_, _),
          RewriteEach(_, _), RewriteIfStatement(_, _), RewriteForStatement(_, _)

\* The children of a block are rewritten left to right, threading the counter.
RewriteEach(stmts, labelCount) ==
    IF stmts = << >> THEN << << >>, labelCount >>
    ELSE LET first == RewriteStatement(Head(stmts), labelCount)
             rest  == RewriteEach(Tail(stmts), first[2])
         IN  << << first[1] >> \o rest[1], rest[2] >>

\* The builder in RewriteBlockStatement yields a block equal to the rewritten children.
RewriteBlockStatement(node, labelCount) ==
    LET r == RewriteEach(node.stmts, labelCount) IN << Block(r[1]), r[2] >>

RewriteIfStatement(node, labelCount) ==
    IF node.else = NoElse
    THEN LET endLabel == GenerateLabel(labelCount + 1)
         IN  RewriteStatement(
                Block(<< CondGoto(endLabel, node.cond, TRUE),
                         node.then,
                         LabelStmt(endLabel) >>),
                labelCount + 1)
    ELSE LET elseLabel == GenerateLabel(labelCount + 1)
             endLabel  == GenerateLabel(labelCount + 2)
         IN  RewriteStatement(
                Block(<< CondGoto(elseLabel, node.cond, TRUE),
                         node.then,
                         GotoStmt(endLabel),
                         LabelStmt(elseLabel),
                         node.else,
                         LabelStmt(endLabel) >>),
                labelCount + 2)

\* Faulty variant of RewriteWhileStatement: the back edge jumps when the
\* condition is false.
RewriteWhileJumpIfFalse(node, labelCount) ==
    LET continueLabel == GenerateLabel(labelCount + 1)
        checkLabel    == GenerateLabel(labelCount + 2)
        endLabel      == GenerateLabel(labelCount + 3)
    IN  << Block(<< GotoStmt(checkLabel), LabelStmt(continueLabel), node.body,
                    LabelStmt(checkLabel), CondGoto(continueLabel, node.cond, TRUE),
                    LabelStmt(endLabel) >>),
          labelCount + 3 >>

\* The result goes through the BoundTreeRewriter, not through this Lowerer:
\* the body is returned as it was given.
RewriteWhileStatement(node, labelCount) ==
    LET continueLabel == GenerateLabel(labelCount + 1)
        checkLabel    == GenerateLabel(labelCount + 2)
        endLabel      == GenerateLabel(labelCount + 3)
    IN  << TreeRewriterRewriteStatement(
              Block(<< GotoStmt(checkLabel),
                       LabelStmt(continueLabel),
                       node.body,
                       LabelStmt(checkLabel),
                       CondGoto(continueLabel, node.cond, FALSE),
                       LabelStmt(endLabel) >>)),
          labelCount + 3 >>

\* for v = lo to hi body  ~>  { var v = lo; while v <= hi { body; v = v + 1 } }
RewriteForStatement(node, labelCount) ==
    LET variable  == VariableExpr(node.var)
        increment == ExprStmt(Assignment(node.var,
                        Binary(variable, "Addition", Literal(Int32(1)))))
        loop      == While(Binary(variable, "LessOrEquals", node.upper),
                           Block(<< node.body, increment >>))
    IN  RewriteStatement(Block(<< VarDecl(node.var, node.lower), loop >>),
                         labelCount)

RewriteStatement(node, labelCount) ==
    CASE node.kind = "Block" -> RewriteBlockStatement(node, labelCount)
      [] node.kind = "If"    -> RewriteIfStatement(node, labelCount)
      [] node.kind = "While" -> RewriteWhileStatement(node, labelCount)
      [] node.kind = "For"   -> RewriteForStatement(node, labelCount)
      [] OTHER               -> << RewriteLeaf(node), labelCount >>

(***************************************************************************)
(* Flatten: an explicit stack; a popped block pushes its children last    *)
(* first, so the first child is popped next; any other statement is       *)
(* appended to the builder.                                                *)
(***************************************************************************)
\* Faulty variant of FlattenLoop: children pushed first to last, so they pop
\* in reverse order.
RECURSIVE FlattenLoopInOrder(_, _)
FlattenLoopInOrder(stack, builder) ==
    IF stack = << >> THEN builder
    ELSE IF Last(stack).kind = "Block"
         THEN FlattenLoopInOrder(Front(stack) \o Last(stack).stmts, builder)
         ELSE FlattenLoopInOrder(Front(stack), Append(builder, Last(stack)))

RECURSIVE FlattenLoop(_, _)
FlattenLoop(stack, builder) ==
    IF stack = << >> THEN builder
    ELSE LET current == Last(stack)
             rest    == Front(stack)
         IN  IF current.kind = "Block"
             THEN FlattenLoop(rest \o Reverse(current.stmts), builder)
             ELSE FlattenLoop(rest, Append(builder, current))

Flatten(statement) == FlattenLoop(<< statement >>, << >>)

\* Lower: a fresh Lowerer (labelCount 0), RewriteStatement, then Flatten.
Lower(statement) == Flatten(RewriteStatement(statement, 0)[1])
====
