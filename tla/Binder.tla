------------------------------- MODULE Binder -------------------------------
(***************************************************************************)
(* The Binder (src/src/compiler/Binding/Binder.rs) and its scopes          *)
(* (BoundScope.rs): syntax tree -> bound tree, with types and semantic     *)
(* diagnostics.  A binder state b = [scopes, diags] stands for the Binder  *)
(* struct: scopes is the BoundScope chain as a sequence of frames, the     *)
(* root first and the current scope last, and a frame is the scope's       *)
(* Vec<(String, VariableSymbol)> as a sequence of symbols.  The function   *)
(* table lives in the root scope only (CreateRootScope) and never changes, *)
(* so it is the constant Builtins.                                          *)
(*                                                                         *)
(* A Bind* operator returns [b, node, type] for an expression (the bound   *)
(* node and the TypeSymbol the code derives for it) and [b, node] for a    *)
(* statement.  Every recursive call goes through Bind.                     *)
(***************************************************************************)
EXTENDS Integers, SequencesExt, Syntax

\* TypeSymbol (Symbol/TypeSymbol.rs)
TypeSymbols == {"Int", "Bool", "String", "Void", "Error"}

(***************************************************************************)
(* BoundScope.  TryDeclareVariable fails when the current scope already    *)
(* has the name; TryLookupVariable walks from the current scope to the     *)
(* root and returns the first match, as a set of at most one symbol.       *)
(***************************************************************************)
IsDeclaredInScope(scopes, name) == \E v \in ToSet(Last(scopes)) : v.Name = name

TryDeclareVariable(scopes, variable) ==
    IF IsDeclaredInScope(scopes, variable.Name) THEN scopes
    ELSE [scopes EXCEPT ![Len(scopes)] = Append(@, variable)]

RECURSIVE TryLookupVariable(_, _)
TryLookupVariable(scopes, name) ==
    IF scopes = << >> THEN {}
    ELSE IF IsDeclaredInScope(scopes, name) THEN {v \in ToSet(Last(scopes)) : v.Name = name}
    ELSE TryLookupVariable(Front(scopes), name)

PushScope(b) == [b EXCEPT !.scopes = Append(@, << >>)]
PopScope(b)  == [b EXCEPT !.scopes = Front(@)]

(***************************************************************************)
(* The static operator tables of BoundUnaryOperator.rs and                 *)
(* BoundBinaryOperator.rs, and their Bind: the entries for the syntax kind *)
(* and operand types (at most one; none is Err).                           *)
(***************************************************************************)
UnaryOperators ==
    {[syntaxKind |-> e[1], kind |-> e[2], operandType |-> e[3], type |-> e[3]] :
        e \in {<< "BangToken", "LogicalNegation", "Bool" >>, << "PlusToken", "Identity", "Int" >>,
               << "MinusToken", "Negation", "Int" >>, << "TildeToken", "OnesComplement", "Int" >>}}

BinaryEntries(operands, result, pairs) ==
    {[syntaxKind |-> p[1], kind |-> p[2], leftType |-> operands, rightType |-> operands,
      type |-> result] : p \in pairs}

BinaryOperators ==
    BinaryEntries("Int", "Int",
        {<< "PlusToken", "Addition" >>, << "MinusToken", "Subtraction" >>,
         << "StarToken", "Multiplication" >>, << "SlashToken", "Division" >>,
         << "AmpersandToken", "BitwiseAnd" >>, << "PipeToken", "BitwiseOr" >>,
         << "HatToken", "BitwiseXor" >>})
    \cup BinaryEntries("Int", "Bool",
        {<< "EqualsEqualsToken", "Equals" >>, << "BangEqualsToken", "NotEquals" >>,
         << "LessToken", "Less" >>, << "LessOrEqualsToken", "LessOrEquals" >>,
         << "GreaterToken", "Greater" >>, << "GreaterOrEqualsToken", "GreaterOrEquals" >>})
    \cup BinaryEntries("Bool", "Bool",
        {<< "AmpersandToken", "BitwiseAnd" >>, << "AmpersandAmpersandToken", "LogicalAnd" >>,
         << "PipeToken", "BitwiseOr" >>, << "PipePipeToken", "LogicalOr" >>,
         << "HatToken", "BitwiseXor" >>, << "EqualsEqualsToken", "Equals" >>,
         << "BangEqualsToken", "NotEquals" >>})
    \cup BinaryEntries("String", "String", {<< "PlusToken", "Addition" >>})

BindUnaryOperator(syntaxKind, operandType) ==
    {op \in UnaryOperators : op.syntaxKind = syntaxKind /\ op.operandType = operandType}

BindBinaryOperator(syntaxKind, leftType, rightType) ==
    {op \in BinaryOperators : op.syntaxKind = syntaxKind /\ op.leftType = leftType
                              /\ op.rightType = rightType}

\* Symbol/BuiltinFunctions.rs: FunctionSymbol { Name, Parameter, Type }
Param(name, type) == [Name |-> name, Type |-> type]
Builtins ==
    {[Name |-> "print", Parameter |-> << Param("text", "String") >>, Type |-> "Void"],
     [Name |-> "input", Parameter |-> << >>, Type |-> "String"],
     [Name |-> "rand", Parameter |-> << Param("max", "Int") >>, Type |-> "Int"],
     [Name |-> "sleep", Parameter |-> << Param("time", "Int") >>, Type |-> "Void"],
     [Name |-> "breakpoint", Parameter |-> << >>, Type |-> "Void"]}

TryLookupFunction(name) == {f \in Builtins : f.Name = name}

\* Conversion::Classify(from, to).Exists
ConversionExists(from, to) ==
    \/ from = to
    \/ from \in {"Bool", "Int"} /\ to = "String"
    \/ from = "String" /\ to \in {"Bool", "Int"}

\* Binder::LookupType: the conversion call names; "None" for any other name.
LookupType(name) ==
    CASE name = "bool" -> "Bool" [] name = "int" -> "Int" [] name = "string" -> "String"
      [] OTHER -> "None"

\* BoundLiteralExpression::Type
LiteralType(v) ==
    CASE v.t = "Int32" -> "Int" [] v.t = "Bool" -> "Bool" [] v.t = "String" -> "String"
      [] OTHER -> "Error"

(***************************************************************************)
(* Results and DiagnosticBag::Report*, with the symbol and type arguments  *)
(* of the message and without the span.                                    *)
(***************************************************************************)
\* The node is listed first: TLC builds a record field by field, so the
\* earlier results a node is made of are evaluated before the later ones.
ExprResult(b, node, type) == [node |-> node, type |-> type, b |-> b]
StmtResult(b, node) == [node |-> node, b |-> b]
Diag(kind, args) == [kind |-> kind, args |-> args]
Report(b, d) == [b EXCEPT !.diags = Append(@, d)]
ReportIf(b, cond, d) == IF cond THEN Report(b, d) ELSE b
ErrorResult(b, d) == ExprResult(Report(b, d), ErrorExpr, "Error")

RECURSIVE Bind(_, _, _, _)

BindLiteralExpression(syntax, b) ==
    ExprResult(b, Literal(syntax.value), LiteralType(syntax.value))

\* The variable found is declared again in the current scope (Binder.rs:454).
BindNameFound(name, found, b) ==
    IF found = {} THEN ErrorResult(b, Diag("UndefinedName", << name >>))
    ELSE LET v == CHOOSE x \in found : TRUE
         IN  ExprResult([b EXCEPT !.scopes = TryDeclareVariable(@, v)], VariableExpr(v), v.Type)

BindNameExpression(syntax, b) ==
    IF IsMissing(syntax.token) THEN ExprResult(b, ErrorExpr, "Error")
    ELSE BindNameFound(syntax.token.text, TryLookupVariable(b.scopes, syntax.token.text), b)

\* Assignment: the right-hand side first; the target found is declared again
\* in the current scope (Binder.rs:474); a name not found yields the bound
\* right-hand side itself.
\* Mutant: the assignment never checks IsReadOnly.
BindAssignmentFoundIgnoringReadOnly(name, r, found) ==
    IF found = {} THEN [r EXCEPT !.b = Report(@, Diag("UndefinedName", << name >>))]
    ELSE LET v == CHOOSE x \in found : TRUE
         IN  ExprResult(
                 ReportIf([r.b EXCEPT !.scopes = TryDeclareVariable(@, v)],
                          r.type # v.Type, Diag("CannotConvert", << r.type, v.Type >>)),
                 Assignment(v, r.node), v.Type)

BindAssignmentFound(name, r, found) ==
    IF found = {} THEN [r EXCEPT !.b = Report(@, Diag("UndefinedName", << name >>))]
    ELSE LET v == CHOOSE x \in found : TRUE
         IN  ExprResult(
                 ReportIf(ReportIf([r.b EXCEPT !.scopes = TryDeclareVariable(@, v)],
                                   v.IsReadOnly, Diag("CannotAssign", << name >>)),
                          r.type # v.Type, Diag("CannotConvert", << r.type, v.Type >>)),
                 Assignment(v, r.node), v.Type)

BindAssignmentTo(name, r) == BindAssignmentFound(name, r, TryLookupVariable(r.b.scopes, name))

BindAssignmentExpression(syntax, b) ==
    BindAssignmentTo(syntax.token.text, Bind("Expression", syntax.expr, FALSE, b))

BindUnaryWith(opToken, r, ops) ==
    IF ops = {} THEN ErrorResult(r.b, Diag("UndefinedUnaryOperator", << opToken.text, r.type >>))
    ELSE LET op == CHOOSE o \in ops : TRUE IN ExprResult(r.b, Unary(op.kind, r.node), op.type)

BindUnaryOperand(opToken, r) == BindUnaryWith(opToken, r, BindUnaryOperator(opToken.kind, r.type))

BindUnaryExpression(syntax, b) == BindUnaryOperand(syntax.op, Bind("Expression", syntax.operand, FALSE, b))

BindBinaryWith(opToken, l, r, ops) ==
    IF ops = {} THEN ErrorResult(r.b, Diag("UndefinedBinaryOperator", << opToken.text, l.type, r.type >>))
    ELSE LET op == CHOOSE o \in ops : TRUE
         IN  ExprResult(r.b, Binary(l.node, op.kind, r.node), op.type)

BindBinaryOperands(opToken, l, r) ==
    BindBinaryWith(opToken, l, r, BindBinaryOperator(opToken.kind, l.type, r.type))

BindBinaryRight(syntax, l) == BindBinaryOperands(syntax.op, l, Bind("Expression", syntax.right, FALSE, l.b))

BindBinaryExpression(syntax, b) == BindBinaryRight(syntax, Bind("Expression", syntax.left, FALSE, b))

BindConversionOf(type, r) ==
    IF ~ConversionExists(r.type, type) THEN ErrorResult(r.b, Diag("CannotConvert", << r.type, type >>))
    ELSE ExprResult(r.b, Conversion(type, r.node), type)

BindConversion(type, syntax, b) == BindConversionOf(type, Bind("Expression", syntax, FALSE, b))

\* The arguments are bound (and their diagnostics reported) before the
\* function is looked up; the first argument of the wrong type is reported.
BindCallChecked(count, args, f) ==
    LET wrong == {i \in 1 .. Len(f.Parameter) : args.type[i] # f.Parameter[i].Type}
        i     == CHOOSE i \in wrong : \A j \in wrong : i <= j
    IN  CASE count # Len(f.Parameter) ->
                 ErrorResult(args.b, Diag("WrongArgumentCount", << f.Name, Len(f.Parameter), count >>))
          [] wrong # {} ->
                 ErrorResult(args.b, Diag("WrongArgumentType",
                                          << f.Parameter[i].Name, f.Parameter[i].Type, args.type[i] >>))
          [] OTHER -> ExprResult(args.b, Call(f.Name, args.node), f.Type)

BindCallFunction(syntax, args, fns) ==
    IF fns = {} THEN ErrorResult(args.b, Diag("UndefinedFunction", << syntax.token.text >>))
    ELSE BindCallChecked(ArgCount(syntax.args), args, CHOOSE f \in fns : TRUE)

BindCallExpression(syntax, b) ==
    IF ArgCount(syntax.args) = 1 /\ LookupType(syntax.token.text) # "None"
    THEN BindConversion(LookupType(syntax.token.text), syntax.args[1].node, b)
    ELSE BindCallFunction(syntax, Bind("Expressions", ArgNodes(syntax.args), FALSE, b),
                          TryLookupFunction(syntax.token.text))

\* The arguments in order: [b, node, type] with sequences of nodes and types.
ConsExpressions(first, r) ==
    [node |-> << first.node >> \o r.node, type |-> << first.type >> \o r.type, b |-> r.b]

BindExpressionsRest(rest, first) == ConsExpressions(first, Bind("Expressions", rest, FALSE, first.b))

BindExpressions(nodes, b) ==
    IF nodes = << >> THEN [b |-> b, node |-> << >>, type |-> << >>]
    ELSE BindExpressionsRest(Tail(nodes), Bind("Expression", Head(nodes), FALSE, b))

BindExpressionInternal(syntax, b) ==
    CASE syntax.kind = "ParenthesizedExpressionSyntax" -> Bind("Expression", syntax.expr, FALSE, b)
      [] syntax.kind = "LiteralExpressionSyntax"       -> BindLiteralExpression(syntax, b)
      [] syntax.kind = "NameExpressionSyntax"          -> BindNameExpression(syntax, b)
      [] syntax.kind = "AssignmentExpressionSyntax"    -> BindAssignmentExpression(syntax, b)
      [] syntax.kind = "UnaryExpressionSyntax"         -> BindUnaryExpression(syntax, b)
      [] syntax.kind = "BinaryExpressionSyntax"        -> BindBinaryExpression(syntax, b)
      [] syntax.kind = "CallExpressionSyntax"          -> BindCallExpression(syntax, b)

\* An expression used for its value must not be Void.
MustHaveValue(canBeVoid, r) ==
    IF ~canBeVoid /\ r.type = "Void"
    THEN ErrorResult(r.b, Diag("ExpressionMustHaveValue", << >>))
    ELSE r

BindExpression(syntax, canBeVoid, b) == MustHaveValue(canBeVoid, BindExpressionInternal(syntax, b))

\* BindExpression_target: a mismatch is reported, the result kept.
CheckTarget(targetType, r) ==
    [r EXCEPT !.b = ReportIf(@, targetType # "Error" /\ r.type # "Error" /\ targetType # r.type,
                             Diag("CannotConvert", << r.type, targetType >>))]

BindExpression_target(syntax, targetType, b) == CheckTarget(targetType, Bind("Expression", syntax, FALSE, b))

(***************************************************************************)
(* Statements.  A block and a for loop bind in a new scope and restore the *)
(* parent after; an if and a while bind in the current scope.              *)
(***************************************************************************)
ConsStatements(first, r) == StmtResult(r.b, << first.node >> \o r.node)

BindStatementsRest(rest, first) == ConsStatements(first, Bind("Statements", rest, 0, first.b))

BindStatements(stmts, b) ==
    IF stmts = << >> THEN StmtResult(b, << >>)
    ELSE BindStatementsRest(Tail(stmts), Bind("Statement", Head(stmts), 0, b))

BindBlockEnd(r) == StmtResult(PopScope(r.b), Block(r.node))

BindBlockStatement(syntax, b) == BindBlockEnd(Bind("Statements", syntax.stmts, 0, PushScope(b)))

\* BindVariable: [b, var]; a name already in the current scope is reported.
BindVariable(identifier, isReadOnly, type, b) ==
    LET variable == VariableSymbol(identifier.text, isReadOnly, type)
        declare  == ~IsMissing(identifier)
    IN  [b |-> IF declare /\ IsDeclaredInScope(b.scopes, variable.Name)
               THEN Report(b, Diag("VariableAlreadyDeclared", << variable.Name >>))
               ELSE IF declare THEN [b EXCEPT !.scopes = TryDeclareVariable(@, variable)]
               ELSE b,
         var |-> variable]

BindDeclared(init, v) == StmtResult(v.b, VarDecl(v.var, init.node))

BindVariableDeclarationWith(syntax, init) ==
    BindDeclared(init, BindVariable(syntax.token, syntax.keyword.kind = "LetKeyword", init.type, init.b))

BindVariableDeclaration(syntax, b) ==
    BindVariableDeclarationWith(syntax, Bind("Expression", syntax.init, FALSE, b))

BindIfEnd(c, t, e) == StmtResult(e.b, If(c.node, t.node, e.node))

BindIfElse(syntax, c, t) ==
    IF syntax.else.kind = "ElseClauseSyntax"
    THEN BindIfEnd(c, t, Bind("Statement", syntax.else.stmt, 0, t.b))
    ELSE StmtResult(t.b, If(c.node, t.node, NoElse))

BindIfThen(syntax, c) == BindIfElse(syntax, c, Bind("Statement", syntax.then, 0, c.b))

BindIfStatement(syntax, b) == BindIfThen(syntax, Bind("Target", syntax.cond, "Bool", b))

BindWhileEnd(c, body) == StmtResult(body.b, While(c.node, body.node))

BindWhileBody(syntax, c) == BindWhileEnd(c, Bind("Statement", syntax.body, 0, c.b))

BindWhileStatement(syntax, b) == BindWhileBody(syntax, Bind("Target", syntax.cond, "Bool", b))

BindForEnd(lo, hi, v, body) == StmtResult(PopScope(body.b), For(v.var, lo.node, hi.node, body.node))

BindForBody(syntax, lo, hi, v) == BindForEnd(lo, hi, v, Bind("Statement", syntax.body, 0, v.b))

BindForVariable(syntax, lo, hi) ==
    BindForBody(syntax, lo, hi, BindVariable(syntax.token, TRUE, "Int", PushScope(hi.b)))

BindForUpper(syntax, lo) == BindForVariable(syntax, lo, Bind("Target", syntax.upper, "Int", lo.b))

BindForStatement(syntax, b) == BindForUpper(syntax, Bind("Target", syntax.lower, "Int", b))

BindExpressionStatementOf(r) == StmtResult(r.b, ExprStmt(r.node))

BindExpressionStatement(syntax, b) ==
    BindExpressionStatementOf(Bind("Expression", syntax.expr, TRUE, b))

\* The `_` arm (an ElseClauseSyntax on its own) binds to an empty block.
BindStatement(syntax, b) ==
    CASE syntax.kind = "BlockStatementSyntax"      -> BindBlockStatement(syntax, b)
      [] syntax.kind = "VariableDeclarationSyntax" -> BindVariableDeclaration(syntax, b)
      [] syntax.kind = "IfStatementSyntax"         -> BindIfStatement(syntax, b)
      [] syntax.kind = "WhileStatementSyntax"      -> BindWhileStatement(syntax, b)
      [] syntax.kind = "ForStatementSyntax"        -> BindForStatement(syntax, b)
      [] syntax.kind = "ExpressionStatementSyntax" -> BindExpressionStatement(syntax, b)
      [] OTHER                                     -> StmtResult(b, Block(<< >>))

\* The one recursive entry: rule names the method, arg its second argument
\* (canBeVoid for an expression, the target type for BindExpression_target).
Bind(rule, syntax, arg, b) ==
    CASE rule = "Statement"   -> BindStatement(syntax, b)
      [] rule = "Statements"  -> BindStatements(syntax, b)
      [] rule = "Expression"  -> BindExpression(syntax, arg, b)
      [] rule = "Target"      -> BindExpression_target(syntax, arg, b)
      [] rule = "Expressions" -> BindExpressions(syntax, b)

(***************************************************************************)
(* Binder::BindGlobalScope.  previous is the chain of earlier              *)
(* BoundGlobalScope records [Diagnostics, Variables, Statement], oldest    *)
(* first.  CreateParentScope replays it: the root scope, then one scope    *)
(* per earlier unit holding its Variables; the unit binds in a new scope   *)
(* below them, whose variables become the unit's Variables.                *)
(***************************************************************************)
DeclareAll(variables) ==
    FoldLeft(LAMBDA frame, v : TryDeclareVariable(<< frame >>, v)[1], << >>, variables)

CreateParentScope(previous) == << << >> >> \o [i \in DOMAIN previous |-> DeclareAll(previous[i].Variables)]

GlobalScopeOf(previous, r) ==
    [Diagnostics |-> r.b.diags \o (IF previous = << >> THEN << >> ELSE Last(previous).Diagnostics),
     Variables   |-> Last(r.b.scopes),
     Statement   |-> r.node]

BindGlobalScope(previous, syntax) ==
    GlobalScopeOf(previous,
        Bind("Statement", syntax, 0,
             [scopes |-> Append(CreateParentScope(previous), << >>), diags |-> << >>]))
====
