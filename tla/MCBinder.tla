------------------------------ MODULE MCBinder ------------------------------
(***************************************************************************)
(* The Binder over small units, as Compilation::GlobalScope binds the     *)
(* first submission of a session (no previous global scope).  One step     *)
(* binds the unit.  Units are written with the syntax nodes the Parser     *)
(* builds; names are a and b, b never declared.                            *)
(***************************************************************************)
EXTENDS Binder

CONSTANT Units   \* the compilation units to bind, by name (UnitOf)

VARIABLES unit, globalScope
vars == << unit, globalScope >>

(***************************************************************************)
(* Syntax, with the tokens the Parser puts in the nodes.                  *)
(***************************************************************************)
Tok(kind)     == Token(kind, kind, NullV)
Op(kind, txt) == Token(kind, txt, NullV)
Id(n)         == Token("IdentifierToken", n, NullV)
IntL(n)       == LiteralSyntax(Token("NumberToken", "n", Int32(n)), Int32(n))
TrueL         == LiteralSyntax(Tok("TrueKeyword"), BoolV(TRUE))
Name(n)       == NameSyntax(Id(n))
Assign(n, e)  == AssignmentSyntax(Id(n), Tok("EqualsToken"), e)
Plus(l, r)    == BinarySyntax(l, Op("PlusToken", "+"), r)
Less(l, r)    == BinarySyntax(l, Op("LessToken", "<"), r)
Neg(e)        == UnarySyntax(Op("MinusToken", "-"), e)
Not(e)        == UnarySyntax(Op("BangToken", "!"), e)
CallOf(f, e)  == CallSyntax(Id(f), Tok("OpenParenthesisToken"), << ArgNode(e) >>,
                            Tok("CloseParenthesisToken"))
PrintOf(e)    == CallOf("print", CallOf("string", e))
Decl(kw, n, e) == VarDeclSyntax(Tok(kw), Id(n), Tok("EqualsToken"), e)
Var(n, e)     == Decl("VarKeyword", n, e)
Let(n, e)     == Decl("LetKeyword", n, e)
BlockOf(s)    == BlockSyntax(Tok("OpenBraceToken"), s, Tok("CloseBraceToken"))
IfOf(c, t)    == IfSyntax(Tok("IfKeyword"), c, t, NoElseClause)
IfElseOf(c, t, e) == IfSyntax(Tok("IfKeyword"), c, t, ElseSyntax(Tok("ElseKeyword"), e))
WhileOf(c, s) == WhileSyntax(Tok("WhileKeyword"), c, s)
ForOf(n, s)   == ForSyntax(Tok("ForKeyword"), Id(n), Tok("EqualsToken"), IntL(0),
                           Tok("ToKeyword"), IntL(1), s)
Stmt(e)       == ExprStmtSyntax(e)

\* Expressions over a: well typed when a is an Int, and ill typed otherwise.
\* The parts are sequences and a unit is named by indices into them: TLC
\* cannot compare an Int32 literal with a Bool literal inside a set.
Values    == << IntL(1), TrueL, Name("a"), Plus(Name("a"), IntL(1)), Less(Name("a"), IntL(1)) >>
EffectsOn(n) == << Assign(n, IntL(1)), Assign(n, TrueL), PrintOf(Name(n)),
                   CallOf("print", Name(n)), Neg(Name(n)), Not(Name(n)), CallOf("int", TrueL),
                   Plus(Name(n), IntL(1)) >>
Effects   == EffectsOn("a")
Decls     == [i \in 1 .. Len(Values) |-> Var("a", Values[i])] \o << Let("a", IntL(1)) >>
Uses      == [i \in 1 .. Len(Effects) |-> Stmt(Effects[i])]
             \o << IfOf(Name("a"), Stmt(Assign("a", IntL(1)))), IfOf(Less(Name("a"), IntL(1)), Stmt(PrintOf(Name("a")))) >>
Loops     == << WhileOf(Less(Name("a"), IntL(1)), BlockOf(<< Stmt(Assign("a", IntL(1))) >>)),
               ForOf("i", Stmt(PrintOf(Name("i")))), ForOf("i", Stmt(Assign("i", IntL(1)))),
               ForOf("a", Stmt(Assign("a", IntL(1)))) >>
Shadows   == Decls \o << Var("b", TrueL) >>

\* A loop whose body is a bare declaration: a while, or a for.
LoopOver(w, body) == IF w = 1 THEN WhileOf(Less(Name("a"), IntL(1)), body) ELSE ForOf("i", body)

\* A declaration followed by a use or a loop; a declaration, then a nested
\* block with a (shadowing) declaration and a use; a declaration, then an
\* if-else whose else branch is a use.
UnitOf(k) ==
    CASE k[1] = "seq"    -> BlockOf(<< Decls[k[2]], (Uses \o Loops)[k[3]] >>)
      [] k[1] = "nested" -> BlockOf(<< Decls[k[2]], BlockOf(<< Shadows[k[4]], Uses[k[3]] >>) >>)
      [] k[1] = "else"   -> BlockOf(<< Decls[k[2]], IfElseOf(Name("a"), Stmt(PrintOf(Name("a"))), Uses[k[3]]) >>)
      [] k[1] = "read"   -> BlockOf(<< Decls[k[2]], BlockOf(<< Uses[k[3]], Shadows[k[4]] >>) >>)
      [] k[1] = "while"  -> BlockOf(<< Var("a", IntL(1)), LoopOver(k[4], Var("b", Values[k[2]])),
                                       Stmt(EffectsOn("b")[k[3]]) >>)

WellScopedUnits ==
    {<< "seq", d, u, 0 >> : d \in DOMAIN Decls, u \in 1 .. Len(Uses) + Len(Loops)}
    \cup {<< "nested", d, u, s >> : d \in DOMAIN Decls, u \in DOMAIN Uses, s \in DOMAIN Shadows}
    \cup {<< "else", d, u, 0 >> : d \in DOMAIN Decls, u \in DOMAIN Uses}

\* A read of the outer a in a nested block, then a declaration of a there.
ReadThenShadowUnits ==
    {<< "read", d, u, s >> : d \in DOMAIN Decls, u \in DOMAIN Uses, s \in DOMAIN Shadows}
    \cup {k \in WellScopedUnits : k[1] = "nested"}

\* A declaration of b in the body of a while (1) or a for (2), then a use of b.
LoopBodyUnits ==
    {<< "while", v, u, w >> : v \in 1 .. 2, u \in DOMAIN EffectsOn("b"), w \in 1 .. 2}

Init == (\E k \in Units : unit = UnitOf(k)) /\ globalScope = [Diagnostics |-> << >>, Variables |-> << >>, Statement |-> NoElse]
BindUnit == globalScope.Statement = NoElse /\ globalScope' = BindGlobalScope(<< >>, unit) /\ UNCHANGED unit
Spec == Init /\ [][BindUnit]_vars

(***************************************************************************)
(* What spec.md §4.3 says a bound unit is: a reference type checker over   *)
(* the bound tree.  env = [ok, vars, local]: the symbol each visible name       *)
(* denotes, and the names declared in the current scope.  A block, a while *)
(* body and a for body are scopes.  "ill" is the type of an ill-typed     *)
(* expression, IllEnv what an ill-typed statement leads to.                *)
(***************************************************************************)
Sig(f) == [i \in DOMAIN f.Parameter |-> f.Parameter[i].Type]
Visible(env, sym) == sym.Name \in DOMAIN env.vars /\ env.vars[sym.Name] = sym
IllEnv == [ok |-> FALSE, vars |-> [n \in {} |-> NoElse], local |-> {}]
Declare(env, sym) ==
    IF sym.Name \in env.local THEN IllEnv
    ELSE [ok |-> env.ok,
          vars |-> [n \in DOMAIN env.vars \cup {sym.Name} |-> IF n = sym.Name THEN sym ELSE env.vars[n]],
          local |-> env.local \cup {sym.Name}]
Enter(env) == [env EXCEPT !.local = {}]
Valued(t) == IF t \in {"Void", "Error"} THEN "ill" ELSE t

UnaryRefType(op, t) ==
    LET ops == {o \in UnaryOperators : o.kind = op /\ o.operandType = t}
    IN  IF ops = {} THEN "ill" ELSE (CHOOSE o \in ops : TRUE).type
BinaryRefType(op, lt, rt) ==
    LET ops == {o \in BinaryOperators : o.kind = op /\ o.leftType = lt /\ o.rightType = rt}
    IN  IF ops = {} THEN "ill" ELSE (CHOOSE o \in ops : TRUE).type
CallRefType(fn, argTypes) ==
    LET fs == {f \in Builtins : f.Name = fn /\ Sig(f) = argTypes}
    IN  IF fs = {} THEN "ill" ELSE (CHOOSE f \in fs : TRUE).Type

RECURSIVE Ref(_, _, _)
RefType(e, env) ==
    CASE e.kind = "Literal"    -> Valued(LiteralType(e.value))
      [] e.kind = "Variable"   -> IF Visible(env, e.var) THEN e.var.Type ELSE "ill"
      [] e.kind = "Assignment" ->
             IF Visible(env, e.var) /\ ~e.var.IsReadOnly /\ Ref("Value", e.expr, env) = e.var.Type
             THEN e.var.Type ELSE "ill"
      [] e.kind = "Unary"      -> UnaryRefType(e.op, Ref("Value", e.operand, env))
      [] e.kind = "Binary"     -> BinaryRefType(e.op, Ref("Value", e.left, env), Ref("Value", e.right, env))
      [] e.kind = "Call"       -> CallRefType(e.fn, [i \in DOMAIN e.args |-> Ref("Value", e.args[i], env)])
      [] e.kind = "Conversion" ->
             IF ConversionExists(Ref("Value", e.expr, env), e.type) THEN e.type ELSE "ill"
      [] OTHER                 -> "ill"

RefStatements(stmts, env) ==
    IF stmts = << >> \/ ~env.ok THEN env
    ELSE Ref("Statements", Tail(stmts), Ref("Statement", Head(stmts), env))

\* A statement maps env to the env after it, or to IllEnv.
RefStatement(s, env) ==
    CASE ~env.ok -> IllEnv
      [] s.kind = "Block"    -> IF Ref("Statements", s.stmts, Enter(env)).ok THEN env ELSE IllEnv
      [] s.kind = "VarDecl"  ->
             IF Ref("Value", s.init, env) = s.var.Type THEN Declare(env, s.var) ELSE IllEnv
      [] s.kind = "ExprStmt" -> IF Ref("Type", s.expr, env) = "ill" THEN IllEnv ELSE env
      [] s.kind = "If"       ->
             IF Ref("Value", s.cond, env) # "Bool" THEN IllEnv
             ELSE IF s.else = NoElse THEN Ref("Statement", s.then, env)
             ELSE Ref("Statement", s.else, Ref("Statement", s.then, env))
      [] s.kind = "While"    ->
             IF Ref("Value", s.cond, env) = "Bool" /\ Ref("Statement", s.body, Enter(env)).ok
             THEN env ELSE IllEnv
      [] s.kind = "For"      ->
             IF /\ Ref("Value", s.lower, env) = "Int" /\ Ref("Value", s.upper, env) = "Int"
                /\ s.var = VariableSymbol(s.var.Name, TRUE, "Int")
                /\ Ref("Statement", s.body, Declare(Enter(env), s.var)).ok
             THEN env ELSE IllEnv
      [] OTHER -> IllEnv

Ref(rule, x, env) ==
    CASE rule = "Type"       -> RefType(x, env)
      [] rule = "Value"      -> Valued(RefType(x, env))
      [] rule = "Statement"  -> RefStatement(x, env)
      [] rule = "Statements" -> RefStatements(x, env)

EmptyEnv == [IllEnv EXCEPT !.ok = TRUE]
Bound == globalScope.Statement # NoElse

(***************************************************************************)
(* Properties of BindGlobalScope's result.                                 *)
(***************************************************************************)

\* A unit the Binder accepts without diagnostics is well typed by §4.3's
\* rules: conditions Bool, loop bounds Int, assignments to a mutable
\* variable of the same type, calls matching a builtin's signature, values
\* never Void, and every name bound to the innermost declaration in scope
\* (Binder.rs BindExpression_target, BindAssignmentExpression,
\* BindCallExpression, BoundScope::TryLookupVariable).
BindsWellTyped ==
    Bound /\ globalScope.Diagnostics = << >> => Ref("Statement", globalScope.Statement, EmptyEnv).ok

\* Declarations made twice directly in one block of the syntax.
RECURSIVE RedeclaredInBlock(_)
RedeclaredInBlock(s) ==
    s.kind = "BlockStatementSyntax"
    /\ \/ \E i, j \in DOMAIN s.stmts :
              /\ i < j
              /\ {s.stmts[i].kind, s.stmts[j].kind} = {"VariableDeclarationSyntax"}
              /\ s.stmts[i].token.text = s.stmts[j].token.text
       \/ \E i \in DOMAIN s.stmts : RedeclaredInBlock(s.stmts[i])

\* spec §3: shadowing across scopes is allowed, redeclaration within one
\* scope is not.  A unit that declares no name twice in one block gets no
\* VariableAlreadyDeclared, whatever it reads before a nested declaration
\* (Binder.rs BindNameExpression and BindAssignmentExpression declare the
\* variable they find in the current scope).
ShadowingAllowed ==
    Bound /\ ~RedeclaredInBlock(unit) =>
        \A i \in DOMAIN globalScope.Diagnostics :
            globalScope.Diagnostics[i].kind # "VariableAlreadyDeclared"
====
