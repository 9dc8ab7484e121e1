---------------------------- MODULE MCEvaluator ----------------------------
(***************************************************************************)
(* Model-checking instance of Evaluator: small units, as the Binder would *)
(* bind them, over the variables a (declared `var a = 0`) and the loop     *)
(* variable i (read-only Int, as BindForStatement declares it).            *)
(***************************************************************************)
EXTENDS Evaluator

CONSTANT Fuel

A == VariableSymbol("a", FALSE, "Int")
B == VariableSymbol("b", FALSE, "Int")
I == VariableSymbol("i", TRUE, "Int")
IntLit(n) == Literal(Int32(n))
Increment(x, e) == ExprStmt(Assignment(x, Binary(VariableExpr(x), "Addition", e)))
PrintInt(x) == ExprStmt(Call("print", << Conversion("String", VariableExpr(x)) >>))

DeclA == VarDecl(A, IntLit(0))
IncA  == Increment(A, IntLit(1))
PrintA == PrintInt(A)
Simple == {IncA, PrintA}
Conditions == {Binary(VariableExpr(A), "Less", IntLit(2)),
               Binary(VariableExpr(A), "GreaterOrEquals", IntLit(1))}

\* Statements with no if, while or for inside, and loop bodies built from them.
Flat == Simple \cup {Block(<< x, y >>) : x, y \in Simple}
ForLoop(body) == For(I, IntLit(0), IntLit(1), body)

Structured(Bodies) ==
    {If(c, b, NoElse) : c \in Conditions, b \in Bodies}
    \cup {If(c, b1, b2) : c \in Conditions, b1, b2 \in Bodies}
    \cup {While(c, b) : c \in Conditions, b \in Bodies}
    \cup {ForLoop(b) : b \in Bodies \cup {Increment(A, VariableExpr(I)), PrintInt(I)}}

EmptyTable == << >>

Unit(s) == Block(<< DeclA, s >>)

\* Loop bodies free of if/while/for; ifs nested in ifs; two statements in a
\* row, each declaring i at most once.
PassPrograms ==
    {Unit(s) : s \in Flat \cup Structured(Flat)}
    \cup {Unit(If(c, s, NoElse)) : c \in Conditions, s \in Structured(Simple)}
    \cup ({Unit(Block(<< s1, s2 >>)) : s1, s2 \in Structured(Simple)}
      \ {Unit(Block(<< ForLoop(b1), ForLoop(b2) >>)) : b1, b2 \in Flat \cup {Increment(A, VariableExpr(I)), PrintInt(I)}})

\* Units that reach i32's edges: a counter run past MaxInt, a for loop whose
\* upper bound is MaxInt (its increment overflows), a division by zero.
EdgePrograms ==
    {Unit(While(Binary(VariableExpr(A), "GreaterOrEquals", IntLit(0)), IncA)),
     Unit(For(I, IntLit(MaxInt - 1), IntLit(MaxInt), PrintInt(I))),
     Unit(ExprStmt(Assignment(A, Binary(IntLit(1), "Division", VariableExpr(A)))))}

\* An if, while or for directly inside a while or for body.
NestedPrograms ==
    {Unit(While(c, s)) : c \in Conditions, s \in Structured(Simple)}
    \cup {Unit(ForLoop(s)) : s \in Structured(Simple)}

\* `a != 1` as a condition.
NotEqualsPrograms ==
    {Unit(s) : s \in {If(Binary(VariableExpr(A), "NotEquals", IntLit(1)), PrintA, NoElse),
                      While(Binary(VariableExpr(A), "NotEquals", IntLit(2)), IncA)}}

\* A declaration executed twice: in a loop body, or by two loops over i.
RedeclarationPrograms ==
    {Unit(ForLoop(Block(<< VarDecl(B, VariableExpr(I)), PrintInt(B) >>))),
     Unit(Block(<< ForLoop(PrintInt(I)), ForLoop(PrintInt(I)) >>))}

CheckedPrograms == PassPrograms \cup EdgePrograms

\* Both families in one model: safety is checked on all of them, liveness on
\* the checked ones (the nested ones hang, see MCEvaluatorNestedHang.cfg).
AllPrograms == CheckedPrograms \cup NestedPrograms

\* The table as the Interpreter sees it: each name bound to the value a read finds.
TableEnv(t) == [n \in {t[i].Key.Name : i \in DOMAIN t} |-> t[FirstByName(t, n)].Value]

Abs == INSTANCE Interpreter WITH
    unit <- program,
    env <- TableEnv(IF status = "done" THEN variables ELSE InitialTable),
    out <- IF status = "done" THEN commands ELSE << >>,
    phase <- CASE status = "running" -> "ready"
               [] status = "done"    -> "done"
               [] status = "panic"   -> "fault",
    InitialEnv <- TableEnv(InitialTable)

(***************************************************************************)
(* The lowered, flattened unit run by Evaluate implements the structured  *)
(* semantics: when Evaluate returns, the variable table and the effect-   *)
(* sink commands are those the structured reading gives; it panics only   *)
(* where that reading faults; and it never returns from a unit that runs  *)
(* forever.  This is about Lowerer::Lower (label numbering, jump polarity, *)
(* Flatten's order) and Evaluator::Evaluate (label map, goto, conditional *)
(* goto, the table).                                                       *)
(***************************************************************************)
ImplementsInterpreter == Abs!SafetySpec

(***************************************************************************)
(* Abs!Spec's fairness, stated without ENABLED: a unit whose structured   *)
(* reading terminates (or faults) makes Evaluate return (or panic).        *)
(* About the loop of Evaluator::Evaluate advancing index: a goto to a      *)
(* missing label or an unlowered statement leaves it where it is.          *)
(***************************************************************************)
EvaluationEnds ==
    Abs!RefRun(program, TableEnv(InitialTable)).status # "diverge"
        => <>(status # "running")

(***************************************************************************)
(* EvaluationEnds for the units whose loop bodies hold no if, while or    *)
(* for, checked in the model that also runs the nested units.  Same code  *)
(* as EvaluationEnds: Evaluator::Evaluate's loop advancing index.         *)
(***************************************************************************)
FlatBodiesEnd == program \in CheckedPrograms => EvaluationEnds

(***************************************************************************)
(* Lowering leaves no if, while or for in the flattened block (spec 4.4:  *)
(* the rewriter revisits its own output until no structured node remains);*)
(* Evaluate has no arm for them.                                          *)
(***************************************************************************)
LoweredIsFlat == \A p \in 1 .. Len(root) : root[p].kind \notin StructuredKinds

(***************************************************************************)
(* The variable table binds each name once (spec 4.5: a declaration       *)
(* inserts or overwrites by name), so a read and a write of a name always *)
(* meet the same entry.  About EvaluateVariableDeclaration's search by    *)
(* whole symbol.                                                           *)
(***************************************************************************)
TableOneEntryPerName ==
    \A i, j \in DOMAIN variables :
        i # j => variables[i].Key.Name # variables[j].Key.Name
====
