---------------------------- MODULE Interpreter ----------------------------
(***************************************************************************)
(* What evaluating one compilation unit promises (spec.md 4.4-4.6): the   *)
(* unit's structured statements run with their usual meaning, the        *)
(* variable table binds each name to one value (a declaration inserts or  *)
(* overwrites by name), builtin calls hand (command, payload) pairs to the *)
(* effect sink in program order, and a runtime fault leaves no defined    *)
(* result.  The whole unit is one atomic step from the caller's table to  *)
(* the new one.                                                            *)
(*                                                                         *)
(* RefRun is a structural interpreter with a step budget Fuel: a unit      *)
(* that exhausts it is taken not to terminate, and then no Run step is     *)
(* ever enabled.                                                           *)
(***************************************************************************)
EXTENDS Values, TLC

CONSTANTS Programs, InitialEnv, Fuel

VARIABLES unit, env, out, phase

avars == << unit, env, out, phase >>

\* Int comparisons and Bool logic as the spec states them.
SpecBinary(op, l, r) ==
    CASE l.t = "Int32" /\ r.t = "Int32" /\ op \in IntArithmeticOps
             -> IntArithmetic(op, l.v, r.v)
      [] l.t = "Int32" /\ r.t = "Int32" /\ op = "Equals"          -> Ok(BoolV(l.v = r.v))
      [] l.t = "Int32" /\ r.t = "Int32" /\ op = "NotEquals"       -> Ok(BoolV(l.v # r.v))
      [] l.t = "Int32" /\ r.t = "Int32" /\ op = "Less"            -> Ok(BoolV(l.v < r.v))
      [] l.t = "Int32" /\ r.t = "Int32" /\ op = "LessOrEquals"    -> Ok(BoolV(l.v <= r.v))
      [] l.t = "Int32" /\ r.t = "Int32" /\ op = "Greater"         -> Ok(BoolV(l.v > r.v))
      [] l.t = "Int32" /\ r.t = "Int32" /\ op = "GreaterOrEquals" -> Ok(BoolV(l.v >= r.v))
      [] l.t = "Bool" /\ r.t = "Bool" /\ op \in {"LogicalAnd", "BitwiseAnd"} -> Ok(BoolV(l.v /\ r.v))
      [] l.t = "Bool" /\ r.t = "Bool" /\ op \in {"LogicalOr", "BitwiseOr"}   -> Ok(BoolV(l.v \/ r.v))
      [] l.t = "Bool" /\ r.t = "Bool" /\ op = "Equals"                      -> Ok(BoolV(l.v = r.v))
      [] l.t = "Bool" /\ r.t = "Bool" /\ op \in {"NotEquals", "BitwiseXor"} -> Ok(BoolV(l.v # r.v))
      [] l.t = "String" /\ r.t = "String" /\ op = "Addition" -> Ok(Str(l.v \o r.v))
      [] OTHER -> ErrR

(***************************************************************************)
(* A configuration c = [env, out, fuel, status]; status is "ok", "fault"  *)
(* or "diverge".  Expressions return [ok, val, c].                         *)
(***************************************************************************)
Fault(c) == [ok |-> FALSE, val |-> NullV, c |-> [c EXCEPT !.status = "fault"]]
Value(r, c) == IF r.res = "ok" THEN [ok |-> TRUE, val |-> r.val, c |-> c] ELSE Fault(c)
Bind(c, name, v) == [c EXCEPT !.env = (name :> v) @@ @]
Emit(c, cmd) == [c EXCEPT !.out = Append(@, cmd)]

RECURSIVE Eval(_, _)
Eval(e, c) ==
    CASE e.kind = "Literal"  -> Value(Ok(e.value), c)
      [] e.kind = "Variable" ->
             IF e.var.Name \in DOMAIN c.env THEN Value(Ok(c.env[e.var.Name]), c) ELSE Fault(c)
      [] e.kind = "Assignment" ->
             LET r == Eval(e.expr, c)
             IN  IF r.ok THEN [r EXCEPT !.c = Bind(r.c, e.var.Name, r.val)] ELSE r
      [] e.kind = "Unary" ->
             LET r == Eval(e.operand, c)
             IN  IF r.ok THEN Value(UnaryValue(e.op, r.val), r.c) ELSE r
      [] e.kind = "Binary" ->
             LET l == Eval(e.left, c)
                 r == Eval(e.right, l.c)
             IN  IF ~l.ok THEN l ELSE IF ~r.ok THEN r
                 ELSE Value(SpecBinary(e.op, l.val, r.val), r.c)
      [] e.kind = "Conversion" ->
             LET r == Eval(e.expr, c)
             IN  IF r.ok THEN Value(ConversionValue(e.type, r.val), r.c) ELSE r
      [] e.kind = "Call" /\ e.fn \in {"print", "sleep"} ->
             LET r == Eval(e.args[1], c)
                 cmd == IF e.fn = "print" THEN << "println", r.val.v >>
                        ELSE << "sleep", DecimalText(r.val.v) >>
             IN  IF r.ok THEN Value(Ok(NullV), Emit(r.c, cmd)) ELSE r
      [] e.kind = "Call" /\ e.fn = "breakpoint" -> Value(Ok(NullV), c)
      [] OTHER -> Fault(c)

\* A condition must be a Bool.
Test(e, c) ==
    LET r == Eval(e, c)
    IN  IF r.ok /\ r.val.t # "Bool" THEN Fault(c) ELSE r

RECURSIVE Exec(_, _), ExecAll(_, _)
ExecAll(stmts, c) ==
    IF stmts = << >> THEN c ELSE ExecAll(Tail(stmts), Exec(Head(stmts), c))

Exec(s, c0) ==
    LET c == [c0 EXCEPT !.fuel = @ - 1]
    IN
    IF c0.status # "ok" THEN c0
    ELSE IF c0.fuel = 0 THEN [c0 EXCEPT !.status = "diverge"]
    ELSE CASE s.kind = "Block"    -> ExecAll(s.stmts, c)
           [] s.kind = "VarDecl"  ->
                  LET r == Eval(s.init, c)
                  IN  IF r.ok THEN Bind(r.c, s.var.Name, r.val) ELSE r.c
           [] s.kind = "ExprStmt" -> Eval(s.expr, c).c
           [] s.kind = "If" ->
                  LET r == Test(s.cond, c)
                  IN  CASE ~r.ok      -> r.c
                        [] r.val.v    -> Exec(s.then, r.c)
                        [] s.else # NoElse -> Exec(s.else, r.c)
                        [] OTHER      -> r.c
           [] s.kind = "While" ->
                  LET r == Test(s.cond, c)
                  IN  CASE ~r.ok   -> r.c
                        [] r.val.v -> Exec(s, Exec(s.body, r.c))
                        [] OTHER   -> r.c
           [] s.kind = "For" ->
                  LET v == VariableExpr(s.var)
                  IN  Exec(Block(<< VarDecl(s.var, s.lower),
                                    While(Binary(v, "LessOrEquals", s.upper),
                                          Block(<< s.body,
                                                   ExprStmt(Assignment(s.var,
                                                     Binary(v, "Addition", Literal(Int32(1))))) >>)) >>),
                           c)
           [] OTHER -> [c EXCEPT !.status = "fault"]

RefRun(s, e) == Exec(s, [env |-> e, out |-> << >>, fuel |-> Fuel, status |-> "ok"])

-----------------------------------------------------------------------------
Init ==
    /\ unit \in Programs
    /\ env = InitialEnv
    /\ out = << >>
    /\ phase = "ready"

\* The unit runs to completion, or to a runtime fault, in one step.
Run ==
    /\ phase = "ready"
    /\ LET f == RefRun(unit, env)
       IN  /\ f.status # "diverge"
           /\ phase' = IF f.status = "ok" THEN "done" ELSE "fault"
           /\ env' = IF f.status = "ok" THEN f.env ELSE env
           /\ out' = IF f.status = "ok" THEN f.out ELSE out
    /\ UNCHANGED unit

SafetySpec == Init /\ [][Run]_avars

\* A unit that terminates is eventually run.
Spec == SafetySpec /\ WF_avars(Run)
====
