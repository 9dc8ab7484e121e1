----------------------------- MODULE Evaluator -----------------------------
(***************************************************************************)
(* The evaluator (src/src/compiler/Evaluator.rs) running one lowered      *)
(* compilation unit: Evaluator::Evaluate's instruction-pointer loop over   *)
(* the flattened statements, one action per arm of its match, with the    *)
(* recursive expression evaluation as operators.  The unit is lowered by  *)
(* the Lowerer (Compilation::Evaluate -> Lowerer::Lower).                  *)
(***************************************************************************)
EXTENDS Lowerer, Values

CONSTANTS
    Programs,       \* the bound root statements of the units to run
    InitialTable,   \* the REPL variable table handed in by compile_run
    HeapEntries,    \* table length at which a push exhausts the kernel heap
    SinkCapacity,   \* capacity of the effect sink's command queue
    TimerValues     \* values TIMER_COUNT may have when rand() reads it

VARIABLES
    program,    \* the unit's bound statement, before lowering
    root,       \* self.root.Statements: the lowered, flattened statements
    index,      \* the instruction pointer, 0-based as in the code
    variables,  \* self.variables: a sequence of VariableSymbolDictionary
    lastValue,  \* self.lastValue
    commands,   \* (command, payload) pairs handed to the effect sink
    status      \* "running", "done" (Evaluate returned) or "panic"

vars == << program, root, index, variables, lastValue, commands, status >>

(***************************************************************************)
(* Expression evaluation.  A state st = [vars, cmds, timer] is threaded   *)
(* through the tree walk; every operator returns [res, val, st] with res  *)
(* "ok", "err" (Err(())) or "panic" (an unwrap of Err, or an arithmetic   *)
(* panic).  A panic halts the kernel, so the state it carries is moot.    *)
(***************************************************************************)
OkS(v, st)  == [res |-> "ok", val |-> v, st |-> st]
ErrS(st)    == [res |-> "err", val |-> NullV, st |-> st]
PanicS(st)  == [res |-> "panic", val |-> NullV, st |-> st]
Lift(r, st) == [res |-> r.res, val |-> r.val, st |-> st]

\* The effect sink (terminal::task1::add_command): a bounded queue that
\* drops the command when it is full.
SinkPush(cmds, c) == IF Len(cmds) < SinkCapacity THEN Append(cmds, c) ELSE cmds

\* Position of the first table entry whose Key.Name is name, 0 if none.
FirstByName(table, name) == SelectInSeq(table, LAMBDA x : x.Key.Name = name)

EvaluateLiteralExpression(e, st) ==
    IF e.value.t = "Null" THEN ErrS(st) ELSE OkS(e.value, st)

EvaluateVariableExpression(e, st) ==
    LET i == FirstByName(st.vars, e.var.Name)
    IN  IF i = 0 THEN ErrS(st) ELSE OkS(st.vars[i].Value, st)

\* The Int32 comparisons, with NotEquals evaluated as `l == r`.
IntComparison(op, l, r) ==
    CASE op = "Equals"          -> l = r
      [] op = "NotEquals"       -> l = r
      [] op = "Less"            -> l < r
      [] op = "LessOrEquals"    -> l <= r
      [] op = "Greater"         -> l > r
      [] op = "GreaterOrEquals" -> l >= r

BoolBinary(op, l, r) ==
    CASE op \in {"LogicalAnd", "BitwiseAnd"} -> l /\ r
      [] op \in {"LogicalOr", "BitwiseOr"}   -> l \/ r
      [] op = "Equals"                       -> l = r
      [] op \in {"NotEquals", "BitwiseXor"}  -> l # r

IntComparisonOps == {"Equals", "NotEquals", "Less", "LessOrEquals",
                     "Greater", "GreaterOrEquals"}
BoolOps == {"LogicalAnd", "LogicalOr", "Equals", "NotEquals",
            "BitwiseAnd", "BitwiseOr", "BitwiseXor"}

\* The match on operator.Kind and the operand variants of EvaluateBinaryExpression.
BinaryValue(op, l, r) ==
    CASE l.t = "Int32" /\ r.t = "Int32" /\ op \in IntArithmeticOps
             -> IntArithmetic(op, l.v, r.v)
      [] l.t = "Int32" /\ r.t = "Int32" /\ op \in IntComparisonOps
             -> Ok(BoolV(IntComparison(op, l.v, r.v)))
      [] l.t = "Bool" /\ r.t = "Bool" /\ op \in BoolOps
             -> Ok(BoolV(BoolBinary(op, l.v, r.v)))
      [] l.t = "String" /\ r.t = "String" /\ op = "Addition"
             -> Ok(Str(l.v \o r.v))
      [] OTHER -> ErrR

\* rand(r): TIMER_COUNT % (r as u64 + 1).  r = -1 makes the divisor 0
\* (after a u64 overflow); a more negative r makes it exceed the counter.
RandValue(r, timer) ==
    CASE r >= 0  -> Ok(Int32(timer % (r + 1)))
      [] r = -1  -> PanicR
      [] r < -1  -> Ok(Int32(WrapInt(timer)))

RECURSIVE EvaluateExpression(_, _)

\* An operand r evaluated and unwrapped, then res computed from it; a failed
\* operand panics.
Unwrapped(r, res) == IF r.res # "ok" THEN PanicS(r.st) ELSE Lift(res, r.st)

EvaluateAssignmentExpression(e, st) ==
    LET r == EvaluateExpression(e.expr, st)
        i == FirstByName(r.st.vars, e.var.Name)
        vd == Entry(e.var, r.val)
    IN  CASE r.res # "ok" -> PanicS(r.st)
          [] i # 0        -> OkS(r.val, [r.st EXCEPT !.vars[i] = vd])
          [] OTHER        -> OkS(r.val, [r.st EXCEPT !.vars = Append(@, vd)])

EvaluateBinaryExpression(e, st) ==
    LET l == EvaluateExpression(e.left, st)
        r == EvaluateExpression(e.right, l.st)
    IN  IF l.res # "ok" THEN PanicS(l.st)
        ELSE Unwrapped(r, BinaryValue(e.op, l.val, r.val))

EvaluateCallExpression(e, st) ==
    LET p == EvaluateExpression(e.args[1], st)
        Effect(name, text) == OkS(NullV, [p.st EXCEPT !.cmds = SinkPush(@, << name, text >>)])
    IN  CASE e.fn = "print" ->
                 IF p.res # "ok" THEN PanicS(p.st)
                 ELSE IF p.val.t = "String" THEN Effect("println", p.val.v)
                 ELSE OkS(NullV, p.st)
          [] e.fn = "sleep" ->
                 IF p.res # "ok" THEN PanicS(p.st)
                 ELSE IF p.val.t = "Int32" THEN Effect("sleep", DecimalText(p.val.v))
                 ELSE OkS(NullV, p.st)
          [] e.fn = "rand" ->
                 IF p.res # "ok" THEN PanicS(p.st)
                 ELSE IF p.val.t = "Int32" THEN Lift(RandValue(p.val.v, st.timer), p.st)
                 ELSE ErrS(p.st)
          [] e.fn = "breakpoint" -> OkS(NullV, st)
          [] OTHER -> ErrS(st)          \* input() and unknown functions

EvaluateExpression(e, st) ==
    CASE e.kind = "Literal"    -> EvaluateLiteralExpression(e, st)
      [] e.kind = "Variable"   -> EvaluateVariableExpression(e, st)
      [] e.kind = "Assignment" -> EvaluateAssignmentExpression(e, st)
      [] e.kind = "Unary"      ->
             LET r == EvaluateExpression(e.operand, st)
             IN  Unwrapped(r, UnaryValue(e.op, r.val))
      [] e.kind = "Binary"     -> EvaluateBinaryExpression(e, st)
      [] e.kind = "Call"       -> EvaluateCallExpression(e, st)
      [] e.kind = "Conversion" ->
             IF e.type \notin {"Bool", "Int", "String"} THEN ErrS(st)
             ELSE LET r == EvaluateExpression(e.expr, st)
                  IN  Unwrapped(r, ConversionValue(e.type, r.val))
      [] OTHER                 -> ErrS(st)      \* BoundErrorExpression

(***************************************************************************)
(* The loop of Evaluator::Evaluate.  labelToIndex maps a label to the     *)
(* position after its Label statement; a goto scans the whole list without *)
(* a break, so the last match wins, and an unknown label leaves index as   *)
(* it was.                                                                 *)
(***************************************************************************)
LabelTargets(l) == {p \in 1 .. Len(root) : root[p] = LabelStmt(l)}
\* Faulty variant of JumpTo: the label maps to its own index + 2.
JumpToPastLabel(l) ==
    IF LabelTargets(l) = {} THEN index
    ELSE 1 + CHOOSE p \in LabelTargets(l) : \A q \in LabelTargets(l) : q <= p
JumpTo(l) == IF LabelTargets(l) = {} THEN index
             ELSE CHOOSE p \in LabelTargets(l) : \A q \in LabelTargets(l) : q <= p

Current == root[index + 1]
Running == status = "running" /\ index < Len(root)
State(t) == [vars |-> variables, cmds |-> commands, timer |-> t]

\* The outcome of a statement: a panic halts; otherwise the table grows or
\* changes as r.st says, and a table past HeapEntries exhausts the heap.
Commit(r, newTable, newLast, newIndex) ==
    IF r.res = "panic" \/ Len(newTable) > HeapEntries
    THEN status' = "panic" /\ UNCHANGED << index, variables, lastValue, commands >>
    ELSE /\ variables' = newTable
         /\ commands' = r.st.cmds
         /\ lastValue' = newLast
         /\ index' = newIndex
         /\ UNCHANGED status

\* EvaluateVariableDeclaration: a new entry is pushed only when no entry has a
\* Key equal to the declared symbol, and the pushed Key is {Name, false, Error}.
\* Err from the initializer is unwrapped (a panic) on both paths.
EvaluateVariableDeclaration(t) ==
    /\ Running /\ Current.kind = "VarDecl"
    /\ LET s     == Current
           r     == EvaluateExpression(s.init, State(t))
           found == \E i \in DOMAIN r.st.vars : r.st.vars[i].Key = s.var
           table == IF found THEN r.st.vars
                    ELSE Append(r.st.vars, Entry(VariableSymbol(s.var.Name, FALSE, "Error"), r.val))
       IN  Commit(IF r.res = "ok" THEN r ELSE PanicS(r.st), table, r.val, index + 1)
    /\ UNCHANGED << program, root >>

\* EvaluateExpressionStatement: Err sets lastValue to Null.
EvaluateExpressionStatement(t) ==
    /\ Running /\ Current.kind = "ExprStmt"
    /\ LET r == EvaluateExpression(Current.expr, State(t))
       IN  Commit(r, r.st.vars, IF r.res = "ok" THEN r.val ELSE NullV, index + 1)
    /\ UNCHANGED << program, root >>

EvaluateGoto ==
    /\ Running /\ Current.kind = "Goto"
    /\ index' = JumpTo(Current.label)
    /\ UNCHANGED << program, root, variables, lastValue, commands, status >>

\* The condition is unwrapped; a value that is not a Bool counts as true.
EvaluateConditionalGoto(t) ==
    /\ Running /\ Current.kind = "CondGoto"
    /\ LET s    == Current
           r    == EvaluateExpression(s.cond, State(t))
           cond == IF r.val.t = "Bool" THEN r.val.v ELSE TRUE
           jump == (cond /\ ~s.jumpIfFalse) \/ (~cond /\ s.jumpIfFalse)
       IN  Commit(IF r.res = "ok" THEN r ELSE PanicS(r.st), r.st.vars, lastValue,
                  IF jump THEN JumpTo(s.label) ELSE index + 1)
    /\ UNCHANGED << program, root >>

\* Faulty variant of EvaluateLabel: the Label arm forgets `index += 1`.
EvaluateLabelNoAdvance ==
    /\ Running /\ Current.kind = "Label"
    /\ UNCHANGED vars

EvaluateLabel ==
    /\ Running /\ Current.kind = "Label"
    /\ index' = index + 1
    /\ UNCHANGED << program, root, variables, lastValue, commands, status >>

\* `_ => {}`: an if, while or for left in the flattened block is matched by
\* no arm, and index is not advanced.
EvaluateUnhandledStatement ==
    /\ Running /\ Current.kind \in StructuredKinds
    /\ UNCHANGED vars

\* The loop condition fails: Evaluate returns (Ok(lastValue), variables).
Return ==
    /\ status = "running" /\ index >= Len(root)
    /\ status' = "done"
    /\ UNCHANGED << program, root, index, variables, lastValue, commands >>

Init ==
    /\ program \in Programs
    /\ root = Lower(program)
    /\ index = 0
    /\ variables = InitialTable
    /\ lastValue = NullV
    /\ commands = << >>
    /\ status = "running"

Next ==
    \/ \E t \in TimerValues :
          \/ EvaluateVariableDeclaration(t)
          \/ EvaluateExpressionStatement(t)
          \/ EvaluateConditionalGoto(t)
    \/ EvaluateGoto
    \/ EvaluateLabel
    \/ EvaluateUnhandledStatement
    \/ Return

\* Evaluate is a plain loop on one kernel thread: it keeps stepping.
Spec == Init /\ [][Next]_vars /\ WF_vars(Next)

-----------------------------------------------------------------------------
IsValue(x) ==
    \/ x.t = "Int32" /\ x.v \in IntRange
    \/ x.t = "Bool" /\ x.v \in BOOLEAN
    \/ x.t = "String" /\ x.v \in Seq(0 .. 255)
    \/ x = NullV

TypeOK ==
    /\ status \in {"running", "done", "panic"}
    /\ index \in 0 .. Len(root)
    /\ \A i \in DOMAIN variables : IsValue(variables[i].Value)
    /\ IsValue(lastValue)
    /\ Len(commands) <= SinkCapacity
====
