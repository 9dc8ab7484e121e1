----------------------------- MODULE BoundTree -----------------------------
(***************************************************************************)
(* The bound tree of the compiler (src/src/compiler/Binding): the nodes    *)
(* the Binder produces, the Lowerer rewrites and the Evaluator executes,   *)
(* and the runtime values of Syntax/ValueType.rs.                         *)
(*                                                                         *)
(* Every node is a record whose field "kind" names the Rust variant.  The *)
(* Rust structs derive PartialEq, so two nodes are equal exactly when the *)
(* records are equal.  A String value is the sequence of its byte codes,  *)
(* because the evaluator inspects bytes (String -> Int conversion).        *)
(***************************************************************************)
EXTENDS Integers, Sequences

\* ValueType (Syntax/ValueType.rs): Int32(i32), Bool(bool), String(String), Null
Int32(n)  == [t |-> "Int32", v |-> n]
BoolV(b)  == [t |-> "Bool", v |-> b]
Str(s)    == [t |-> "String", v |-> s]
NullV     == [t |-> "Null", v |-> 0]

\* VariableSymbol { Name, IsReadOnly, Type } (Symbol/VariableSymbol.rs)
VariableSymbol(name, ro, type) == [Name |-> name, IsReadOnly |-> ro, Type |-> type]

\* VariableSymbolDictionary { Key, Value }: one entry of the variable table
Entry(key, value) == [Key |-> key, Value |-> value]

(***************************************************************************)
(* BoundNode: the expressions.  An operator is named by its                *)
(* BoundBinaryOperatorKind / BoundUnaryOperatorKind, a builtin function by *)
(* its name (the builtins of Symbol/BuiltinFunctions.rs differ in name).   *)
(***************************************************************************)
Literal(v)            == [kind |-> "Literal", value |-> v]
VariableExpr(sym)     == [kind |-> "Variable", var |-> sym]
Assignment(sym, e)    == [kind |-> "Assignment", var |-> sym, expr |-> e]
Unary(op, e)          == [kind |-> "Unary", op |-> op, operand |-> e]
Binary(l, op, r)      == [kind |-> "Binary", left |-> l, op |-> op, right |-> r]
Call(fn, args)        == [kind |-> "Call", fn |-> fn, args |-> args]
Conversion(type, e)   == [kind |-> "Conversion", type |-> type, expr |-> e]
ErrorExpr             == [kind |-> "Error"]

(***************************************************************************)
(* BoundStatement (Binding/BoundStatement.rs).  A label is identified by  *)
(* its BoundLabel name; the Lowerer's names are "Label" followed by one    *)
(* character, which the model keeps as that character's code.             *)
(***************************************************************************)
Block(stmts)          == [kind |-> "Block", stmts |-> stmts]
ExprStmt(e)           == [kind |-> "ExprStmt", expr |-> e]
VarDecl(sym, init)    == [kind |-> "VarDecl", var |-> sym, init |-> init]
NoElse                == [kind |-> "None"]
If(c, t, e)           == [kind |-> "If", cond |-> c, then |-> t, else |-> e]
While(c, body)        == [kind |-> "While", cond |-> c, body |-> body]
For(sym, lo, hi, body) ==
    [kind |-> "For", var |-> sym, lower |-> lo, upper |-> hi, body |-> body]
LabelStmt(l)          == [kind |-> "Label", label |-> l]
GotoStmt(l)           == [kind |-> "Goto", label |-> l]
CondGoto(l, c, jif)   ==
    [kind |-> "CondGoto", label |-> l, cond |-> c, jumpIfFalse |-> jif]

\* The statements that must not survive lowering
StructuredKinds == {"Block", "If", "While", "For"}
====
