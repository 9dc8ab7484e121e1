------------------------------- MODULE Parser -------------------------------
(***************************************************************************)
(* The recursive-descent parser (src/src/compiler/Syntax/Parser.rs).  A    *)
(* parser state p = [tokens, pos, diags, hang, out] stands for the Parser  *)
(* struct: the filtered token list ending in EndOfFileToken, the 0-based   *)
(* position and the diagnostics.  out is a stack for the values the       *)
(* methods return to their callers: a method leaves the token or node it  *)
(* returns on top of out, and Reduce replaces the parts a method has      *)
(* collected by the node it builds from them.                             *)
(*                                                                         *)
(* The two while loops (ParseBlockStatement, ParseArguments) are the only  *)
(* places that can repeat without consuming a token.  What an iteration   *)
(* does depends only on the tokens and the position (diagnostics never     *)
(* steer the parse), so an iteration that ends where it started repeats   *)
(* forever: the model then sets hang and returns, where the code keeps    *)
(* pushing nodes and diagnostics until the heap is exhausted.              *)
(***************************************************************************)
EXTENDS Syntax

CONSTANT Inputs   \* the lexed token sequences a submission can produce

VARIABLES tokens, phase, tree
vars == <<tokens, phase, tree>>

\* Parser::init: the lexer's tokens minus whitespace and bad tokens, then EOF.
EOFToken == Token("EndOfFileToken", "", NullV)
ParserInit(lexed) ==
    [tokens |-> Append(SelectSeq(lexed, LAMBDA t : t.kind \notin {"WhitespaceToken", "BadToken"}),
                       EOFToken),
     pos |-> 0, diags |-> << >>, hang |-> FALSE, out |-> << >>]

\* Parser::Peek: past the end, the last token (EOF).
Peek(p, offset) ==
    IF p.pos + offset >= Len(p.tokens) THEN p.tokens[Len(p.tokens)]
    ELSE p.tokens[p.pos + offset + 1]
Current(p) == Peek(p, 0)

Push(p, x) == [p EXCEPT !.out = Append(@, x)]

\* (Mutant: the token after the one consumed, a read after the increment.)
NextTokenAfterIncrement(p) == Push([p EXCEPT !.pos = @ + 1], Peek(p, 1))

NextToken(p) == Push([p EXCEPT !.pos = @ + 1], Current(p))

\* Parser::MatchToken: on a mismatch, report and substitute a token of the
\* expected kind with empty text, without consuming anything.
MatchToken(p, kind) ==
    IF Current(p).kind = kind THEN NextToken(p)
    ELSE Push([p EXCEPT !.diags = Append(@, UnexpectedToken(Current(p).kind, kind))],
              Token(kind, "", NullV))

(***************************************************************************)
(* The ::new of every syntax node, from the parts on top of out.  A        *)
(* literal's value is Bool(isTrue) for a keyword, else the token's value.  *)
(***************************************************************************)
Arity == [Name |-> 1, Literal |-> 1, Assignment |-> 3, Unary |-> 2, Binary |-> 3,
          Parenthesized |-> 3, Call |-> 4, Block |-> 3, VariableDeclaration |-> 4,
          ElseClause |-> 2, If |-> 4, While |-> 3, For |-> 7, ExpressionStatement |-> 1]

SyntaxNodeOf(kind, x) ==
    CASE kind = "Name"                -> NameSyntax(x[1])
      [] kind = "Literal"             -> LiteralSyntax(x[1],
                                             IF x[1].kind \in {"TrueKeyword", "FalseKeyword"}
                                             THEN BoolV(x[1].kind = "TrueKeyword") ELSE x[1].value)
      [] kind = "Assignment"          -> AssignmentSyntax(x[1], x[2], x[3])
      [] kind = "Unary"               -> UnarySyntax(x[1], x[2])
      [] kind = "Binary"              -> BinarySyntax(x[1], x[2], x[3])
      [] kind = "Parenthesized"       -> ParenthesizedSyntax(x[1], x[2], x[3])
      [] kind = "Call"                -> CallSyntax(x[1], x[2], x[3], x[4])
      [] kind = "Block"               -> BlockSyntax(x[1], x[2], x[3])
      [] kind = "VariableDeclaration" -> VarDeclSyntax(x[1], x[2], x[3], x[4])
      [] kind = "ElseClause"          -> ElseSyntax(x[1], x[2])
      [] kind = "If"                  -> IfSyntax(x[1], x[2], x[3], x[4])
      [] kind = "While"               -> WhileSyntax(x[1], x[2], x[3])
      [] kind = "For"                 -> ForSyntax(x[1], x[2], x[3], x[4], x[5], x[6], x[7])
      [] kind = "ExpressionStatement" -> ExprStmtSyntax(x[1])

Reduce(p, kind) ==
    LET n == Arity[kind]
    IN  [p EXCEPT !.out = Append(SubSeq(@, 1, Len(@) - n),
                                 SyntaxNodeOf(kind, SubSeq(@, Len(@) - n + 1, Len(@))))]

\* The Vec a loop collects into: a list on out, and the item on top of it
\* moved into the list (a separated list tags its nodes and separators).
StartList(p) == Push(p, << >>)
AppendTop(p, tag) ==
    LET item == p.out[Len(p.out)]
        list == p.out[Len(p.out) - 1]
        entry == CASE tag = "node" -> ArgNode(item)
                   [] tag = "sep"  -> ArgSeparator(item)
                   [] OTHER        -> item
    IN  [p EXCEPT !.out = Append(SubSeq(@, 1, Len(@) - 2), Append(list, entry))]

(***************************************************************************)
(* The methods call each other recursively.  Every such call goes through *)
(* the one RECURSIVE operator Parse(rule, precedence, p), at the end of    *)
(* the module; the methods are defined in the order in which they use      *)
(* each other directly.                                                    *)
(***************************************************************************)
RECURSIVE Parse(_, _, _)

ParseNameExpression(p) == Reduce(MatchToken(p, "IdentifierToken"), "Name")

\* ParseBooleanLiteral, ParseNumberLiteral, ParseStringLiteral.
ParseLiteral(p) == Reduce(NextToken(p), "Literal")

ParseParenthesizedExpression(p) ==
    LET open  == MatchToken(p, "OpenParenthesisToken")
        e     == Parse("Expression", 0, open)
    IN  Reduce(MatchToken(e, "CloseParenthesisToken"), "Parenthesized")

\* One iteration of ParseArguments' loop, from before to after the
\* argument's expression: a comma unless `)` follows.
ParseArgumentsStep(before, e) ==
    LET more == Current(e).kind # "CloseParenthesisToken"
        next == IF more THEN AppendTop(MatchToken(AppendTop(e, "node"), "CommaToken"), "sep")
                ELSE AppendTop(e, "node")
    IN  IF next.pos = before.pos THEN [next EXCEPT !.hang = TRUE]
        ELSE Parse("ArgumentsLoop", 0, next)

\* ParseArguments: arguments until `)` or EOF.
ParseArgumentsLoop(p) ==
    IF p.hang \/ Current(p).kind \in {"CloseParenthesisToken", "EndOfFileToken"} THEN p
    ELSE ParseArgumentsStep(p, Parse("Expression", 0, p))

ParseCallExpression(p) ==
    LET id    == MatchToken(p, "IdentifierToken")
        open  == MatchToken(id, "OpenParenthesisToken")
        args  == ParseArgumentsLoop(StartList(open))
    IN  Reduce(MatchToken(args, "CloseParenthesisToken"), "Call")

\* ParsePrimaryExpression with ParseNameOrCallExpression.
ParsePrimaryExpression(p) ==
    CASE Current(p).kind = "OpenParenthesisToken" -> ParseParenthesizedExpression(p)
      [] Current(p).kind \in {"TrueKeyword", "FalseKeyword", "NumberToken", "StringToken"}
                                                  -> ParseLiteral(p)
      [] Peek(p, 0).kind = "IdentifierToken" /\ Peek(p, 1).kind = "OpenParenthesisToken"
                                                  -> ParseCallExpression(p)
      [] OTHER                                    -> ParseNameExpression(p)

\* (Mutant: `<` for `<=`, which makes equal precedences right-associative.)
ParseBinaryLoopRightAssoc(parentPrecedence, p) ==
    LET precedence == GetBinaryOperatorPrecedence(Current(p).kind)
    IN  IF precedence = 0 \/ precedence < parentPrecedence THEN p
        ELSE Parse("BinaryLoop", parentPrecedence,
                   Reduce(Parse("BinaryExpression", precedence, NextToken(p)), "Binary"))

\* ParseBinaryExpression's loop, with the left operand on top of out: fold
\* in binary operators of higher precedence than the parent's, left to right.
ParseBinaryLoop(parentPrecedence, p) ==
    LET precedence == GetBinaryOperatorPrecedence(Current(p).kind)
    IN  IF precedence = 0 \/ precedence <= parentPrecedence THEN p
        ELSE Parse("BinaryLoop", parentPrecedence,
                   Reduce(Parse("BinaryExpression", precedence, NextToken(p)), "Binary"))

\* A unary operator whose precedence is at least the parent's takes as its
\* operand a whole ParseExpression; otherwise the operand is a primary.
ParseBinaryExpression(parentPrecedence, p) ==
    LET unary == GetUnaryOperatorPrecedence(Current(p).kind)
    IN  IF unary # 0 /\ unary >= parentPrecedence
        THEN ParseBinaryLoop(parentPrecedence,
                             Reduce(Parse("Expression", 0, NextToken(p)), "Unary"))
        ELSE ParseBinaryLoop(parentPrecedence, ParsePrimaryExpression(p))

\* An identifier followed by `=` starts a right-associative assignment.
ParseAssignmentExpression(p) ==
    IF Peek(p, 0).kind = "IdentifierToken" /\ Peek(p, 1).kind = "EqualsToken"
    THEN Reduce(Parse("AssignmentExpression", 0, NextToken(NextToken(p))), "Assignment")
    ELSE ParseBinaryExpression(0, p)

ParseExpression(p) == ParseAssignmentExpression(p)

ParseExpressionStatement(p) == Reduce(Parse("Expression", 0, p), "ExpressionStatement")

\* One iteration of ParseBlockStatement's loop, from before to after the
\* statement.
ParseBlockStep(before, s) ==
    IF s.pos = before.pos THEN [AppendTop(s, "stmt") EXCEPT !.hang = TRUE]
    ELSE Parse("BlockLoop", 0, AppendTop(s, "stmt"))

\* ParseBlockStatement's loop: statements until `}` or EOF.
ParseBlockLoop(p) ==
    IF p.hang \/ Current(p).kind \in {"EndOfFileToken", "CloseBraceToken"} THEN p
    ELSE ParseBlockStep(p, Parse("Statement", 0, p))

ParseBlockStatement(p) ==
    LET open == MatchToken(p, "OpenBraceToken")
        body == ParseBlockLoop(StartList(open))
    IN  Reduce(MatchToken(body, "CloseBraceToken"), "Block")

\* `let` or `var`, an identifier, `=`, the initializer.
ParseVariableDeclaration(p) ==
    LET kw == MatchToken(p, IF Current(p).kind = "LetKeyword" THEN "LetKeyword" ELSE "VarKeyword")
        eq == MatchToken(MatchToken(kw, "IdentifierToken"), "EqualsToken")
    IN  Reduce(Parse("Expression", 0, eq), "VariableDeclaration")

\* ParseElseClause: None unless the next token is `else`.
ParseElseClause(p) ==
    IF Current(p).kind # "ElseKeyword" THEN Push(p, NoElseClause)
    ELSE Reduce(Parse("Statement", 0, NextToken(p)), "ElseClause")

ParseIfStatement(p) ==
    LET cond == Parse("Expression", 0, MatchToken(p, "IfKeyword"))
    IN  Reduce(ParseElseClause(Parse("Statement", 0, cond)), "If")

ParseWhileStatement(p) ==
    LET cond == Parse("Expression", 0, MatchToken(p, "WhileKeyword"))
    IN  Reduce(Parse("Statement", 0, cond), "While")

\* `for` identifier `=` lower `to` upper body.
ParseForStatement(p) ==
    LET eq    == MatchToken(MatchToken(MatchToken(p, "ForKeyword"), "IdentifierToken"), "EqualsToken")
        lower == Parse("Expression", 0, eq)
        upper == Parse("Expression", 0, MatchToken(lower, "ToKeyword"))
    IN  Reduce(Parse("Statement", 0, upper), "For")

ParseStatement(p) ==
    CASE Current(p).kind = "OpenBraceToken"               -> ParseBlockStatement(p)
      [] Current(p).kind \in {"LetKeyword", "VarKeyword"} -> ParseVariableDeclaration(p)
      [] Current(p).kind = "IfKeyword"                    -> ParseIfStatement(p)
      [] Current(p).kind = "WhileKeyword"                 -> ParseWhileStatement(p)
      [] Current(p).kind = "ForKeyword"                   -> ParseForStatement(p)
      [] OTHER                                            -> ParseExpressionStatement(p)

Parse(rule, precedence, p) ==
    CASE rule = "Statement"            -> ParseStatement(p)
      [] rule = "BlockLoop"            -> ParseBlockLoop(p)
      [] rule = "Expression"           -> ParseExpression(p)
      [] rule = "AssignmentExpression" -> ParseAssignmentExpression(p)
      [] rule = "BinaryExpression"     -> ParseBinaryExpression(precedence, p)
      [] rule = "BinaryLoop"           -> ParseBinaryLoop(precedence, p)
      [] rule = "ArgumentsLoop"        -> ParseArgumentsLoop(p)

\* The CompilationUnitSyntax and diagnostics SyntaxTree::new keeps.
CompilationUnit(p) == [root |-> p.out[1], diags |-> p.diags, hang |-> p.hang]

\* ParseCompilationUnit: one statement, then EOF.
ParseCompilationUnit(lexed) ==
    CompilationUnit(MatchToken(Parse("Statement", 0, ParserInit(lexed)), "EndOfFileToken"))

(***************************************************************************)
(* SyntaxTree::new as one step: the lexed text is parsed.  A parse that   *)
(* hangs never returns; its state "looping" has no successor.             *)
(***************************************************************************)
NoTree == [root |-> NoElseClause, diags |-> << >>, hang |-> FALSE]

\* The parse of each input, a constant (the parser is a pure function of
\* the tokens).
ParsedInputs == [t \in Inputs |-> ParseCompilationUnit(t)]

Init == /\ tokens \in Inputs
        /\ phase = "lexed"
        /\ tree = NoTree

SyntaxTreeNew ==
    /\ phase = "lexed"
    /\ tree' = ParsedInputs[tokens]
    /\ phase' = IF ParsedInputs[tokens].hang THEN "looping" ELSE "parsed"
    /\ UNCHANGED tokens

Next == SyntaxTreeNew

\* The parse runs on the one kernel thread, with no await inside it.
Spec == Init /\ [][Next]_vars /\ WF_vars(Next)
====
