------------------------------- MODULE Parser -------------------------------
(***************************************************************************)
(* The recursive-descent parser of src/src/parser/parsers/ and the loop of *)
(* main that calls it until the text ends.  A token is the word it is      *)
(* written with.  The buffer between lexer and parser is the subject of    *)
(* TokenBuffer; here looking ahead simply reads the text.                  *)
(*                                                                         *)
(* A parsing operator takes the parser and returns [p, t], the parser      *)
(* afterwards and the tree read.  The tree may be Error, the one error     *)
(* expression, or Null, the null pointer of a statement or of a function   *)
(* that failed.  Reading through it (Deref) ends the compiler.             *)
(***************************************************************************)
EXTENDS Syntax, FiniteSetsExt

CONSTANTS Families,    \* texts: up to length words between a beginning and an end
          Meanings,    \* statements to write down and parse back
          ErrorLimit   \* the errors a Diagnostic_Pool counts

VARIABLES parser, program, phase, meant
vars == <<parser, program, phase, meant>>

----------------------------------------------------------------------------
(* The parser itself: where it is, and what of the diagnostics main asks   *)
(* for: whether there are any, and how many are counted as errors.         *)

ParserCreate(text) == [text |-> text, pos |-> 1, errors |-> 0, told |-> FALSE, aborted |-> FALSE]

Ahead(p, n) == IF p.pos + n <= Len(p.text) THEN p.text[p.pos + n] ELSE Eof
Current(p)  == Ahead(p, 0)
IsDone(p)   == p.pos > Len(p.text)
Advance(p)  == IF IsDone(p) THEN p ELSE [p EXCEPT !.pos = @ + 1]
TryExpect(p, token) == IF Current(p) = token THEN Advance(p) ELSE p

\* Fault: the limit is not looked at.
ReportUnlimited(p) == [p EXCEPT !.told = TRUE, !.errors = @ + 1]
\* diagpool_report_diag counts an error, diagpool_report only keeps it.
ReportDiag(p) == [p EXCEPT !.told = TRUE, !.errors = IF @ >= ErrorLimit THEN @ ELSE @ + 1]
Report(p)     == [p EXCEPT !.told = TRUE]
\* MINI_UNREACHABLE ends the compiler; nothing that is read afterwards counts.
Unreachable(p) == [p EXCEPT !.aborted = TRUE, !.pos = Len(p.text) + 1]

\* Fault: the missing token is taken for granted.
ExpectQuietly(p, token) == TryExpect(p, token)
Expect(p, token) == IF Current(p) = token THEN Advance(p) ELSE Report(p)

\* Fault: recovery stops at the token, as its callers ask it to.
SkipStopping(p, past, kinds) ==
  LET hits == {i \in p.pos .. Len(p.text) : p.text[i] \in kinds} IN
  IF hits = {} THEN [p |-> [p EXCEPT !.pos = Len(p.text) + 1], found |-> FALSE]
               ELSE [p |-> [p EXCEPT !.pos = Min(hits) + (IF past THEN 1 ELSE 0)], found |-> TRUE]
\* skip_until_one_of: unless it is to go past the token it does not stop
SkipUntilOneOf(p, past, kinds) ==
  LET hits == {i \in p.pos .. Len(p.text) : past /\ p.text[i] \in kinds} IN
  IF hits = {} THEN [p |-> [p EXCEPT !.pos = Len(p.text) + 1], found |-> FALSE]
               ELSE [p |-> [p EXCEPT !.pos = Min(hits) + 1], found |-> TRUE]

Result(p, t) == [p |-> p, t |-> t]

\* A member of the expression is read, its locus or its kind: the compiler
\* crashes when parse_function returned nullptr for it.
Deref(r) == IF r.t = Null THEN Result(Unreachable(r.p), Error) ELSE r

\* Whatever is inside something else, and what is read over and over until
\* something else follows, is read through Parse: what is the word it begins with
\* or a name for it, p the parser (or the result so far), with what else it takes.
RECURSIVE Parse(_, _, _)
ParseStatement(p)      == Parse("statement", p, <<>>)
ParseExpression(p)     == Parse("expression", p, <<>>)
ParseUnary(p, hinting) == Parse("unary", p, hinting)
ParseBlock(p)          == Parse("{", p, <<>>)
ParseIfHeader(p)       == Parse("header", p, <<>>)

----------------------------------------------------------------------------
(* parse_typehint.cc; a type hint may be any unary expression              *)

ParseTypehintExpression(p) == ParseUnary(p, TRUE)

ParsePointer(p) ==
  LET target == ParseTypehintExpression(TryExpect(p, "const"))
  IN  Result(target.p, Pointer(Current(p) = "const", target.t))
ParseArray(p) ==
  IF Current(p) = "]" THEN Result(Unreachable(p), Error)
  ELSE LET count   == ParseExpression(p)
           element == ParseTypehintExpression(Expect(count.p, "]"))
       IN  Result(element.p, Array(count.t, element.t))
\* the narrow integers fall through to char; isize and usize have no case
ParseTypeWord(p) ==
  LET word == Current(p) IN
  CASE word \in {"int8", "int16", "int32"} -> Result(Advance(p), Typehint("char"))
    [] word \in TypeWords \ {"isize", "usize"} -> Result(Advance(p), Typehint(word))
    [] OTHER -> Result(Unreachable(p), Error)
ParseTypehint(p) ==
  CASE Current(p) = "*" -> ParsePointer(Advance(p))
    [] Current(p) = "[" -> ParseArray(Advance(p))
    [] OTHER -> ParseTypeWord(p)

----------------------------------------------------------------------------
(* parse_expressions.cc                                                    *)

ParseParenthesised(p) ==
  LET inner == ParseExpression(p) IN Result(Expect(inner.p, ")"), inner.t)
ParseCast(p) ==
  LET typed   == Current(p) = "<"
      hint    == IF typed THEN ParseTypehintExpression(Advance(p)) ELSE Result(p, Null)
      operand == Deref(ParseUnary(IF typed THEN Expect(hint.p, ">") ELSE p, FALSE))
  IN  IF operand.t = Error THEN operand
      ELSE Result(operand.p, CastTo(IF typed THEN <<hint.t>> ELSE <<>>, operand.t))

\* hinting: is_within_typehint_context
ParsePrimary(p, hinting) ==
  LET token == Current(p) IN
  CASE token = "[" -> ParseTypehint(p)
    [] token = "#eval" /\ ~hinting ->
         LET e == Deref(ParseExpression(Advance(p))) IN Result(e.p, Eval(e.t))
    [] token \in IntLiterals /\ ~hinting -> Result(Advance(p), Integer(token))
    [] token \in CStrings /\ ~hinting -> Result(Advance(p), CString(token))
    [] token \in Names -> Result(Advance(p), Identifier(token))
    [] token = "(" -> ParseParenthesised(Advance(p))
    [] token = "cast" /\ ~hinting -> ParseCast(Advance(p))
    [] hinting /\ token \notin Names \cup {"[", "("} -> ParseTypehint(p)
    [] OTHER -> Result(ReportDiag(p), Error)

ParseDereferences(base) ==
  IF Current(base.p) # "^" THEN base
  ELSE LET b == Deref(base) IN Parse("dereferences", Result(Advance(b.p), Dereference(b.t)), <<>>)
ParseDereference(p, hinting) ==
  LET base == ParsePrimary(p, hinting) IN IF hinting THEN base ELSE Parse("dereferences", base, <<>>)

ParseArguments(p, args) ==
  LET named == Current(p) = ":"
      name  == IF named THEN <<Ahead(p, 1)>> ELSE <<>>
      value == ParseExpression(IF named THEN Advance(Advance(p)) ELSE p)
      more  == Append(args, [name |-> name, argument |-> value.t])
  IN  CASE Current(p) = ")" -> Result(p, args)
        [] named /\ name[1] \notin Names -> Result(Unreachable(p), args)
        [] OTHER -> IF Current(value.p) = "," THEN Parse("arguments", Advance(value.p), more)
                                              ELSE Result(value.p, more)
ParseCall(base) ==
  LET args == Parse("arguments", Advance(base.p), <<>>)
  IN  Result(Expect(args.p, ")"), Call(base.t, args.t))
ParseSubscript(base) ==
  LET index == ParseExpression(Advance(base.p))
  IN  Result(Expect(index.p, "]"), Subscript(base.t, index.t))
ParseMember(base) == Result(Advance(Advance(base.p)), Member(base.t, Ahead(base.p, 1)))

\* within a type hint a `(` is read, and nothing is made of it
ParsePostfixes(base, hinting) ==
  LET here == IF hinting THEN [base EXCEPT !.p = TryExpect(@, "(")] ELSE base IN
  CASE Current(here.p) = "(" /\ ~hinting -> Parse("postfixes", ParseCall(Deref(here)), hinting)
    [] Current(here.p) = "[" -> Parse("postfixes", ParseSubscript(Deref(here)), hinting)
    [] Current(here.p) = "." ->
         IF Ahead(here.p, 1) \in Names THEN Parse("postfixes", ParseMember(Deref(here)), hinting)
         ELSE Result(ReportDiag(Advance(here.p)), Error)
    [] OTHER -> here
ParsePostfix(p, hinting) == Parse("postfixes", ParseDereference(p, hinting), hinting)

UnaryOrHint(p, hinting) ==
  LET token == Current(p)
      address == Deref(ParseExpression(Advance(p)))
      operand == Deref(ParsePostfix(Advance(p), FALSE))
  IN CASE token = "*" /\ hinting -> ParseTypehint(p)
       [] token = "*" /\ ~hinting -> Result(address.p, AddressOf(address.t))
       [] token \in {"!", "-", "+", "++", "--"} /\ ~hinting -> Result(operand.p, Unary(token, operand.t))
       [] OTHER -> ParsePostfix(p, hinting)

\* The binary levels, loosest first: parse_relational, parse_comparison,
\* parse_assignment, parse_term, parse_factor; beneath them parse_unary.
Operators == << {"==", "!="}, {"<", ">", "<=", ">="}, {"="}, {"+", "-"}, {"*", "/"} >>
\* Fault: a term takes another term to its right.
RightLevelOfTerm == <<2, 4, 1, 4, 6>>
\* the level of the operand to the right: a comparison's is a term, that of an
\* assignment everything
RightLevel == <<2, 4, 1, 5, 6>>

ParseRest(n, left) ==
  IF Current(left.p) \notin Operators[n] THEN left
  ELSE LET l     == Deref(left)
           right == Deref(Parse("level", Advance(l.p), RightLevel[n]))
           both  == Result(right.p, Binop(Current(left.p), l.t, right.t))
       IN  IF n = 3 THEN both ELSE Parse("rest", both, n)
ParseLevel(n, p) == IF n = 6 THEN ParseUnary(p, FALSE) ELSE Parse("rest", Parse("level", p, n + 1), n)

ParseUse(p) == IF Current(p) \in Paths THEN Result(Advance(p), Use(Current(p)))
                                       ELSE Result(ReportDiag(p), Error)
----------------------------------------------------------------------------
(* parse_function.cc                                                       *)

\* a parameter without a name is reported and kept; ok is FALSE at the end
ParseParameter(p) ==
  IF Current(p) \notin Names
  THEN LET s == SkipUntilOneOf(ReportDiag(p), TRUE, {",", ")"}) IN [p |-> s.p, t |-> Error, ok |-> s.found]
  ELSE LET hint == ParseTypehintExpression(Expect(Advance(p), ":"))
       IN  [p |-> hint.p, t |-> [name |-> Current(p), typehint |-> hint.t], ok |-> TRUE]

\* proto: the parameters so far, and whether `...` ended them
ParseParameters(p, proto) ==
  LET one  == ParseParameter(p)
      more == [proto EXCEPT !.parameters = Append(@, one.t)]
      End(q, pr) == [p |-> Expect(q, ")"), t |-> pr, ok |-> TRUE]
  IN CASE Current(p) = ")" -> End(p, proto)
       [] Current(p) = "..." -> End(Advance(p), [proto EXCEPT !.is_variadic = TRUE])
       [] Current(p) \notin {")", "..."} /\ ~one.ok -> [p |-> one.p, t |-> proto, ok |-> FALSE]
       [] OTHER -> IF Current(one.p) = "," THEN Parse("parameters", Advance(one.p), more)
                                           ELSE End(one.p, more)
ParseFunctionParameters(p) ==
  LET none   == [parameters |-> <<>>, is_variadic |-> FALSE]
      opened == Expect(p, "(")
      skip   == SkipUntilOneOf(opened, FALSE, Names \cup {")"})
  IN  IF Current(p) = "(" THEN Parse("parameters", opened, none)
      ELSE IF skip.found THEN Parse("parameters", skip.p, none)
      ELSE [p |-> skip.p, t |-> none, ok |-> FALSE]

ParseGenerics(p, params) ==
  LET one == ParseParameter(p)
      more == Append(params, one.t)
      End(q, ps) == [p |-> Expect(q, ">"), t |-> ps, ok |-> TRUE]
  IN CASE IsDone(p) \/ Current(p) = ">" -> End(p, params)
       [] ~IsDone(p) /\ Current(p) # ">" /\ ~one.ok -> [p |-> one.p, t |-> params, ok |-> FALSE]
       [] OTHER -> IF Current(one.p) = "," THEN Parse("generics", Advance(one.p), more)
                                           ELSE End(one.p, more)

ParseAttributes(p, names) ==
  CASE Current(p) \notin {"#canon_name", "#use", "#eval"} -> [p |-> p, t |-> names, ok |-> TRUE]
    [] Current(p) = "#canon_name" /\ Ahead(p, 1) \in Paths ->
         Parse("attributes", Advance(Advance(p)), Append(names, Ahead(p, 1)))
    [] OTHER -> [p |-> ReportDiag(Advance(p)), t |-> names, ok |-> FALSE]

\* after `func`; each part that fails is followed by a skip, which fails
Recovered(r, kinds) == IF r.ok THEN r ELSE LET s == SkipUntilOneOf(r.p, FALSE, kinds)
                                           IN  [r EXCEPT !.p = s.p, !.ok = s.found]
ParseFunction(p) ==
  LET generics == IF Current(p) # "<" THEN [p |-> p, t |-> <<>>, ok |-> TRUE]
                  ELSE Recovered(Parse("generics", Advance(p), <<>>), {"("})
      params == Recovered(ParseFunctionParameters(generics.p), {"{"})
      arrow  == Current(params.p) = "->"
      hint   == IF arrow THEN ParseTypehintExpression(Advance(params.p)) ELSE Result(params.p, Null)
      attrs  == Recovered(Parse("attributes", hint.p, <<>>), {"{"})
      body   == IF Current(attrs.p) = "{" THEN ParseStatement(attrs.p)
                ELSE Result(Expect(attrs.p, "---"), NoBody)
  IN CASE ~generics.ok -> Result(generics.p, Error)
       [] generics.ok /\ ~params.ok -> Result(params.p, Error)
       [] generics.ok /\ params.ok /\ arrow /\ hint.t = Null -> hint
       [] generics.ok /\ params.ok /\ ~(arrow /\ hint.t = Null) /\ ~attrs.ok -> Result(attrs.p, Null)
       [] OTHER ->
            IF body.t = Null THEN body
            ELSE Result(body.p,
                   [kind |-> "Function", generics |-> generics.t, prototype |-> params.t,
                    return_type |-> IF arrow THEN <<hint.t>> ELSE <<>>, attributes |-> attrs.t,
                    body |-> body.t])

----------------------------------------------------------------------------
(* parse_struct.cc, parse_namespace.cc                                     *)

\* a name that is missing is not initialised
ParseNames(p, names) ==
  LET q    == IF Current(p) \in Names THEN Advance(p) ELSE p
      more == Append(names, IF Current(p) \in Names THEN Current(p) ELSE "<garbage>")
  IN  IF Current(q) = "," THEN Parse("names", Advance(q), more) ELSE Result(q, more)
ParseFields(p, fields) ==
  LET names == Parse("names", p, <<>>)
      at    == Expect(names.p, ":")
      hint  == Deref(ParseTypehintExpression(at))
      more  == Append(fields, [names |-> names.t, typehint |-> hint.t])
      End(q, fs) == Result(Expect(q, "}"), Struct(fs))
  IN CASE IsDone(p) \/ Current(p) = "}" -> End(p, fields)
       [] OTHER ->
            IF Current(names.p) # ":" THEN Result(at, Error)
            ELSE IF Current(at) = "=" THEN Result(Unreachable(at), Error)
            ELSE IF hint.t = Error THEN hint
            ELSE IF Current(hint.p) = ";" THEN Parse("fields", Advance(hint.p), more)
            ELSE End(hint.p, more)
ParseStructDecl(p) ==
  IF Current(p) = "{" THEN Parse("fields", Advance(p), <<>>)
  ELSE Result(SkipUntilOneOf(Report(p), TRUE, {"}"}).p, Error)

ParseBlockBody(p, body) ==
  LET one  == ParseStatement(p)
      skip == SkipUntilOneOf(one.p, FALSE, STMT_HEAD)
  IN CASE Current(p) = "}" \/ IsDone(p) -> Result(Expect(p, "}"), Block(body))
       [] OTHER -> IF one.t # Null THEN Parse("block body", one.p, Append(body, one.t))
                   ELSE IF skip.found THEN Parse("block body", skip.p, body)
                   ELSE Result(skip.p, Null)
BlockFrom(p) == Parse("block body", Advance(p), <<>>)

\* a namespace without a block is passed over without a word
ParseNamespace(p) ==
  LET defs == ParseBlock(p) IN
  CASE Current(p) = "in" -> Result(Unreachable(p), Error)
    [] Current(p) = "{"  -> Result(defs.p, Namespace(defs.t))
    [] OTHER -> Result(SkipUntilOneOf(p, TRUE, {"}"}).p, Error)

AnyExpression(p) ==
  IF Current(p) \in {"struct", "func", "ns", "#use"} THEN Parse(Current(p), Advance(p), <<>>) ELSE Parse("level", p, 1)

----------------------------------------------------------------------------
(* parse_statements.cc                                                     *)

\* A variable without a usable initializer is kept as one that has none.
ParseVariableDeclaration(p) ==
  LET start == Advance(Advance(p))
      typed == Current(start) \notin {":", "="}
      hint  == IF typed THEN ParseTypehintExpression(start) ELSE Result(start, Null)
      mark  == Current(hint.p)
      value == ParseExpression(Advance(IF mark \in {":", "="} THEN hint.p ELSE Report(hint.p)))
      Variable_(constant, init) ==
        Declaration(Current(p), IF typed /\ hint.t # Null THEN <<hint.t>> ELSE <<>>, constant, init)
  IN CASE mark = ";" -> Result(Expect(hint.p, ";"), Variable_(FALSE, <<>>))
       [] mark # ";" /\ value.t \in {Null, Error} ->
            Result(SkipUntilOneOf(value.p, TRUE, {";"}).p, Variable_(mark = ":", <<>>))
       [] OTHER -> Result(IF value.t.kind \in {"Function", "Struct", "Namespace"} THEN value.p
                          ELSE Expect(value.p, ";"), Variable_(mark = ":", <<value.t>>))

\* parse_if_header, shared by `if` and `else if`
IfHeader(p) ==
  LET condition == Deref(ParseExpression(p))
      skip == SkipUntilOneOf(condition.p, FALSE, {"then", "return", "{"})
      q    == condition.p
      then == CASE Current(q) = "then"   -> ParseStatement(Advance(q))
                [] Current(q) = "return" -> ParseStatement(q)
                [] Current(q) = "{"      -> ParseBlock(q)
                [] OTHER -> ParseStatement(ReportDiag(q))
  IN  IF condition.t = Error /\ ~skip.found THEN Result(skip.p, Null)
      ELSE Result(then.p, IF then.t = Null THEN Null ELSE Branch(condition.t, then.t))

ParseElseIfs(p, branches) ==
  LET one == ParseIfHeader(Advance(Advance(p))) IN
  CASE ~(Current(p) = "else" /\ Ahead(p, 1) = "if") -> [p |-> p, t |-> branches, ok |-> TRUE]
    [] OTHER -> IF one.t = Null THEN [p |-> one.p, t |-> branches, ok |-> FALSE]
                ELSE Parse("else ifs", one.p, Append(branches, one.t))

ParseIfStatement(p) ==
  LET first == ParseIfHeader(Advance(p))
      more  == Parse("else ifs", first.p, <<first.t>>)
      els   == IF Current(more.p) = "else" THEN ParseStatement(Advance(more.p)) ELSE Result(more.p, NoBody)
  IN  CASE first.t = Null -> first
        [] first.t # Null /\ ~more.ok -> Result(more.p, Null)
        [] OTHER -> IF els.t = Null THEN els
                    ELSE Result(els.p, If(Head(more.t).condition, Head(more.t).then, Tail(more.t),
                                          IF els.t = NoBody THEN <<>> ELSE <<els.t>>))

ParseReturnStatement(p) ==
  LET value == Deref(ParseExpression(Advance(p)))
      skip  == SkipUntilOneOf(value.p, FALSE, {";"})
  IN  IF value.t = Error /\ ~skip.found THEN Result(skip.p, Null)
      ELSE Result(Expect(value.p, ";"), Return(value.t))

ParseForLoop(p) ==
  LET q == Advance(p)
      ever      == ParseStatement(q)
      condition == Deref(ParseExpression(q))
      body      == ParseStatement(condition.p)
  IN  CASE Current(q) = "{" -> Result(ever.p, IF ever.t = Null THEN Null ELSE For_Ever(ever.t))
        [] OTHER ->
             IF condition.t = Error THEN Result(condition.p, Null)
             ELSE IF Current(condition.p) # "{" THEN Result(ReportDiag(condition.p), Null)
             ELSE Result(body.p, IF body.t = Null THEN Null ELSE While_Loop(condition.t, body.t))

ParseBreak(p) == Result(Expect(Advance(p), ";"), Break)

ParseExpressionStatement(p) ==
  LET e == ParseExpression(p) IN
  IF e.t \in {Null, Error} THEN Result(e.p, Null) ELSE Result(Expect(e.p, ";"), Expr(e.t))

\* parser_parse_statement: a statement that failed skips to the next head
AnyStatement(p) ==
  LET s == CASE Current(p) \in Names /\ Ahead(p, 1) = ":" -> Parse(":", p, <<>>)
             [] Current(p) \in {"{", "if", "return", "for", "break"} -> Parse(Current(p), p, <<>>)
             [] OTHER -> Parse(";", p, <<>>)
  IN  IF s.t = Null THEN Result(SkipUntilOneOf(s.p, FALSE, STMT_HEAD).p, Null) ELSE s

Parse(what, p, with) ==
  CASE what = "statement" -> AnyStatement(p)
    [] what = ":"  -> ParseVariableDeclaration(p)
    [] what = "{"  -> BlockFrom(p)
    [] what = "block body" -> ParseBlockBody(p, with)
    [] what = "if" -> ParseIfStatement(p)
    [] what = "header"   -> IfHeader(p)
    [] what = "else ifs" -> ParseElseIfs(p, with)
    [] what = "return" -> ParseReturnStatement(p)
    [] what = "for"    -> ParseForLoop(p)
    [] what = "break"  -> ParseBreak(p)
    [] what = ";"  -> ParseExpressionStatement(p)
    [] what = "expression" -> AnyExpression(p)
    [] what = "struct" -> ParseStructDecl(p)
    [] what = "fields" -> ParseFields(p, with)
    [] what = "names"  -> ParseNames(p, with)
    [] what = "func" -> ParseFunction(p)
    [] what = "generics"   -> ParseGenerics(p, with)
    [] what = "parameters" -> ParseParameters(p, with)
    [] what = "attributes" -> ParseAttributes(p, with)
    [] what = "ns"   -> ParseNamespace(p)
    [] what = "#use" -> ParseUse(p)
    [] what = "level" -> ParseLevel(with, p)
    [] what = "rest"  -> ParseRest(with, p)
    [] what = "unary" -> UnaryOrHint(p, with)
    [] what = "postfixes"    -> ParsePostfixes(p, with)
    [] what = "arguments"    -> ParseArguments(p, with)
    [] what = "dereferences" -> ParseDereferences(p)

----------------------------------------------------------------------------
(* main: statements are parsed until the text is done, then the errors     *)
(* decide whether the program goes on to the semantic pass.                *)

Init ==
  /\ \/ /\ \E f \in Families : \E n \in 0 .. f.length : \E m \in [1 .. n -> f.words] :
             parser = ParserCreate(f.first \o m \o f.last)
        /\ meant = <<>>
     \/ \E m \in Meanings : parser = ParserCreate(WriteStatement(m)) /\ meant = <<m>>
  /\ program = <<>>
  /\ phase = "parsing"

ParseOne ==
  /\ phase = "parsing" /\ ~IsDone(parser)
  /\ LET s == ParseStatement(parser)
     IN  /\ parser' = s.p
         /\ program' = IF s.t = Null THEN program ELSE Append(program, s.t)
         /\ phase' = IF s.p.aborted THEN "aborted" ELSE phase
  /\ UNCHANGED meant

HasErrors == parser.errors > 0
Gate ==
  /\ phase = "parsing" /\ IsDone(parser)
  /\ phase' = IF HasErrors THEN "stopped" ELSE "semantic"
  /\ UNCHANGED <<parser, program, meant>>

Finished == phase \in {"aborted", "stopped", "semantic"} /\ UNCHANGED vars
Next == ParseOne \/ Gate \/ Finished
Spec == Init /\ [][Next]_vars

----------------------------------------------------------------------------
TypeOK ==
  /\ parser.pos \in 1 .. Len(parser.text) + 1
  /\ parser.errors \in 0 .. ErrorLimit
  /\ phase \in {"parsing", "aborted", "stopped", "semantic"}
  /\ \A s \in Range(program) : s.kind \notin {"Null", "Error"}

\* What is written is what is read: the levels of the operators, the side they
\* group to, where a type hint ends and an expression begins, which `if` an
\* `else` belongs to, which statements need a terminator.  A program written
\* with no parenthesis too many is parsed back to itself and passes the gate.
RoundTrip ==
  meant # <<>> /\ phase # "parsing" => phase = "semantic" /\ ~parser.told /\ program = meant

\* The two things the parser passes over without a word: a namespace whose
\* block is missing, and that int8, int16 and int32 are made char.
PassedOver(text) ==
  \E i \in DOMAIN text :
    \/ text[i] = "ns" /\ (i = Len(text) \/ text[i + 1] # "{")
    \/ text[i] \in {"int8", "int16", "int32"}

\* Nothing of the text is lost, doubled or moved without a diagnostic: when the
\* parser has told nothing, the program it hands to the semantic pass is the
\* text but for its parentheses, commas and terminators.  Recovery skips
\* tokens and drops statements in a dozen places; each must have told why.
NothingLostSilently ==
  phase = "semantic" /\ ~parser.told /\ ~PassedOver(parser.text)
    => Substance(Write(program)) = Substance(parser.text)

\* The loop of main ends, whatever the text: every call for a statement reads
\* at least one token, also where an error is reported at a token that is left
\* unread; what is left of the text only gets shorter.
Progresses == [][phase' = "parsing" => parser'.pos > parser.pos]_vars
=============================================================================
