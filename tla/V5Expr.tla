------------------------------- MODULE V5Expr -------------------------------
(***************************************************************************)
(* src/src/v5.c: expr() and what it calls.  One pass over the tokens of an *)
(* expression of Lu/Strict checks it and writes it as an expression of Lu  *)
(* Classic, which has other precedences and reads (name) as a cast.        *)
(*                                                                         *)
(* A token is its text: a name, a number, an operator, or a name that      *)
(* stands for a string.  The text that is written is a sequence of atoms,  *)
(* as in ClassicLexemes.                                                   *)
(***************************************************************************)
EXTENDS Integers, Sequences, SequencesExt

CONSTANTS
    Vars,       \* the type of every variable in scope
    Freed,      \* the variables that a Del has marked
    Functions,  \* the types of the parameters and of the result
    Structs,    \* the fields, those that are visible, and the methods
    Packs,      \* the shift, width and type of every packed field
    Strings     \* the characters of the string that a token stands for

Numbers == {"0", "1", "2", "3", "4", "5", "6", "7", "8", "9"}
Puncts == {"(", ")", "[", "]", ".", ",", "+", "-", "*", "/", "%", "!", "&",
           "==", "!=", "<", "<=", ">", ">=", "<<", ">>", "&&", "||"}
TokenAt(s, p) == IF p \in DOMAIN s THEN s[p] ELSE ""
IsName(t) == t \notin Numbers \cup Puncts \cup DOMAIN Strings \cup {""}
is_simple_ident(text) ==
    /\ text # <<>> /\ text[1] \notin Numbers
    /\ \A k \in DOMAIN text : text[k] \notin Puncts \cup {" ", "\""}
-----------------------------------------------------------------------------
(* Types.                                                                  *)
Simple(kind) == [kind |-> kind]
IntType == Simple("int")
BoolType == Simple("bool")
StrType == Simple("str")
Ptr(t) == [kind |-> "ptr", base |-> t]
Arr(t, n) == [kind |-> "arr", base |-> t, count |-> n]
Named(name) == [kind |-> "named", name |-> name]

is_num(t) == t.kind \in {"byte", "int", "int64"}

RECURSIVE compat(_, _)
compat(d, s) ==
    \/ "void" \in {d.kind, s.kind}
    \/ s.kind = "int" /\ d.kind \in {"byte", "int64"}
    \/ /\ d.kind = s.kind
       /\ d.kind = "named" => d.name = s.name
       /\ d.kind = "arr" => d.count = s.count
       /\ d.kind \in {"ptr", "arr"} => compat(d.base, s.base)

\* Of a type that dv() can read into.
type_size(t) == IF t.kind \in {"byte", "bool"} THEN "1"
                ELSE IF t.kind \in {"int64", "ptr"} THEN "8" ELSE "4"

(* struct_of() and pack_of() look through one pointer.                     *)
Pointee(t) == IF t.kind = "ptr" THEN t.base ELSE t
NameOf(t) == IF Pointee(t).kind = "named" THEN Pointee(t).name ELSE ""
HasStruct(t) == NameOf(t) \in DOMAIN Structs
HasPack(t) == NameOf(t) \in DOMAIN Packs
-----------------------------------------------------------------------------
(* What the parser has after a part of an expression: the next token, the  *)
(* text and the type, and the statements that must run first.              *)
Result(p, text, ty, pre) ==
    [p |-> p, text |-> text, ty |-> ty, pre |-> pre, ok |-> TRUE]
Fail(r) == [r EXCEPT !.ok = FALSE]
\* What is read first, and what is made of it.
Then(first, Rest(_)) == Rest(first)
\* The token that must follow.
Expect(s, r, t) == IF r.ok /\ TokenAt(s, r.p) = t THEN [r EXCEPT !.p = @ + 1] ELSE Fail(r)
Written(r, text, ty) == [r EXCEPT !.text = text, !.ty = ty]

Paren(text) == <<"(">> \o text \o <<")">>
Call(name, args) == name \o Paren(args)
RefOf(r) == IF r.ty.kind = "ptr" THEN r.text ELSE Paren(<<"&">> \o r.text)
Method(t, name) == <<NameOf(t), "_", "_", name>>

\* The texts of results, with a separator between two.
Joined(results, sep) ==
    FoldLeft(LAMBDA text, r : IF text = <<>> THEN r.text ELSE text \o sep \o r.text,
             <<>>, results)
Comma == <<",", " ">>

Escape == ("\n" :> "n") @@ ("\t" :> "t") @@ ("\r" :> "r")
            @@ ("\"" :> "\"") @@ ("\\" :> "\\")
emit_str_lit(chars) ==
    <<"\"">> \o FlattenSeq([k \in DOMAIN chars |->
        IF chars[k] \in DOMAIN Escape THEN <<"\\", Escape[chars[k]]>> ELSE <<chars[k]>>])
    \o <<"\"">>
-----------------------------------------------------------------------------
prec_of(t) == CASE t = "||" -> 1
                [] t = "&&" -> 2
                [] t \in {"==", "!=", "in"} -> 3
                [] t \in {"<", "<=", ">", ">="} -> 4
                [] t \in {"<<", ">>"} -> 5
                [] t \in {"+", "-"} -> 6
                [] t \in {"*", "/", "%"} -> 7
                [] OTHER -> 0

Conversions == {"int", "byte", "int64", "bool"}

RECURSIVE Binary(_, _, _, _), BinaryRest(_, _, _), Postfix(_, _), Unary(_, _, _),
          Items(_, _, _, _, _)
Expr(s, p, pre) == Binary(s, p, pre, 1)

(* A list of expressions up to a closing token; a comma may stand before   *)
(* it.                                                                     *)
Listed(p, pre, items, ok) == [p |-> p, pre |-> pre, items |-> items, ok |-> ok]
Items(s, p, pre, close, items) ==
    IF TokenAt(s, p) = close THEN Listed(p + 1, pre, items, TRUE)
    ELSE Then(Expr(s, p, pre), LAMBDA item :
           IF item.ok /\ TokenAt(s, item.p) = ","
           THEN Items(s, item.p + 1, item.pre, close, Append(items, item))
           ELSE Listed(item.p + 1, item.pre, Append(items, item),
                       item.ok /\ TokenAt(s, item.p) = close))

\* Mutated form: arguments that are missing are not noticed.
FitsSoFar(params, items) ==
    \A k \in DOMAIN items : k <= Len(params) /\ compat(params[k], items[k].ty)

(* call_args(): the method's first parameter is the receiver.              *)
Fits(params, items) ==
    /\ Len(items) = Len(params)
    /\ \A k \in DOMAIN items : compat(params[k], items[k].ty)
-----------------------------------------------------------------------------
NumberLit(s, p, pre) == Result(p + 1, <<s[p]>>, IntType, pre)
StringLit(s, p, pre) == Result(p + 1, emit_str_lit(Strings[s[p]]), StrType, pre)
Truth(s, p, pre) == Result(p + 1, <<s[p]>>, BoolType, pre)

\* Mutated form: the parentheses of the source are written.
GroupedInParens(s, p, pre) ==
    Then(Expect(s, Expr(s, p + 1, pre), ")"), LAMBDA e : [e EXCEPT !.text = Paren(@)])

\* Every operator puts parentheses around itself, so those of the source
\* are dropped.
Grouped(s, p, pre) == Expect(s, Expr(s, p + 1, pre), ")")

\* A conversion of a single name has no parentheses around the name.
Conversion(s, p, pre) ==
    Then(Expect(s, Expr(s, p + 2, pre), ")"), LAMBDA e :
      Written(e, Paren(<<s[p]>>) \o IF is_simple_ident(e.text) THEN e.text ELSE Paren(e.text),
              Simple(s[p])))

dv_expr(s, p, pre) ==
    LET x == TokenAt(s, p + 3)
        good == /\ TokenAt(s, p + 2) = "&" /\ x \in DOMAIN Vars
                /\ Vars[x].kind \notin {"str", "arr"} /\ TokenAt(s, p + 4) = ")"
        args == <<"0">> \o Comma \o <<"0">> \o Comma \o <<"&", x>> \o Comma
    IN  IF ~good THEN Fail(Result(p, <<>>, BoolType, pre))
        ELSE Result(p + 5, Paren(Call(<<"syscall">>, args \o <<type_size(Vars[x])>>)
                                   \o <<" ", ">", " ", "0">>), BoolType, pre)

\* A call of a name with what stands in front of its arguments.
Calling(s, p, pre, name, first, Accepted(_), ret) ==
    Then(Items(s, p, pre, ")", <<>>), LAMBDA args :
      LET r == Result(args.p, Call(name, Joined(first \o args.items, Comma)), ret, args.pre)
      IN  IF args.ok /\ Accepted(args.items) THEN r ELSE Fail(r))
SysCall(s, p, pre) == Calling(s, p + 2, pre, <<"syscall">>, <<>>, LAMBDA items : TRUE, IntType)
UserCall(s, p, pre) ==
    LET f == Functions[s[p]]
    IN  IF s[p] \notin DOMAIN Functions THEN Fail(Result(p, <<>>, IntType, pre))
        ELSE Calling(s, p + 2, pre, <<s[p]>>, <<>>, LAMBDA items : Fits(f.params, items), f.ret)

Variable(s, p, pre) ==
    IF s[p] \in DOMAIN Vars \ Freed THEN Result(p + 1, <<s[p]>>, Vars[s[p]], pre)
    ELSE Fail(Result(p, <<>>, IntType, pre))

Primary(s, p, pre) ==
    LET t == TokenAt(s, p)
        called == TokenAt(s, p + 1) = "("
    IN  CASE t \in Numbers -> NumberLit(s, p, pre)
          [] t \in DOMAIN Strings -> StringLit(s, p, pre)
          [] t = "(" -> Grouped(s, p, pre)
          [] t \in {"true", "false"} -> Truth(s, p, pre)
          [] t = "dv" /\ called -> dv_expr(s, p, pre)
          [] t \in Conversions /\ called -> Conversion(s, p, pre)
          [] t = "syscall" /\ called -> SysCall(s, p, pre)
          [] IsName(t) /\ t \notin {"dv", "syscall"} \cup Conversions /\ called ->
               UserCall(s, p, pre)
          [] IsName(t) /\ ~called -> Variable(s, p, pre)
          [] OTHER -> Fail(Result(p, <<>>, IntType, pre))
-----------------------------------------------------------------------------
(* postfix(): what follows a primary takes all of its text.                *)
Index(s, r) ==
    Then(Expect(s, Expr(s, r.p + 1, r.pre), "]"), LAMBDA e :
      Written(e, r.text \o <<"[">> \o e.text \o <<"]">>,
              IF r.ty.kind \in {"arr", "ptr"} THEN r.ty.base ELSE IntType))

MethodCall(s, r) ==
    LET name == s[r.p + 1]
        m == Structs[NameOf(r.ty)].methods[name]
    IN  IF ~HasStruct(r.ty) \/ name \notin DOMAIN Structs[NameOf(r.ty)].methods
        THEN Fail(r)
        ELSE Calling(s, r.p + 3, r.pre, Method(r.ty, name), <<[text |-> RefOf(r)]>>,
                     LAMBDA items : Fits(m.params, items), m.ret)

\* A packed field is taken out of the word that holds it; of a pointer to a
\* pack, the first character of -> is written where the dot would be.
PackedField(s, r) ==
    LET bit == Packs[NameOf(r.ty)][s[r.p + 1]]
        word == r.text \o <<IF r.ty.kind = "ptr" THEN "-" ELSE ".", "bits">>
        get == Call(<<"__lu_pkget">>, word \o Comma \o <<bit.shift>> \o Comma \o <<bit.width>>)
        test == IF bit.ty.kind = "bool" THEN <<" ", "!", "=", " ", "0">> ELSE <<>>
    IN  IF s[r.p + 1] \notin DOMAIN Packs[NameOf(r.ty)] THEN Fail(r)
        ELSE Result(r.p + 2, Paren(get \o test), bit.ty, r.pre)

Field(s, r) ==
    LET name == s[r.p + 1]
        fields == Structs[NameOf(r.ty)].fields
        dot == IF r.ty.kind = "ptr" THEN <<"-", ">">> ELSE <<".">>
        Of(ty) == Result(r.p + 2, r.text \o dot \o <<name>>, ty, r.pre)
    IN  IF ~HasStruct(r.ty) THEN Of(IntType)
        ELSE IF name \in DOMAIN fields /\ name \in Structs[NameOf(r.ty)].visible
             THEN Of(fields[name])
        ELSE Fail(r)

Member(s, r) == IF ~IsName(TokenAt(s, r.p + 1)) THEN Fail(r)
                ELSE IF TokenAt(s, r.p + 2) = "(" THEN MethodCall(s, r)
                ELSE IF HasPack(r.ty) THEN PackedField(s, r) ELSE Field(s, r)

Postfix(s, r) == IF ~r.ok THEN r
                 ELSE IF TokenAt(s, r.p) = "[" THEN Postfix(s, Index(s, r))
                 ELSE IF TokenAt(s, r.p) = "." THEN Postfix(s, Member(s, r))
                 ELSE r

UnaryType(op, ty) == CASE op = "!" -> BoolType
                       [] op = "&" -> Ptr(ty)
                       [] OTHER -> IF ty.kind = "int64" THEN ty ELSE IntType
Unary(s, p, pre) ==
    LET op == TokenAt(s, p)
    IN  IF op \in {"-", "!", "&"}
        THEN Then(Unary(s, p + 1, pre), LAMBDA e :
               Written(e, Paren(<<op>> \o e.text), UnaryType(op, e.ty)))
        ELSE Postfix(s, Primary(s, p, pre))
-----------------------------------------------------------------------------
(* membership(): `x in [a, b]` is a chain of comparisons.  `x in array` is *)
(* the result of a loop that is written before the statement; its number   *)
(* is that of the loop.                                                    *)
Same(a, b, ty) == IF ty.kind = "str" THEN Call(<<"__lu_streq">>, a \o Comma \o b)
                  ELSE Paren(a \o <<" ", "=", "=", " ">> \o b)
InList(s, lhs) ==
    LET Test(item) == [text |-> Same(lhs.text, item.text, item.ty)]
        Chain(items) == IF items = <<>> THEN <<"false">>
                        ELSE Joined([k \in DOMAIN items |-> Test(items[k])], <<" ", "|", "|", " ">>)
    IN  Then(Items(s, lhs.p + 2, lhs.pre, "]", <<>>), LAMBDA list :
          LET r == Result(list.p, Paren(Chain(list.items)), BoolType, list.pre)
          IN  IF list.ok THEN r ELSE Fail(r))

InArray(s, lhs) ==
    LET a == s[lhs.p + 1]
        id == ToString(Len(lhs.pre))
        search == [id |-> id, array |-> a, count |-> Vars[a].count,
                   ty |-> Vars[a].base, wanted |-> lhs.text]
    IN  IF a \notin DOMAIN Vars \/ Vars[a].kind # "arr" THEN Fail(lhs)
        ELSE Result(lhs.p + 2, <<"__lu_f", id>>, BoolType, Append(lhs.pre, search))

\* The comparison in the loop of a search.
SearchText(search) ==
    LET element == <<search.array, "[", "__lu_i", search.id, "]">>
    IN  IF search.ty.kind = "str"
        THEN Call(<<"__lu_streq">>, element \o Comma \o search.wanted)
        ELSE element \o <<" ", "=", "=", " ">> \o search.wanted

Membership(s, lhs) == IF TokenAt(s, lhs.p + 1) = "[" THEN InList(s, lhs)
                      ELSE IF IsName(TokenAt(s, lhs.p + 1)) THEN InArray(s, lhs)
                      ELSE Fail(lhs)
-----------------------------------------------------------------------------
(* `stream << value` and `stream >> place` call a method that is named for *)
(* the type of the value.                                                  *)
stream_suffix(t) == CASE t.kind = "int64" -> "i64"
                      [] t.kind = "named" -> t.name
                      [] t.kind \in {"arr", "void"} -> ""
                      [] OTHER -> t.kind

RECURSIVE is_place_tokens(_)
is_place_tokens(s) ==
    LET Depth(k) == Cardinality({i \in 1 .. k : s[i] = "["})
                      - Cardinality({i \in 1 .. k : s[i] = "]"})
        n == Len(s)
    IN  \/ n = 1 /\ IsName(s[1])
        \/ n > 2 /\ s[n - 1] = "." /\ IsName(s[n]) /\ is_place_tokens(SubSeq(s, 1, n - 2))
        \/ /\ n > 2 /\ s[n] = "]"
           /\ \E k \in 2 .. n - 1 : /\ s[k] = "["
                                   /\ \A i \in k .. n - 1 : Depth(i) > Depth(k - 1)
                                   /\ Depth(n) = Depth(k - 1)
                                   /\ is_place_tokens(SubSeq(s, 1, k - 1))

Stream(s, lhs, op, rhs) ==
    LET methods == Structs[NameOf(lhs.ty)].methods
        suffix == stream_suffix(rhs.ty)
        name == (IF op = "<<" THEN "put_" ELSE "get_") \o suffix
        takes == methods[name].params[1]
        value == IF op = "<<" THEN rhs.text ELSE <<"&">> \o rhs.text
        good == /\ suffix # "" /\ name \in DOMAIN methods /\ methods[name].params # <<>>
                /\ op = "<<" => compat(takes, rhs.ty)
                /\ op = ">>" => /\ suffix \in {"int", "i64", "byte", "bool"}
                               /\ takes.kind = "ptr" /\ compat(takes.base, rhs.ty)
                               /\ is_place_tokens(SubSeq(s, lhs.p + 1, rhs.p - 1))
    IN  IF ~good THEN Fail(lhs)
        ELSE Result(rhs.p, Call(Method(lhs.ty, name), RefOf(lhs) \o Comma \o value),
                    methods[name].ret, rhs.pre)
-----------------------------------------------------------------------------
Spelled == ("||" :> <<"|", "|">>) @@ ("&&" :> <<"&", "&">>) @@ ("==" :> <<"=", "=">>)
             @@ ("!=" :> <<"!", "=">>) @@ ("<=" :> <<"<", "=">>) @@ (">=" :> <<">", "=">>)
             @@ ("<<" :> <<"<", "<">>) @@ (">>" :> <<">", ">">>)
Spelling(op) == IF op \in DOMAIN Spelled THEN Spelled[op] ELSE <<op>>

(* An operator with both operands; strings are compared by a function.     *)
Combined(s, lhs, op, rhs) ==
    LET shift == op \in {"<<", ">>"}
        wide == shift /\ "int64" \in {lhs.ty.kind, rhs.ty.kind}
        ty == IF prec_of(op) <= 4 THEN BoolType ELSE IF wide THEN Simple("int64") ELSE IntType
        strings == op \in {"==", "!="} /\ {lhs.ty.kind, rhs.ty.kind} = {"str"}
        text == IF strings
                THEN Paren((IF op = "==" THEN <<>> ELSE <<"!">>)
                             \o Call(<<"__lu_streq">>, lhs.text \o Comma \o rhs.text))
                ELSE Paren(lhs.text \o <<" ">> \o Spelling(op) \o <<" ">> \o rhs.text)
    IN  IF ~rhs.ok THEN rhs
        ELSE IF shift /\ HasStruct(lhs.ty) THEN Stream(s, lhs, op, rhs)
        ELSE IF shift /\ ~(is_num(lhs.ty) /\ is_num(rhs.ty)) THEN Fail(rhs)
        ELSE Result(rhs.p, text, ty, rhs.pre)

BinaryRest(s, lhs, min) ==
    LET op == TokenAt(s, lhs.p)
        level == prec_of(op)
    IN  IF ~lhs.ok \/ level < min \/ level = 0 THEN lhs
        ELSE IF op = "in" THEN BinaryRest(s, Membership(s, lhs), min)
        ELSE BinaryRest(s, Combined(s, lhs, op, Binary(s, lhs.p + 1, lhs.pre, level + 1)), min)
Binary(s, p, pre, min) == BinaryRest(s, Unary(s, p, pre), min)
=============================================================================
