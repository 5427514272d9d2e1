------------------------------ MODULE Semantic ------------------------------
(* semantic_check() of src/src/semantic.c and check_library_usage() of     *)
(* src/src/libraries.c: which programs the compiler refuses before it      *)
(* generates C.  A program is the nodes of its tree in the order of the    *)
(* text, each with the numbers of its children.  Three passes go over it:  *)
(* the library check, the collection of what may be used before it is      *)
(* declared, and the check proper, which enters variables into one table   *)
(* as it meets them and never removes any.  Of the warnings, only that of a  *)
(* second declaration is kept.                                             *)
(*                                                                         *)
(* A name is the sequence of its words, those between underscores (and the *)
(* number of a block is a word): the names made of a class and a method    *)
(* are names a program may use as well.  "sub" is what follows a dot or a  *)
(* bracket, the operator, or which literal; "line" is that of the node, or *)
(* the number of a block: both serve as numbers of scopes.  A type is its  *)
(* name, also where the code looks for it inside another one.              *)
EXTENDS Integers, FiniteSets, SequencesExt

CONSTANTS
    Programs,      \* the programs TLC chooses from
    Builtins,      \* symbols of the C library and of the run time
    Api,           \* the tensor functions, tensor_functions[]
    MaxSymbols     \* SYM_MAX

Words == Seq(STRING)
Node == [kind : STRING, name : Words, sub : STRING,
         type : Words, line : Nat, kids : Seq(Nat)]

ClassLike == {"class", "interface", "impl", "template", "struct"}
MethodLike == {"method", "ctor", "dtor", "overload"}
Functions == {"func", "async"}
Network == {"server", "send", "recv", "bcast", "route", "inq"}
Global == -1

(* The nodes are numbered as a walk over the tree comes to them: a node    *)
(* before its children, and a child with all below it before the next one. *)
IsTree(p) ==
    /\ \A i \in DOMAIN p : \A k \in DOMAIN p[i].kids :
          p[i].kids[k] \in i + 1 .. Len(p)
    /\ \A c \in 2 .. Len(p) : \E i \in DOMAIN p : c \in Range(p[i].kids)
    /\ \A i \in DOMAIN p : \A k, l \in DOMAIN p[i].kids :
          k < l => p[i].kids[k] < p[i].kids[l]
    /\ \A i \in DOMAIN p : \A c \in Range(p[i].kids) :
          \A m \in i + 1 .. c - 1 : \A d \in Range(p[m].kids) : d < c

(* Parameters and fields are variables, and a loop over a list begins with *)
(* the name it gives to the elements.                                      *)
IsProgram(p) ==
    /\ p \in Seq(Node) /\ Len(p) > 0 /\ IsTree(p)
    /\ p[1].kind = "program"
    /\ \A i \in DOMAIN p :
          /\ p[i].kind \in Functions \cup MethodLike \cup ClassLike =>
               \A c \in Range(p[i].kids) : p[c].kind # "ptr"
          /\ p[i].kind = "each" =>
               p[i].kids # <<>> /\ p[p[i].kids[1]].kind = "ident"

ASSUME SemanticAssumption ==
    /\ \A p \in Programs : IsProgram(p)
    /\ Builtins \in Seq([name : Words, type : Words, scope : {Global}, const : BOOLEAN])
    /\ Api \in Seq([name : Words, result : Words, params : Seq(Words)])
    /\ MaxSymbols \in Nat

VARIABLES
    prog,      \* the tree, root
    pass,      \* "library", "collect", "check", "done" or "exited"
    at,        \* the next node of the first two passes
    todo,      \* calls of check_node() to come, the next one first
    syms,      \* SymTable
    bad,       \* nodes counted in g_parse_error_count
    twice      \* declarations of a name already declared in their scope
semanticVars == <<prog, pass, at, todo, syms, bad, twice>>

Ids == DOMAIN prog
Kids(i) == prog[i].kids
Is(i, kinds) == prog[i].kind \in kinds
(* Those of a list of nodes that are of some kinds.                        *)
OfKinds(nodes, kinds) ==
    LET among[k \in 0 .. Len(nodes)] ==
          IF k = 0 THEN <<>>
          ELSE IF Is(nodes[k], kinds) THEN Append(among[k - 1], nodes[k])
                                      ELSE among[k - 1]
    IN among[Len(nodes)]
-----------------------------------------------------------------------------
(* The symbol table.                                                       *)
Symbol(name, type, scope) ==
    [name |-> name, type |-> type, scope |-> scope, const |-> FALSE]
Constant(name, type) ==
    [name |-> name, type |-> type, scope |-> Global, const |-> TRUE]

(* A full table drops what comes.                                          *)
sym_add(table, symbol) ==
    IF Len(table) >= MaxSymbols THEN table ELSE Append(table, symbol)
Holds(table, name) == \E k \in DOMAIN table : table[k].name = name
AddNew(table, symbol) ==
    IF Holds(table, symbol.name) THEN table ELSE sym_add(table, symbol)

(* The entry added last, of whatever scope.                                *)
sym_find(name) ==
    syms[CHOOSE k \in DOMAIN syms :
           /\ syms[k].name = name
           /\ \A j \in DOMAIN syms : syms[j].name = name => j <= k]

(* One after the other: as many as there is room for.                      *)
AddAll(table, symbols) ==
    LET room == MaxSymbols - Len(table)
    IN table \o SubSeq(symbols, 1, IF Len(symbols) < room THEN Len(symbols)
                                                          ELSE room)
AddAllNew(table, symbols) ==
    LET after[k \in 0 .. Len(symbols)] ==
          IF k = 0 THEN table ELSE AddNew(after[k - 1], symbols[k])
    IN after[Len(symbols)]
-----------------------------------------------------------------------------
(* find_enum_for_member: the first constant named after a type and the     *)
(* member.                                                                 *)
EnumEntries(member) ==
    {k \in DOMAIN syms :
       /\ syms[k].const /\ syms[k].name[1] # ""
       /\ Tail(syms[k].name) = member
       /\ \E j \in DOMAIN syms : /\ syms[j].name = <<syms[k].name[1]>>
                                 /\ syms[j].type = <<"type">>}
EnumOf(member) == <<syms[Min(EnumEntries(member))].name[1]>>

(* infer_type.  The children of an operator come after it, so that the     *)
(* function is defined from the last node to the first.                    *)
Comparisons == {"==", "!=", "<", ">", "<=", ">=", "&&", "||", "in"}
LiteralTypes == {"int", "float", "str", "bool", "ip", "cor"}
Wider(l, r) == IF <<"float">> \in {l, r} THEN <<"float">>
               ELSE IF <<"int64">> \in {l, r} THEN <<"int64">> ELSE l
Type[i \in Nat] ==
    LET Operand(k) == IF k \in DOMAIN Kids(i) THEN Type[Kids(i)[k]]
                                              ELSE <<"void">>
    IN CASE Is(i, LiteralTypes) -> <<prog[i].kind>>
         [] Is(i, {"fstring"}) -> <<"str">>
         [] Is(i, {"ident", "call"}) /\ prog[i].sub = "" ->
              IF Holds(syms, prog[i].name) THEN sym_find(prog[i].name).type
              ELSE IF Is(i, {"ident"}) /\ EnumEntries(prog[i].name) # {}
                THEN EnumOf(prog[i].name)
              ELSE <<"auto">>
         [] Is(i, {"binop"}) ->
              IF prog[i].sub \in Comparisons THEN <<"bool">>
                                             ELSE Wider(Operand(1), Operand(2))
         [] Is(i, {"unop"}) -> Operand(1)
         [] OTHER -> <<"auto">>
-----------------------------------------------------------------------------
(* check_library_node.                                                     *)
TensorHeader == <<"<tensor.h>">>
IsTensorImport(i) == Is(i, {"include"}) /\ prog[i].name = TensorHeader
Enabled == \E k \in DOMAIN Kids(1) : IsTensorImport(Kids(1)[k])
TypeUse(i) == prog[i].type = <<"Tensor">>
ApiNames == {f.name : f \in Range(Api)}
tensor_function(name) == CHOOSE f \in Range(Api) : f.name = name
ApiUse(i) == /\ Is(i, {"call", "ident"}) /\ prog[i].sub = ""
             /\ prog[i].name \in ApiNames
Misused(i) ==
    \/ /\ Is(i, {"import", "include"}) /\ ~IsTensorImport(i)
       /\ prog[i].name \in {TensorHeader, <<"\"tensor.h\"">>}
    \/ IsTensorImport(i) /\ i \notin Range(Kids(1))
    \/ ~Enabled /\ (TypeUse(i) \/ ApiUse(i))
    \/ /\ Is(i, {"call", "ident"})
       /\ IsPrefix(<<"lu", "tensor">>, prog[i].name) /\ Len(prog[i].name) > 2
    \/ Is(i, {"func"}) /\ prog[i].name \in ApiNames
    \/ /\ Is(i, {"class", "struct", "enum", "union"})
       /\ prog[i].name = <<"Tensor">>
    \/ /\ Enabled /\ Is(i, {"call"}) /\ ApiUse(i)
       /\ Len(Kids(i)) # Len(tensor_function(prog[i].name).params)

Exit == /\ pass' = "exited"
        /\ UNCHANGED <<prog, at, todo, syms, bad, twice>>

Library ==
    /\ pass = "library" /\ at \in Ids
    /\ \/ Misused(at) /\ Exit
       \/ /\ ~Misused(at)
          /\ at' = at + 1
          /\ UNCHANGED <<prog, pass, todo, syms, bad, twice>>

TensorSymbols ==
    <<Constant(<<"Tensor">>, <<"type">>)>>
      \o [k \in DOMAIN Api |-> Symbol(Api[k].name, Api[k].result, Global)]
LibraryDone ==
    /\ pass = "library" /\ at \notin Ids
    /\ pass' = "collect" /\ at' = 1
    /\ syms' = AddAll(<<>>, Builtins \o
                            (IF Enabled THEN TensorSymbols ELSE <<>>))
    /\ UNCHANGED <<prog, todo, bad, twice>>
-----------------------------------------------------------------------------
(* first_pass: what node i makes known to the whole program.               *)
MemberName(c, i) ==
    prog[c].name \o CASE Is(i, {"method"}) -> prog[i].name
                      [] Is(i, {"ctor"}) -> <<"init">>
                      [] Is(i, {"dtor"}) -> <<"deinit">>
                      [] OTHER -> <<"op", prog[i].sub>>
MemberSymbol(c, i) ==
    Symbol(MemberName(c, i),
           IF Is(i, {"method", "overload"}) THEN prog[i].type ELSE <<"void">>,
           Global)
BlockName(i) == <<"", "q">> \o prog[i].name
Enumerators(e) ==
    [k \in 1 .. 2 * Len(Kids(e)) |->
        LET m == prog[Kids(e)[(k + 1) \div 2]].name
        IN IF k % 2 = 1 THEN Constant(m, prog[e].name)
                        ELSE Constant(prog[e].name \o m, <<"int">>)]
Made(i) ==
    CASE Is(i, {"block"}) -> <<Symbol(BlockName(i), <<"void">>, Global)>>
      [] Is(i, ClassLike) ->
           <<Constant(prog[i].name, <<"type">>)>> \o
           LET members == OfKinds(Kids(i), MethodLike)
           IN [k \in DOMAIN members |-> MemberSymbol(i, members[k])]
      [] Is(i, Functions) -> <<Symbol(prog[i].name, prog[i].type, Global)>>
      [] Is(i, {"chan"}) -> <<Symbol(prog[i].name, <<"chan">>, Global)>>
      [] Is(i, {"const"}) -> <<Constant(prog[i].name, <<"int">>)>>
      [] Is(i, {"enum"}) ->
           <<Constant(prog[i].name, <<"type">>)>> \o Enumerators(i)
      [] OTHER -> <<>>

Collect ==
    /\ pass = "collect" /\ at \in Ids
    /\ \/ Is(at, Network) /\ Exit
       \/ /\ ~Is(at, Network)
          /\ syms' = AddAllNew(syms, Made(at))
          /\ at' = at + 1
          /\ UNCHANGED <<prog, pass, todo, bad, twice>>

Call(what, i, scope) == [what |-> what, node |-> i, scope |-> scope]
CollectDone ==
    /\ pass = "collect" /\ at \notin Ids
    /\ pass' = "check"
    /\ todo' = <<Call("node", 1, Global)>>
    /\ UNCHANGED <<prog, at, syms, bad, twice>>
-----------------------------------------------------------------------------
(* check_node of the first call in todo.                                   *)
This == Head(todo).node
Scope == Head(todo).scope
At(kinds) == /\ pass = "check" /\ todo # <<>>
             /\ Head(todo).what = "node" /\ Is(This, kinds)
Calls(what, nodes, scope) ==
    [k \in DOMAIN nodes |-> Call(what, nodes[k], scope)]
Recurse(nodes, scope) ==
    /\ todo' = Calls("node", nodes, scope) \o Tail(todo)
    /\ UNCHANGED <<prog, pass, at>>
Report(wrong) == /\ bad' = IF wrong THEN bad \cup {This} ELSE bad
                 /\ UNCHANGED twice

\* Mutated form: only the entry added last is looked at.
RedeclaredLast == /\ Holds(syms, prog[This].name)
                  /\ sym_find(prog[This].name).scope = Scope
(* sym_find_in_scope.                                                      *)
Redeclared == \E k \in DOMAIN syms : /\ syms[k].name = prog[This].name
                                     /\ syms[k].scope = Scope
Declare(type) ==
    /\ syms' = sym_add(syms, Symbol(prog[This].name, type, Scope))
    /\ twice' = IF Redeclared THEN twice \cup {This} ELSE twice
    /\ Recurse(Kids(This), Scope)
    /\ UNCHANGED bad

(* Headers of C bring names the compiler cannot see.                       *)
CHeaders == \E k \in DOMAIN Kids(1) :
              /\ Is(Kids(1)[k], {"import", "include"})
              /\ ~IsTensorImport(Kids(1)[k])
              /\ prog[Kids(1)[k]].sub = "c"

\* Mutated form: auto stays int, whatever the initialiser is.
EffectiveTypeInt == IF prog[This].type # <<"auto">> THEN prog[This].type ELSE <<"int">>
(* auto is the type of the initialiser, or int; a literal integer is taken *)
(* for the dimension of an array.                                          *)
EffectiveType ==
    LET t == IF Kids(This) # <<>> /\ ~Is(Kids(This)[1], {"int"})
               THEN Type[Kids(This)[1]] ELSE <<"auto">>
    IN IF prog[This].type # <<"auto">> THEN prog[This].type
       ELSE IF t \in {<<"auto">>, <<"void">>} THEN <<"int">> ELSE t

Declaration == At({"var"}) /\ Declare(EffectiveType)
Pointer == At({"ptr"}) /\ Declare(prog[This].type)

(* A class is gone through member by member, and a method part by part;    *)
(* the line of a class or a method is its scope.                           *)
Class ==
    /\ At(ClassLike)
    /\ syms' = AddNew(syms, Constant(prog[This].name, <<"type">>))
    /\ todo' = [k \in DOMAIN Kids(This) |-> Call("member", Kids(This)[k], This)]
                 \o Tail(todo)
    /\ UNCHANGED <<prog, pass, at, bad, twice>>

Variable(i, scope) == Symbol(prog[i].name, prog[i].type, scope)
Member ==
    /\ pass = "check" /\ todo # <<>> /\ Head(todo).what = "member"
    /\ LET class == prog[Head(todo).scope]
       IN CASE Is(This, {"var"}) ->
                 /\ syms' = sym_add(syms, Variable(This, class.line))
                 /\ todo' = Tail(todo)
            [] Is(This, MethodLike) ->
                 /\ syms' = sym_add(syms, Symbol(<<"this">>, class.name,
                                                 prog[This].line))
                 /\ todo' = Calls("part", Kids(This), prog[This].line)
                              \o Tail(todo)
            [] OTHER -> todo' = Tail(todo) /\ UNCHANGED syms
    /\ UNCHANGED <<prog, pass, at, bad, twice>>

Part ==
    /\ pass = "check" /\ todo # <<>> /\ Head(todo).what = "part"
    /\ syms' = IF Is(This, {"var"}) THEN sym_add(syms, Variable(This, Scope))
                                    ELSE syms
    /\ todo' = IF Is(This, {"program"})
                 THEN <<Call("node", This, Scope)>> \o Tail(todo)
                 ELSE Tail(todo)
    /\ UNCHANGED <<prog, pass, at, bad, twice>>

\* Mutated form: the body is looked for as the first child.
FunctionOfFirst ==
    /\ At(Functions)
    /\ LET params == OfKinds(Kids(This), {"var"})
           scope == prog[This].line
       IN /\ syms' = AddAll(syms, [k \in DOMAIN params |->
                                     Variable(params[k], scope)])
          /\ Recurse(IF Kids(This) # <<>> /\ Is(Kids(This)[1], {"program"})
                       THEN <<Kids(This)[1]>> ELSE <<>>, scope)
    /\ Report(FALSE)
(* All parameters first, then the body, which is the last child.           *)
Function ==
    /\ At(Functions)
    /\ LET params == OfKinds(Kids(This), {"var"})
           scope == prog[This].line
       IN /\ syms' = AddAll(syms, [k \in DOMAIN params |->
                                     Variable(params[k], scope)])
          /\ Recurse(IF Kids(This) # <<>> /\ Is(Last(Kids(This)), {"program"})
                       THEN <<Last(Kids(This))>> ELSE <<>>, scope)
    /\ Report(FALSE)

Block == /\ At({"block"})
         /\ Recurse(Kids(This), prog[This].line)
         /\ Report(FALSE) /\ UNCHANGED syms

(* Arguments of the tensor functions.  A name whose type is not known is   *)
(* accepted.                                                               *)
Fits(arg, expected) ==
    LET actual == Type[arg]
    IN \/ actual \in {expected, <<"auto">>}
       \/ /\ expected \in {<<"float">>, <<"int">>}
          /\ actual \in {<<"int">>, <<"int64">>, <<"byte">>}
       \/ expected = <<"Tensor">> /\ Is(arg, {"int"}) /\ prog[arg].sub = "null"
WrongArgument ==
    /\ prog[This].name \in ApiNames /\ prog[This].sub = ""
    /\ Holds(syms, <<"Tensor">>)
    /\ LET params == tensor_function(prog[This].name).params
       IN /\ Len(params) = Len(Kids(This))
          /\ \E k \in DOMAIN params : ~Fits(Kids(This)[k], params[k])
NetworkCalls == {<<"lu", w>> : w \in {"send", "recv", "broadcast", "route", "inq"}}
                  \cup {<<"lu", "server", "new">>}
NetworkCall == prog[This].name \in NetworkCalls /\ prog[This].sub = ""

(* Names of the compiler's own make begin with lu_, __lu_ or _q.           *)
OwnCall(name) == \/ name[1] = "lu" /\ Len(name) > 1
                 \/ IsPrefix(<<"", "", "lu">>, name) /\ Len(name) > 3
                 \/ IsPrefix(<<"", "q">>, name)
BackendBuiltins == {<<"syscall">>, <<"exit">>, <<"strlen">>}

(* A call of a method is looked up by its object.                          *)
FunctionCall ==
    /\ At({"call"})
    /\ \/ (WrongArgument \/ NetworkCall) /\ Exit
       \/ /\ ~WrongArgument /\ ~NetworkCall
          /\ LET name == prog[This].name
             IN Report(/\ ~Holds(syms, name)
                       /\ IF prog[This].sub # "" THEN name # <<"super">>
                          ELSE /\ ~OwnCall(name) /\ ~CHeaders
                               /\ name \notin BackendBuiltins)
          /\ Recurse(Kids(This), Scope) /\ UNCHANGED syms

Identifier ==
    /\ At({"ident"})
    /\ Report(/\ prog[This].name[1] # "" /\ ~CHeaders
              /\ ~Holds(syms, prog[This].name))
    /\ Recurse(Kids(This), Scope) /\ UNCHANGED syms

(* The target of an assignment; only a plain name is looked up.            *)
Set ==
    /\ At({"set"})
    /\ Report(prog[This].sub = "" /\ ~Holds(syms, prog[This].name))
    /\ Recurse(Kids(This), Scope) /\ UNCHANGED syms

\* Mutated form: the variable of the loop is not entered.
EachUnentered == At({"each"}) /\ Recurse(Kids(This), Scope) /\ Report(FALSE) /\ UNCHANGED syms
Each ==
    /\ At({"each"})
    /\ syms' = IF Kids(This) # <<>> /\ Is(Kids(This)[1], {"ident"})
                 THEN sym_add(syms, Symbol(prog[Kids(This)[1]].name, <<"auto">>,
                                           prog[This].line))
                 ELSE syms
    /\ Recurse(Kids(This), Scope) /\ Report(FALSE)

Handled == {"var", "ptr", "block", "call", "ident", "set", "each"}
             \cup ClassLike \cup Functions
Other ==
    /\ pass = "check" /\ todo # <<>>
    /\ Head(todo).what = "node" /\ ~Is(This, Handled)
    /\ Recurse(Kids(This), Scope) /\ Report(FALSE) /\ UNCHANGED syms

CheckDone == /\ pass = "check" /\ todo = <<>>
             /\ pass' = "done"
             /\ UNCHANGED <<prog, at, todo, syms, bad, twice>>
-----------------------------------------------------------------------------
SemanticInit ==
    /\ prog \in Programs
    /\ pass = "library" /\ at = 1
    /\ todo = <<>> /\ syms = <<>> /\ bad = {} /\ twice = {}

Check == \/ Declaration \/ Pointer \/ Class \/ Member \/ Part \/ Function
         \/ Block \/ FunctionCall \/ Identifier \/ Set \/ Each \/ Other

SemanticNext ==
    Library \/ LibraryDone \/ Collect \/ CollectDone \/ Check \/ CheckDone

SemanticSpec == SemanticInit /\ [][SemanticNext]_semanticVars
-----------------------------------------------------------------------------
(* The scopes of the language, by the tree: a variable reaches from its    *)
(* declaration to the end of what it is declared in, a loop's variable     *)
(* over the loop, `this` over a method of a class, everything else over    *)
(* the whole program.                                                      *)
Parent(i) == CHOOSE j \in Ids : i \in Range(Kids(j))
(* The nodes around i: nothing from there to i hangs further out.          *)
Around(i) == {j \in 1 .. i - 1 : \A m \in j + 1 .. i : Parent(m) >= j}
Hoisted(name) == \/ \E k \in DOMAIN Builtins : Builtins[k].name = name
                 \/ Enabled /\ name \in ApiNames \cup {<<"Tensor">>}
                 \/ \E d \in Ids : \E k \in DOMAIN Made(d) : Made(d)[k].name = name
Declares(d, name) == Is(d, {"var", "ptr"}) /\ prog[d].name = name
InScope(i, name) ==
    \/ \E d \in 1 .. i - 1 : Declares(d, name) /\ Parent(d) \in Around(i)
    \/ \E d \in Around(i) : /\ Is(d, {"each"}) /\ Kids(d) # <<>>
                            /\ prog[Kids(d)[1]].name = name
    \/ name = <<"this">> /\ \E d \in Around(i) :
                            Is(d, MethodLike) /\ Is(Parent(d), ClassLike)

Full == Len(syms) = MaxSymbols

(* What an argument is by its own declaration.                             *)
Declarations(name) ==
    {d \in Ids : \/ Declares(d, name)
                \/ /\ Is(d, {"each"}) /\ Kids(d) # <<>>
                   /\ prog[Kids(d)[1]].name = name
                \/ \E k \in DOMAIN Made(d) : Made(d)[k].name = name}
DeclaredType[i \in Nat] ==
    CASE Is(i, LiteralTypes) -> <<prog[i].kind>>
      [] Is(i, {"call"}) /\ prog[i].name \in ApiNames ->
           tensor_function(prog[i].name).result
      [] Is(i, {"ident"}) /\ Declarations(prog[i].name) # {} ->
           DeclaredType[CHOOSE d \in Declarations(prog[i].name) : TRUE]
      [] Is(i, {"var"}) /\ prog[i].type = <<"auto">> -> DeclaredType[Kids(i)[1]]
      [] OTHER -> prog[i].type
Legal(arg, expected) ==
    \/ DeclaredType[arg] = expected
    \/ expected = <<"float">> /\ DeclaredType[arg] = <<"int">>

(* No name in its scope is reported, whatever the order of functions and   *)
(* classes in the text and however the name is used again elsewhere.  Only *)
(* a full table makes the check forget one.                                *)
NamesAccepted ==
    \A i \in bad : Hoisted(prog[i].name) \/ InScope(i, prog[i].name) => Full
(* Nor does an argument of the type that is wanted end the check, if its   *)
(* name is declared once: the check would take the type of another         *)
(* variable whose scope has ended.                                         *)
ArgumentsAccepted ==
    pass = "exited" /\ todo # <<>> /\ bad = {} /\ ~NetworkCall =>
        \E k \in DOMAIN Kids(This) :
            LET arg == Kids(This)[k]
            IN  \/ ~Legal(arg, tensor_function(prog[This].name).params[k])
                \/ Is(arg, {"ident"})
                     /\ Cardinality(Declarations(prog[arg].name)) > 1

(* The part of the program that is checked: the bodies of functions and    *)
(* methods, and what stands in none.                                       *)
Checked(i) ==
    \A a \in Around(i) \cup {i} : a # 1 =>
        LET c == Parent(a)
        IN  /\ Is(c, Functions) => a = Last(Kids(c)) /\ Is(a, {"program"})
            /\ Is(c, ClassLike) => Is(a, MethodLike)
            /\ Is(c, MethodLike) => Is(a, {"program"})

(* A second declaration of a name in the same list of statements is        *)
(* noticed, whatever was declared between the two.                         *)
DuplicatesNoticed ==
    pass = "done" =>
        \A d, e \in Ids \ {1} :
            (/\ d < e /\ Checked(e) /\ Parent(d) = Parent(e)
             /\ ~Is(Parent(d), Functions \cup MethodLike \cup ClassLike)
             /\ \E name \in {prog[d].name} : Declares(d, name) /\ Declares(e, name))
            => e \in twice \/ Full

Looked(i) == \/ Is(i, {"ident"}) /\ prog[i].name[1] # ""
             \/ Is(i, {"set"}) /\ prog[i].sub = ""
             \/ Is(i, {"call"}) /\ prog[i].sub = "" /\ ~OwnCall(prog[i].name)
                                /\ prog[i].name \notin BackendBuiltins
             \/ Is(i, {"call"}) /\ prog[i].sub # "" /\ prog[i].name # <<"super">>

(* A program that passes uses no name that nothing declares before the use,*)
(* unless it includes headers of C.  A name whose scope has ended passes.  *)
UndeclaredRefused ==
    pass = "done" /\ bad = {} /\ ~CHeaders =>
        \A i \in Ids : Looked(i) /\ Checked(i) =>
            LET name == prog[i].name
            IN  \/ Hoisted(name) \/ name = <<"this">>
                \/ \E d \in 1 .. i - 1 : Declares(d, name)
                \/ \E d \in 1 .. i - 1 : /\ Is(d, {"each"}) /\ Kids(d) # <<>>
                                         /\ prog[Kids(d)[1]].name = name

(* The variables whose scope i is in, by their declarations before i.      *)
Reaching(i, name) == {d \in 1 .. i - 1 : Declares(d, name) /\ Parent(d) \in Around(i)}

(* What GUIDE.md says of scopes in chapter 6, "variables in a function are *)
(* local to the function": a program that passes uses no name out of its   *)
(* scope.  The code finds the entry a finished function has left.          *)
LocalsStayLocal ==
    pass = "done" /\ bad = {} /\ ~CHeaders =>
        \A i \in Ids : Looked(i) /\ Checked(i) =>
            Hoisted(prog[i].name) \/ InScope(i, prog[i].name)

(* The same of types: a call is not refused for the type that another      *)
(* function's local has; every variable it may mean has the wanted type.   *)
LocalsHideNothing ==
    pass = "exited" /\ todo # <<>> /\ bad = {} /\ ~NetworkCall =>
        \E k \in DOMAIN Kids(This) :
            LET arg == Kids(This)[k]
                wanted == tensor_function(prog[This].name).params[k]
                meant == Reaching(arg, prog[arg].name)
            IN  IF Is(arg, {"ident"}) /\ meant # {}
                  THEN \E d \in meant : DeclaredType[d] # wanted
                  ELSE ~Legal(arg, wanted)
=============================================================================
