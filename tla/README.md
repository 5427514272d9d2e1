# Specifications of the Lu compiler

TLA+ modules for `luc`, the compiler of the Lu language: Lu/Strict (v5) is
translated to Lu Classic, Classic is parsed and compiled to a static x86-64
ELF (the native back end) or to C (the C back end).  Source paths are relative
to the repository's root; the compiler is in its `src/` directory.

Run a model with `tlc -config <run>.cfg <module>.tla`, check a proof with
`tlapm <module>.tla`.

## The system

| Component | State | Operations | Hard part |
|---|---|---|---|
| Include expander, Classic (`src/includes.c`) | `Incl.seen`, output buffer, recursion | `resolve`, `canonical`, `remember`, `expand` | cycles, diamonds, several spellings of a file, depth limit, errors half way |
| Include splicing, v5 (`src/v5.c`) | token stream, position, `inc`, pass | `parse_include`, `splice_tokens`, `parse_program`, `v5_transpile` | a parser that rewrites the stream it reads, and reads it twice |
| Statements, v5 (`src/v5.c`) | `loc`/`nloc`, `blk_nloc`, `depth`, `loop_kind`/`loop_inc`, `pre`, `out` | `stmt` and the `parse_*` functions of statements | scopes that must agree with the emitted braces; return analysis; lowered ranges; text hoisted out of expressions; `Del` |
| Expressions, types, structs, packs, v5 (`src/v5.c`) | symbol tables, `pre` | `parse_primary` to `parse_expr`, `compat`, `stream_suffix`, `parse_struct`, `parse_pack` | implicit conversions; text that another grammar reads back |
| Lexer (`src/lexer.c`) | position, line, column, token list | `lexer_tokenize`, `read_string`, `read_number`, `read_word` | eighty tests in a row; where strings end; words with slashes and braces |
| Classic parser (`src/parser.c`) | position, tree | `parse_statement` and the `parse_*` functions, `parse_expr` | two styles of statements, bodies in the line or in lines of their own; it accepts nearly everything, so that what it does not understand becomes another statement |
| Classic semantic checker (`src/semantic.c`, `src/libraries.c`) | symbol table, error counter | `semantic_check`, `first_pass`, `check_node`, `check_library_usage` | one table for all scopes that only grows; what is collected before and what during the check |
| Native back end (`src/x86.c`) | labels, frame, temporaries, register cache, loop labels | `gen_stmt`, `gen_expr`, `gen_set`, `gen_cond_jump`, `gen_const_divmod`, `native_compile` | values kept in registers and slots at once; 32 temporaries; arithmetic short cuts |
| C back end (`src/codegen.c`) | symbol lists, and the run time it emits | `gen_node`, `emit_runtime` | Try/Catch/Finally over `setjmp`, channels, `defer` |
| Driver (`src/main.c`, `src/util.c`) | files, error counters, options | `main`, `make_temp_path`, `run_binary` | partial failure, temporary files, exit status |
| Self-hosted compiler (`src/lu_self_runtime.h`), `src/lu_doctor.c` | fixed tables | its own lexer and generator | silent limits |
| Libraries and programs (`include/Uios.lu`, `motion/`) | buffers, editor project | number formatting and input, key frames, project files | boundaries, files of another version |

The driver reads a file, runs it through `v5_transpile` or
`lu_expand_includes`, then lexer, parser, semantic checker and one back end;
all of it is one sequential process, and the components call each other in
this order with whole texts or trees.  There are no threads; two compilations
meet only in the file system.  What is hard is therefore, but for the driver,
not interleaving but long sequences of legal steps that leave two pieces of
state disagreeing, limits, partial failure, and the agreement of two compilers
(v5 with Classic, native with C) that must mean the same.

What makes each part correct:

- **includes**: a file enters a unit once, where it is first named, whatever
  its spelling; a skipped directive loses nothing; the expander ends on every
  tree; both dialects read the same unit;
- **v5 expressions**: what is legal is accepted, what is not is refused, and
  the text that is written means what was checked;
- **lexer**: tokens are the text, in order, and the longest there are; a string
  ends at its delimiter;
- **parser**: a statement gives its tree wherever it stands; no loop stands
  still, whatever the tokens;
- **semantic checker**: a name in its scope passes, one that nothing declares
  does not, nor an argument of another type; a second declaration is noticed;
- **v5 statements**: names resolve exactly as far as the emitted braces reach;
  an accepted function returns on every path;
  loops run as often as they say;
  use after `Del` is found;
- **native code**: an expression's value is that of the source, whatever is in
  registers, temporaries and slots; frames do not overlap; the same program
  means the same in both back ends;
- **C run time**: `Finally` runs; a throw reaches a live handler; a channel is
  a queue;
- **driver**: what is executed is what was compiled, a failed compilation says
  so in its exit status, leaves no temporary file and touches no other.

## Modules

| Module | Models | Role |
|---|---|---|
| `IncludeOnce` | `incl <name>` in both dialects | abstract specification: a work list of lines |
| `IncludeSearch` | `resolve`, `resolve_include` | the search, as operators |
| `IncludeTree` | a concrete source tree | instance for the two include runs |
| `ClassicIncludes` | `expand` | a stack of activations; implements `IncludeOnce` |
| `V5Includes` | `parse_include`, two passes | a spliced stream; implements `IncludeOnce` |
| `ClassicProofs` | | theorems about `ClassicIncludes` and `Semantic` |
| `V5IncludesProofs` | | theorems about `V5Includes` |
| `V5Statements` | `stmt`, `parse_if`, `parse_for`, ... | pass 2 over one body, token by token |
| `V5Run` | the emitted text as both back ends compile it | composed with `V5Statements`: what is accepted is run |
| `V5StatementsProofs` | | theorems about `V5Statements`; what holds of every emitted text |
| `V5RunProofs` | | theorems about `V5Run`: what a run does with that text |
| `NativeDivision` | `signed_magic`, `gen_const_divmod` | the search for a multiplier, then the emitted code on every dividend |
| `NativeDivisionProofs` | | theorems about `NativeDivision` |
| `LuExpr` | what expressions and assignments mean | reference for `NativeExpr` |
| `NativeExpr` | `gen_expr`, `gen_cond_jump`, `eval_args`, `gen_set`, ... | compiles a statement and runs the instructions |
| `CTry` | `NODE_TRY`, `NODE_THROW`, `lu_throw` | Try, Catch and Finally as the emitted C runs |
| `CTryProofs` | | theorems about `CTry` |
| `Driver` | `main`, `make_temp_path`, `run_binary`, the files of `write_elf` | several runs over one file system |
| `DriverProofs` | | theorems about `Driver` |
| `ClassicLexemes` | `read_number`, `read_word`, the tests of `lexer_tokenize` | what one token is, as operators |
| `ClassicLexer` | `lexer_tokenize`, `read_string` | the loop over a text |
| `ClassicLexerProofs` | | theorems about `ClassicLexer` |
| `V5Expr` | `parse_primary` ... `parse_expr` of `src/v5.c` | checks an expression and writes it |
| `ClassicExpr` | `parse_primary` ... `parse_expr` of `src/parser.c` | reads an expression of Classic |
| `V5Text` | the text between the two | composes `V5Expr`, `ClassicLexer` and `ClassicExpr` |
| `ClassicParser` | `parse`, `parse_statement` and all it calls | the statements of Classic, over `ClassicExpr` |
| `Semantic` | `semantic_check`, `first_pass`, `check_node`, `check_library_usage` | which programs the C back end is given |
| `MC...` | | values of constants for TLC |

### Includes

`ClassicIncludes` has one stack element per activation of `expand()`: the path
whose directory a nested search starts from and the line reached.  One action
per outcome of a line: copied, directive not found, already included, pulled
in (with the three errors that can follow `remember()`), end of file.
`V5Includes` has the token stream with the spelling each token came from
(`Tok.file`), the position and the pass; `Splice` does what `parse_include`
does between saving and restoring the stream.  A line of text is a single
value: no property depends on its wording.  Whether a declaration is legal is
left open in `V5Includes`: pass 1 may refuse it for its signature, and pass 2
for its body, which `parse_block_raw` has only skipped in pass 1 (`Refused`).
The contents of the files are
chosen in `Init` and do not change: a compilation reads each file once.

Both are shown to implement `IncludeOnce` under a refinement mapping: the work
list is the unread lines of the stack, innermost first, or the rest of the
stream in pass 1; in pass 2 it is empty, and the outcome stays open until
`v5_transpile` has looked at `failed` for the second time.  They differ in two
constants.  `From`: Classic resolves the directives of a nested file from its
canonical path, v5 from the spelling it was found under.  `Refuses`: v5 may
still refuse a unit that has been read, since it has then to check it, while
the expander of Classic delivers it.

### Statements, and running them

`V5Statements` enumerates bodies token by token; a token is a statement or the
head of one.  `blocks` is the stack of open blocks with the local variables of
the parse function that opened each (`returned` is `!reachable` of `body()`,
`all` and `hasElse` those of `parse_if` and `parse_match`); `loc`, `loops` and
`code` are `V5.loc`, `V5.loop_kind` with `V5.loop_inc`, and `V5.out`.
`V5Run` executes `code` of an accepted body with a program counter, the blocks
entered and how often each counted loop has run.  Conditions go either way.
An else that does not follow the closing brace of an if is a statement of its
own, as in the Classic parser.  A condition `e in a` is computed by a line of
its own (`hoist`), which stands where `V5.pre` is flushed: in front of the
statement, and for an else if between the branches.

### Division by a constant

`NativeDivision` has two halves in one state machine.  The search raises the
shift until it is the logarithm of a power of two or until `signed_magic`
accepts the multiplier.  Then the emitted code runs on a dividend chosen
freely: `ShiftDividend` or `MultiplyDividend` up to the quotient's absolute
form, `Finish` for the divisor's sign and the remainder.  Registers are
integers that wrap at `2 * Half`; the shift is kept as its power of two, so
that no exponent occurs and the theorems can be about any width.

### Expressions and assignments

`NativeExpr` translates a tree to a list of instructions the way `src/x86.c`
does, one operator per function: `t` is `x->temp_depth`, a register-cached
variable is an operand of its own, jumps skip a number of instructions instead
of naming labels.  Its state machine executes the list.  `rax`, `rcx` and two
argument registers are lost in a call, the cached registers are not; the frame
is an array of words with temporaries at one end and locals at the other.
`LuExpr` says what the statement means without any of that.  It evaluates
operands from left to right, which `SPEC.md` leaves open and both back ends
mostly do; in the short cuts of `gen_set` the order is different, and the
condition that makes this harmless (`expr_is_pure`) is part of what is
checked.  The called function counts its calls in a global and in the array,
so that a call that is dropped, repeated or moved shows.  A multiplication or
a bit operation is compiled as `+` is; fields, narrower types, pointer
arithmetic and `++` are left out.  Accesses outside the array are ignored on
both sides.

### Try, Catch, Finally

`CTry` is the emitted C program around a Try.  `open` is the blocks that have
been entered, over all calls: functions, loops, and Try statements with the
part that runs (`stage`) and the locals `_lu_state` and `_lu_handled`; `chain`
is `__lu_exc_stack`, as the number of the Try whose context it points to, and
`code` is `__lu_exc_code`.  The program is not fixed: in a block any statement
may come next, so that one state graph holds every program.  A throw drops the
blocks inside the context on top of the chain; return, break and continue drop
blocks and do not look at the chain, as the C statements they become.  After
such a jump the chain can name a context that is gone, and a throw then ends
in the phase `wild`: what happens is undefined in C.  `threw`, `ran`, `nested`
and `escaped` are history for the properties.

### Driver

`Driver` has a program counter, a command line and a process number for every
run of `luc`, and one file system; a file is who wrote it and whether it is
empty, partial or whole.  What the parser, the checkers and the code
generators answer is left open: every outcome `main()` tells apart may occur,
and every system call may fail.  A run may be killed between any two steps
(`Kill`) and another may get its number, so that files with its names are
found by a run that did not make them; the temporary files of earlier runs are
there from the start (`Leftovers`).  A program whose run was killed goes on
and ends by itself (`OrphanEnds`).

### Lexer

A source is a sequence of atoms: a character, a byte of a character that is
not ASCII, or a run of letters that no keyword divides.  `ClassicLexemes` says
for a position which of the tests of `lexer_tokenize()` succeeds first and
what it reads; `ClassicLexer` takes one step per round of the loop, and one
per character in `read_string()`, whose buffer (`Cap`) decides where a long
string ends.  Each token remembers the piece of text it was made of: history,
for the properties only.

### Expressions of Lu/Strict, to the tree of Classic

`V5Expr` is `expr()`: an operator per function, from a position in the tokens
to what was written, its type, the lines that must stand in front of it
(`pre`) and whether it was accepted.  `ClassicExpr` is the parser of Classic,
from a position to a tree.  Both are recursive descents, written with
`Then(first, Rest)`: what is read first, and what is made of it.  `V5Text`
joins them with `ClassicLexer`: an expression is translated, the text goes
through the lexer line by line and through the parser.  Each sentence comes
with the tree it means and with whether it is legal; both are built from the
rules of `SPEC.md` by operators of `MCV5Text` and not by the model of the
code.

### Statements of Classic

`ClassicParser` has the program, the position and the statements read so far;
`ParseOne` is a round of `parse()`.  A position behind the end stands for a
loop that does not end (`Stuck`), another for an error that ends the compiler
(`Stopped`).  `MCClassicParser` builds each program together with its tree,
after `GUIDE.md` and `TUTORIAL.md`.  While the model was written, its trees
were compared with the dumps of the compiler (`--ast`) on thirteen programs
of `examples/` and some 2,400 token sequences made at random.

### Names

`Semantic` goes over a tree in three passes: library check, collection and
check, one node per step; `todo` is the recursion of `check_node()` that is
still to come.  A name is a sequence of words, so that `C_f` is the method `f`
of `C` as well as a name a program may use.  What scopes are is stated by the
tree (`InScope`, `Hoisted`), what the code makes of them by the table `syms`,
whose entries stay when a scope ends.  `IsProgram` is what the parser's trees
are: nodes numbered in the order of a walk over the tree (`IsTree`), a loop
over a list with the name of its element first (`src/parser.c:973` and 2455),
and no pointer declaration among the parameters of a function or the members
of a class, which the parser makes of statements only (1611 and 2080).

## Runs

| Run | Shows | States |
|---|---|---|
| `ClassicIncludes.cfg` | no line enters twice, the depth error is no cycle, refinement of `IncludeOnce`, termination | 86,864 |
| `V5Includes.cfg` | pass 2 emits what pass 1 scanned, refinement of `IncludeOnce` with refusals in either pass, termination | 161,131 |
| `V5Bodies.cfg` | accepted functions return on every path, scopes agree with braces, ranges advance, counted loops run their count, a use after `Del` needs a loop | 1,059,745 |
| `NativeDivision.cfg` | division and remainder by every divisor are exact for every dividend of eight bits, a multiplier is always found | 130,328 |
| `NativeExpr.cfg` | the code of a statement does what the statement means, with its calls in their order, temporaries and locals stay apart | 199,435 |
| `CTry.cfg` | a throw lands in the innermost running body, the first fitting clause and no other runs, `Finally` precedes the end of a Try, what no clause takes goes on as it was | 1,754,328 |
| `Driver.cfg` | a make executes the binary it wrote, no temporary file stays, a refused program touches no file, status 0 means a whole output, no temporary file of another run is touched, nothing hangs | 312,289 |
| `ClassicLexer.cfg` | tokens are the text in order and the longest there are, their places are right, strings end where they end, every round reads | 1,318,934 |
| `V5Text.cfg` | an expression comes through text, lexer and parser as the tree that was checked; the legal ones are those accepted | 113,077 |
| `ClassicParser.cfg` | statements give the tree they mean, alone, in pairs and in bodies; no round stands still on any of thousands of token sequences | 92,561 |
| `Semantic.cfg` | names in their scope and legal arguments pass, undeclared names do not, second declarations are noticed | 273,217 |

`V5HoistedElse.cfg` checks a property that a comment of the repository states,
and TLC finds it violated by what the code does: a taken branch is followed by
the computation for the condition of the next one (`src/parser.c:2651` says
that the condition is skipped).  It is the run of a finding in `PROJECT.json`,
which quotes the lines.

Six more configurations are no checks of the model but reproductions: each
makes TLC print the steps of a disagreement that is among the findings.

| Reproduction | Claim | What TLC shows |
|---|---|---|
| `V5HoistedWhile.cfg` | `while c` tests before each iteration (`SPEC.md:237`) | `e in a` is computed once, in front of the loop |
| `V5LoopsInC.cfg` | `loop N` runs exactly N times (`SPEC.md:237`) | not with the C back end, if the body changes a variable of N |
| `V5DoubleDel.cfg` | a second `Del` is an error (`docs/meta/errors.md:79`) | it is accepted, and the memory is freed twice |
| `NativeDecrement.cfg` | `x = x - c` becomes one read-modify-write (`src/x86.c:2108`) | it adds `c` to a local that is kept in a register |
| `SemanticLocals.cfg` | variables of a function are local to it (`GUIDE.md:465`) | the next function may use them |
| `SemanticTypes.cfg` | the same | and a call there is refused for their type |

Other disagreements that were met on the way are findings without either.  The
statements and programs that show them are left out of the passing runs, by
name where the model has one (`Decrements` of `MCNativeExpr`), or they are the
exceptions which `CTry` and `Driver` state in their properties, or the
properties of `Semantic` let them pass: `UndeclaredRefused` is about names
without any declaration before the use, `LocalsStayLocal` beside it about
those out of their scope; `ArgumentsAccepted` is about names declared once,
`LocalsHideNothing` about all.

**Bounds.**  The include runs choose among all trees of a main file and three
others in two directories, with a symbolic link, a directory spelled in two
ways, a name found in both directories and a file of the other dialect; two
lines are enough for a file to name another before and after its text, and
four files for cycles of length three and diamonds.  The depth limit is 2
instead of 32.  `V5Bodies.cfg` gives a
function with a result bodies of control statements and one without a result
bodies with names (`OneKind`): the one property that asks for a result is
about control alone, and the others ask for names.  The first are of eight
tokens, which hold a two-branch match or if with returns in all branches, and
a loop with a branch inside it; the second of seven, which hold a declaration,
a loop, a branch with `continue` and what follows.  Counts are 0 and 2: a loop that does not run, and one that has a
first and a last iteration that differ.  `Counts` and `Starts`, `MaxTokens`
and `SavedBlocks` name these bounds.  `NativeDivision` runs registers of eight
bits (`Half` 128, `MaxDivisor` 64) with all divisors and dividends, so that
multipliers with and without the top bit, and both ends of the range, occur;
the theorems cover the rest.  `NativeExpr` compiles about 7,900 statements
from two initial stores: every operator on pairs from 22 operands (leaves
of each storage class, elements, calls with calls as arguments,
conditionals), every target with and without a compound operator, and
conditions nested three deep with side effects in them.  Three cached
locals, two framed ones and a global meet every case of `leaf_to_reg` and
`gen_set`; `MaxTemp` is 4, exactly what the deepest of these
statements needs.  `CTry` has two codes and clauses for the first,
for the first and all others, and for all before the first; three Try
statements and five open blocks let one stand in a body, a clause or a Finally
of another, directly or in a function or loop, and a second inside that.

`Driver` has two runs and two process numbers, so that a run meets the files
of a live, a killed and an earlier one with its own number; two names to try
(`MaxTries`, 4096 in the code) with none, one or both taken; and nine command
lines that reach every branch of the choice of the output.  `ClassicLexer`
runs every text of up to three to seven atoms over twelve alphabets, each of
atoms that meet the same tests, one of them of all characters of operators; strings hold four characters (`Cap`, 4088 in
the code) and payloads one (`Room`, 127 to 511), so that both limits are
passed.  `V5Text` has expressions of up to three operators over a set of
declarations with every kind of type; left out are, because the text means
something else or is refused, as the findings say: an element or field of a
parenthesised or converted expression, the conversion of a dotted name, a
pack behind a pointer, and comparisons of comparisons without parentheses.
`ClassicParser` has every statement alone, in pairs and in the body of every
other, with four layouts of bodies, and for `Advances` ten alphabets of up to
three tokens and every beginning of a statement followed by up to two; left
out are `Ret/` without a value before a closing brace, `Else/` with an empty
line before its brace, and `fn(` followed by what is no type, which are
findings.  `Semantic` has programs of one to three statements of about ninety
kinds, with functions, methods, blocks and loops of up to two statements and
one level more for some; nine entries fill its table (`MaxSymbols`, 4096 in
the code), which the larger programs do.

`CTry` states its properties with their exceptions, which are findings and
not idealisations: `Finally` is skipped by a clause that throws and by a jump
out of the body, although `GUIDE.md:1310` says it is always executed; a jump
out of a body leaves its context on the chain (`escaped`); and what is thrown
on after a `Finally` is the code of an exception the `Finally` caught itself
(`nested`).

**Fairness.**  The include runs check liveness under weak fairness of the
whole next-state relation: expander and parser are loops of one process and
nothing they wait for can fail to come.  File contents are finite.  `Driver`
has weak fairness of the steps `main()` takes by itself, for each run: the
scheduler of the system runs every process in the end.  There is none of
`WaitBinary`, since the program that is executed may run for ever, and none of
`Kill`.  That the lexer and the parser end needs no fairness: every round
takes something of a finite text (`EveryRoundReads`, `Advances`).

`CHECK_DEADLOCK FALSE` stands where the program ends in a state without a
successor; the lexer, and `V5Text` with it, stutters when it is finished and
is checked for deadlock.

## Proofs

`ClassicProofs` proves of the expander, for every tree of files, search, set
of names and depth limit, that `OncePerFile` and `DepthErrorIsNoCycle` are
invariants, and with them `TypeOK`, which no run checks besides: no activation
reads past the end of its file.  The assumptions are those of
`ClassicIncludes`: `RealPath` is idempotent, the search returns a path or
`NoPath`, files are finite.

`OncePerFile` is not inductive: that a line is new when it is copied follows
from where the activation of its file stands.  `IInv` adds: the activations
above the first are of different, canonical, remembered paths (`StackInv`);
what is in the unit belongs to remembered files or the main one, and the
lines of a file being read lie above its current line (`OutInv`).  The depth
error adds that the file nested too deep is one that is not being read, so
that stack and file together are more than `MaxDepth` different files, counted
by the lemma on injections of `FiniteSetTheorems` (`DepthInv`).

`NativeDivisionProofs` proves `Exact` and `NeverFails` for every width, every
divisor and every dividend, from `DivisionAssumption` alone (the largest
divisor is at most half the largest register value, as 2^31 - 1 is of 2^63).
`Exact` holds at the end of the code only; the inductive invariant `IInv`
adds what the search establishes (`FormInv`: the power is the divisor, or the
multiplier's excess over `2 * Half * power / d` is between 1 and twice the
power) and what the quotient is before the sign is applied (`QuotientInv`).
The core is `MagicProduct`: the product with such a multiplier has the floor
of the quotient in its high part.  For `NeverFails`, `SearchInv` bounds the
power by the divisor and `NextMultiplier` shows that the smallest power above
half of the divisor is accepted.

`CTryProofs` proves every property of `CTry` for any codes, clauses and
number of blocks.  `HandlersLive` says of every running body which context its
own `prev` is, and is nearly inductive: `IInv` adds that a context belongs to
one block (`Ids`), so that the block a throw finds is the innermost body
(`LandsInTop`), and that only the innermost Try is between two of its parts
(`PartsInside`).  The steps are instances of three lemmas on sequences of
blocks: the chain is kept when only blocks that are no bodies come or go
(`ChainKept`), goes back to `prev` when the innermost body ends or is thrown
out of (`ChainPopped`), and grows by a new body (`ChainPushed`).
For the clauses, `CInv` adds to `IInv` what a Try knows half way
(`ClauseInv`: nothing has run before `_lu_handled` is set, and no clause that
was passed takes what was thrown) and that the code of a Try that is still to
be thrown again is the global one or the Try's Finally has caught another
(`CodesInv`).  `FinallyRuns` needs `IInv` only: an unfinished Try that is not
the innermost has a running body (`UnfinishedIsBody`), so that no throw passes
it.

`DriverProofs` proves the safety properties of `Driver` for any number of
runs, process numbers and command lines, from assumptions about paths alone:
temporary names are none of the user's.  `OwnOutput` says
that from the choice of the output on a run's path is a named one or a
temporary file it made itself; `TempsHeld` that a temporary file of a run is
this path, unless the run was killed or refused for the tensor header; and
`WholeToRun` that what is about to be executed is complete.  The step that
matters is that of another run (`StepOwn`): it takes a name that is absent
(`O_EXCL`) and removes only what it took.  `ZeroMeansWritten` needs an
invariant of one run only (`Errorless`): a run that has come as far as writing
has seen no error, one that removes its output without executing it ends with
another status, and a run that is about to exit with 0 has written the whole
file under its name, if nobody wrote that path after it.

`ClassicProofs` and `V5IncludesProofs` also prove that expander and splicer
implement `IncludeOnce` as far as safety goes: `Init` maps to `Init`, and every
step to a step of the work list or to a stutter.  The refinement
mapping folds over a stack or a stream, so both proofs state what the fold is
as a function with its base and its step (`Recursive`; the lemma `Recursion`
says that there is one), and derive from that how it changes: in
the expander only the innermost activation changes and the work of its callers
(`Callers`) stays; in the splicer the tokens of a file that is put in its
directive's place are exactly the lines the work list takes for it (the lemma
on splices), and those before the position stay what they were.
An error of pass 2 maps to `Refuse`, which ends a unit that has been read;
the mapped outcome is still open then, since only the end of pass 2 closes it
(`FinishStep`, `RefuseStep`).
`V5IncludesProofs` further proves `EmitsWhatWasScanned`: `EmitInv` says that
in pass 2 what was written is the text among the tokens that were passed, and
that a run that ends well has gone through pass 2 to its last token.  It
assumes what the code does
(`V5Assumption`): a path found is a path, files are finite.

`ClassicLexerProofs` proves the properties of `ClassicLexer` but
`LongestTokens`, which is about the operators as they are, for every text over any atoms, any letters, any size of the buffers.  The lemmas about
`ClassicLexemes` show of each test of `lexer_tokenize()` that what it accepts
ends behind its start and not behind the text, is no string and, if it is a
word, number or operator, is its text (`Made`, `LexemeAtMade`); for the
operators and commands this needs only that no spelling is empty
(`Spelling`).  `EveryRoundReads` follows from the type invariant with
`Reads`, the form that all steps but two have.  `PlaceOfToken` needs that
line and column of the position itself are right (`PlaceInv`), which
`advance()` keeps over any piece of text (`Move`).  For `TokensAreText`,
`TextInv` says where the lexer stands between tokens: at the end of the last
one or behind a comment that follows it.  `StringsEndWhereTheyEnd` is about
finished strings; `StringInv` says of the one that is being read that no
delimiter before the position was free, that an even number of backslashes
stands before the position (so that it is not inside an escape), and that
the buffer is not longer than what was read, which is why a full buffer means
a long string.

`V5StatementsProofs` proves of the pass over a body that the transpiler's table of
names and the braces it emits agree (`ScopesAgree`), for every set of
statements and every length of a body.  `Bal` is how many braces are open after
a line, `Lev` how many a block of the stack stands for, and `Visible` the
declarations no later closing brace ends.  `Reading`, the invariant of the
reader, says that the stack is well formed (`Shape`), that the saved heights of
the table of names grow with it (`Heights`), and that the text has as many open
braces as the stack stands for.  `Scoped` adds what makes `ScopesAgree`
inductive: the entries of the table are the visible declarations one for one
(`Agree`), and for every open block the entries up to its saved height are
those declared outside of its braces (`Cut`), so that dropping to the height is
what the closing brace does.  There is one lemma per action (`...Does` for what
it changes, `...Keeps` for the invariant).  `ScopesHold` needs that no more
blocks are open than `close_block()` has saved heights for (`Shallow`: behind
that bound the code keeps the names, and the property is false);
`ShortBodiesAgree` shows that bodies of up to `SavedBlocks - 3` tokens never
come near it.  `RunIsReading` carries both over to `V5Run`.

`V5RunProofs` is about the run of an accepted body: that
it returns on every path, and that a counted loop of the native code runs as
often as its count says.
They do not bound the body, its nesting or the counts; `RunAssumption` says
that the back end is one of the two and that numbers are natural.

The reader decides `returned`, `all` and `hasElse` block by block, the run
knows lines only.  What joins them is a pair of sets of lines (`Paths`): `L`
holds the lines control may come to, `P` those at which an else may have to be
passed over, and both are closed under what the back ends do with each line
and each pair of braces (`Joins`).  `Flow` says of the text read so far that
there is such a pair with the end of the text outside of `L` wherever a block
of the stack is marked as returned, and for every open block that what its
head and its earlier branches still owe is recorded in its flags (`HeadOf`,
`Owing`).  Every action of the reader extends the pair by the line it emits
(`...Reach`); at the end of a body with a result the line behind the last one
is outside of `L` (`Sealed`).

The invariant of the run is `Course`.  `Nest` says that the entered blocks are
exactly those whose braces are open in front of the line to run, the k-th
opened by the k-th frame; so the closing line that is run is that of the
innermost frame, and `break` and `continue` find their loop
(`InnermostIs`).  `Placed` adds that this line and the heads of all frames are
in `L`.  All jumps are then one lemma on moving control to a line that leaves
no outer block (`NestMove`).  `PastElse` is a recursive function whose domain
is all line numbers: `SkipsExists` proves that there is one, because an else
is closed behind its head, and `PastElseFinds` where it ends.

`NativeLoopsRunTheirCount` has the hypothesis that the back end is the
native one; with the C back end the property is false, as `V5LoopsInC.cfg`
shows.  `EveryPathReturns` needs no such hypothesis.  Nothing is proved of
chains: that a chain runs one branch is false because of the conditions that
are computed in front of an else if (`V5HoistedElse.cfg`), and without those it
says no more than `PastElse` does.

`UseAfterDelNeedsLoop` (`FreedIsUsedInLoopsOnly`) joins the two halves once
more.  `Pointing` says of the reader that every use of a pointer it has emitted
stands below a `bind` of that name which is visible there, with no free in
between (`Handled`), and that an entry of the table of names whose variable was
freed in its scope is marked so (`Fresh`); that one rests on `Scoped`, because
only a table that agrees with the braces tells which variable a `Del` is about.
`Memory` is the invariant of the run: a name whose memory is gone is a
pointer, and either some free of it stands in a loop (`LoopFree`), or the line
to run lies below such a free with no declaration of the name that is still in
force in between (`Since`).  Jumps go up only at the end of a loop and then the
free is inside of it (`SinceBack`); all other moves leave blocks or pass lines
that declare nothing that lives on.  At a use the two contradict each other.
Like `ScopesHold` it needs `Shallow`, and `ShortBodiesUseInLoopsOnly` is free of
that hypothesis.

`RangeVariableAdvances` (`RangesAdvance`) rests on how the reader lowers a
range.  `Tidy` says of the emitted text that the head of a range stands behind
the scope that declares its variable, that an advance stands only in front of a
`continue` or of the closing line of its loop, and that it is the variable of
that loop, the innermost one there, that it advances (`Advances`); nothing
visible in between declares the name once more (`Unseen`).  `Looped` and
`Timing` say of the reader that `loop_inc` has, for every open loop, what such
an advance is made of; `Timer` puts them together.  Of the run, `Counting` says
that the variable of an entered range is its first value, plus one for each
iteration that is over (`Tracked`), but for the line between an advance and the
jump, where it is one ahead (`Pending`); `Keeping` adds what it is in front of
the head (`Based`).  It needs `Shallow` for the same reason as the others, and
`ShortBodiesAdvance` does without.

`ClassicProofs` proves of `Semantic` that `NamesAccepted`, `UndeclaredRefused`
and `DuplicatesNoticed` hold for every program, library and size of the table,
from `SemanticAssumption`: the programs are trees (`IsProgram`).  The run shows
them for the programs of its grammar.  None of the three is inductive, since
they speak of names and of the tree, and a step knows its node and the table.
Every step of `check_node()` replaces the first call to come by calls for nodes
below it and enters some names (`Steps`; what it reports is `Reports`), so the
invariant `SemanticInv` relates three things: the calls to come, the tree, and
the table.

- The calls to come are in the order of the nodes (`InOrder`), and members are
  those of classes (`Roles`).  A checked node that has not had its call is
  below one of the calls to come (`Awaited`).
- `UndeclaredRefused`: whatever is in the table is there because the library or
  the collection put it there or because something before all the calls to come
  declares it (`Origins`).  So when the call of a name comes, either there is a
  declaration before it in the text or the name is not in the table and is
  reported (`Refuses`).
- `NamesAccepted`: what the first two passes should make known is in the table
  (`Collected`), and whatever a call to come may use is in the table, or a call
  before it will enter it (`Sees`).  For the first of the calls there is none
  before it, so a name in its scope is found (`InScopeKnown`), unless the table
  is full, which is what the property excepts.
- `DuplicatesNoticed`: of two declarations of a name in one list, either the
  list is still to come, or both calls are, with one scope, or the first has
  left an entry with the scope of the second (`Noticing`).

The lemmas about the tree (`AroundKid`, `Toward`, `BelowBefore`) come from the
numbering of its nodes alone, and those about the table (`Grown`) say what
adding symbols one by one, all or only the new ones, does to what it holds.

Only model-checked: termination (`Terminates`, `NeverHangs`: liveness is out
of the prover's reach); everything about the trees of expressions and
statements, over which the operators are recursive (`NativeExpr`, `V5Text`,
`ClassicParser`); and `ArgumentsAccepted` of `Semantic`, where the type of an
argument is computed by `infer_type()`, which is recursive over its expression.

## Not modelled

The ELF writer but for its file operations: a fixed layout written once.
`lu_doctor`, which runs the compiler on programs of its own; the tensor header
(numeric kernels), Uios, LuMotion, the self-hosted compiler and the sample
programs, which are programs written in Lu or run times beside the compiler.
Parameters, globals, `Pr`, `PrBits`, `Memset` and `Memcpy` of v5, and its
declarations of structs, packs and methods, which are constants of `V5Text`.
f-strings, lambdas in expressions and the text of asm blocks in the parser.
Of the semantic checker, the warnings that change nothing.  `defer`,
channels, events and smart pointers of the C back end, its inference of types,
and the message that travels with an exception.

## Plan

What would come next, in this order:

1. `Channel`: the ring of `lu_chan_t` against a queue, and `defer` together
   with `CTry`.
2. `NativeExpr`: element sizes and pointer arithmetic, `++`; the frame of
   for-each loops.
3. `ClassicParser` behind `V5Statements`: the text of statements read back, as
   `V5Text` does for expressions.
4. Theorems: what is proved of `V5Run`, carried on to the text that
   `ClassicParser` reads back.
