# A TLA+ model of the Stella typechecker

The repository is a C++20 typechecker for the Stella language. It reads a program
from standard input, parses it, checks it, and prints `Well-typed` or an error
`ERROR_x: ...` and exits with 1. It is a sequential batch program. What makes it
hard is not concurrency but *order*: a bidirectional checker that stores expected and
deduced types in mutable slots of every node, that enters a function when its name
is first used, that undoes its scopes while an exception unwinds, and that solves
type constraints with a work list which grows while it is served.

## 1. Inventory

Paths are below `src/typechecker/`. "Errors" are C++ exceptions: the first one thrown
ends the check.

| Part | Code | State | Operations | Correct when |
|---|---|---|---|---|
| Types | `ast/src/*.cpp`, `ast/include/stella/ast/*.hpp` | immutable terms; *family sentinels* (a list type without an element type stands for "some list") | `CheckCompatible`, `Contains` | comparison tells equal types from different ones, with the error of the right family |
| SubtypeChecker | `checker/src/subtype.cpp` | none | `IsSubtypeOrError` | it is the subtyping relation of the language: variance, width, Top and Bot |
| ReconstructionComparator | `checker/src/reconstruction.cpp` | none (emits constraints into the unifier) | `Compare` | emitted constraints have the solutions of the equation compared |
| Unifier | `checker/src/unifier.cpp` | `constraints_`, `classes_`, `class_of_` | `FreshTypeVar`, `AddConstraint`, `UnifyAll` | errors only without a solution, acceptance only with a complete binding, and an end |
| TypeAuto::Registry | `ast/src/auto.cpp` | the set of type variables alive | register, unregister, iterate | contains the variables of the program when the check reads it |
| NameContext | `checker/include/.../name_context.hpp` | a stack of nodes for every name; RAII guards | push, pop, resolve | a name resolves to the binder in scope; every push is popped, also while unwinding |
| AttributeStorage | `ast/include/stella/ast/attribute_storage.hpp` | `(node, attribute) -> value` | set, tryGet, has, ... | a slot holds the last value set |
| TypeChecker core | `checker/src/type_checker.cpp`, `expected_type.hpp` | `types_storage_` (expected, provisional, deduced), `in_function_body_`, exception fields | `Visit`, `ExpectType`, `SetProvisionalType`, `SetDeducedType`, `PropagateExpectedType`, `VisitProgram` | a node's deduced type meets its last expectation, in any order of the two |
| Visitors: functions, bindings, generics | `type_checker_{fun,var,let,asc,sequence,bool,nat,unit,generic}.cpp` | the core's | one per node class | accepted programs are well-typed, rejected ones are not |
| Visitors: data | `type_checker_{list,tuple,record,sum,variant,match}.cpp` | the core's | one per node class | the same |
| Visitors: effects | `type_checker_{exception,cast,reference,panic}.cpp` | the core's | one per node class | the same; the exception fields agree |
| Error reporting | `checker/src/error*.cpp` | the exception in flight | throw, format | one code per program |
| AST nodes, visitors | `ast/` | immutable | double dispatch, printing | |
| Parser | `parser/src/parser.cpp` | the C++ stack of `visitX`, results in `std::any`; registers type variables | `visitX`, `try_any_cast`, `ParseProgram` | the AST is the program of the source, unsupported constructs are refused, the registry has its variables |
| Command line | `cli/src/main.cpp` | none | read, parse, check, print | every source gets one verdict, with its code |
| Golden tests | `src/tests/*.py` | files | run the program, compare output | |

**How they interact.** `main` calls the parser and gives the AST to `TypeChecker::Check`,
which calls `Visit` on the root. A visitor sets expectations on its children, visits
them, reads their deduced types and sets its own; every set compares against the other
slot through `CheckCompatible`, which calls the type classes, the subtype checker
or, with `#type-reconstruction`, the comparator; the comparator adds constraints to
the unifier. `VisitProgram` calls `UnifyAll` once after the last declaration; it reads
the registry of type variables that the parser and the visitors filled.

**What is hard here** (every item with its line is in PROJECT.json, `hazards`):
expectations set before, during and after the visit of their node; one child given
several expectations in turn; a function visited from inside its first caller, with two
deduced types one after the other; scopes popped during unwinding; sentinels and null
components that escape to where a real type is wanted; exception declarations that must
not be mixed; the order in which constraints are served, classes merged and bound;
constraints re-queued for ever; constraints that refer to types by reference while the
slots that own them are overwritten; a registry of variables that the parser fills, the
visitors fill further, and `UnifyAll` reads at the end; visitors of the parse tree that
build a node in another order than they visit its parts, and take for granted what the
grammar makes optional. There are no threads, no persisted state, no messages
and no timeouts.

## 2. Modules

An arrow points from a module to one that extends or instantiates it.

```
StellaTerms --+--> StellaTypes --+--> TypeRelations --> MCTypeRelations
              |     TypeRules ---+--> StellaTyping          (declarative typing)
              |
              +--> CheckerCore --> FunctionVisitors --+
              |                --> DataVisitors ------+--> TypeChecker --> StellaTyping --> MCTypeChecker --> MCTypeCheckerGaps
              |                --> EffectVisitors ----+        |
              |                                                +--> CheckerProofs --> StorageProofs --> FinalityProofs                  (TLAPS)
              |                                                |                           |
              |                                                +--> TypeReconstruction <-- Unifier   (INSTANCE)
              |                                                          |   |
              |                                                          |   |             v
              |                                                          |   +--> OwnershipProofs --> ReconstructionProofs   (TLAPS)
              |                                                          |                 |
              |                                     FinalityProofs ------|-----------------+--> ReferenceProofs              (TLAPS)
              |                              UnifierProofs --------------|---------(INSTANCE)--------------^
              |                                                          |
              +--> StellaTrees --> Parser ----------------+              +--> MCTypeReconstruction
                       |              |                   +--> CommandLine --> MCCommandLine
                       |              +--> StellaGrammar --+--> MCParser
                       |                                   +--> ParserProofs                                                  (TLAPS)
                       +--> StellaPrograms --> StellaSources

Unifier --> UnifierSemantics --> MCUnifier      (with StellaTypes)
  |               |          --> UnifierProofs                                                       (TLAPS)
  |               +--INSTANCE--> Reconstruction (abstract specification)
  +--> MCUnifierGaps
```

- **StellaTerms**: type terms as records `[tag, lab, args]`, sentinels, error codes.
- **StellaTypes**: `CheckCompatible`, `IsSubtypeOrError`, the constraints the comparator
  emits, `Contains`. Recursive, so only TLC uses it; the state machines take these
  relations as constant operators.
- **TypeRules**: equality and subtyping as the language defines them. **TypeRelations**: a
  value handed on from place to place, each step accepted by the code's comparison.
- **Unifier**: `TypeAuto` objects, constraints, classes, `UnifyAll`.
- **UnifierSemantics**: solutions of constraints, bindings and pending work, and the
  properties in these terms. **Reconstruction** is the abstract specification: the
  constraints shrink a set of solutions; a type error needs that set to be empty; an
  accepted typing stands for exactly that set.
- **CheckerCore**, **FunctionVisitors**, **DataVisitors**, **EffectVisitors**,
  **TypeChecker**: the checker, one action per visitor.
- **StellaTyping**: the second abstract specification: the declarative typing rules,
  in lexical scope, without expectations, order or storage.
- **TypeReconstruction** composes the checker with the unifier; **Parser** is the builder of
  the AST, **StellaGrammar** the parse trees it may meet and what it promises for them; **CommandLine** composes all three as `main` does.
- **StellaTrees** numbers the nodes of a program; **StellaPrograms** is the families of programs;
  **StellaSources** gives the parse tree of a program, as the grammar defines it.
- **MC...**: instances for TLC.
- The theorems: **UnifierProofs** about the unifier alone, **CheckerProofs**,
  **StorageProofs** and **FinalityProofs** about the checker alone, **ParserProofs** about the
  builder, **OwnershipProofs**, **ReconstructionProofs** and **ReferenceProofs** (which extends
  both OwnershipProofs and FinalityProofs) about checker and unifier together.

### State and actions of the checker

| TLA+ | C++ |
|---|---|
| `frames`, `Top.pc` | the call stack of `Visit`; `pc` counts the recursive visits already finished |
| `Top.guards`, `Top.tvs` | the `NameContextGuard`s the visitor's locals hold |
| `names`, `tvars` | `name_context_`, `type_var_context_` |
| `mem.deduced`, `mem.expected` | `types_storage_` |
| `mem.raised` | the exception in flight |
| `in_body`, `exn` | `in_function_body_`, the three `exception_...` fields |
| `frames[i].base` | a history field, read by no action |

A visitor is one action with a disjunct for every stretch of code between two recursive
visits. The storage operations (`ExpectType`, `SetDeduced`, `Propagate`, ...) are
functions from a storage to a storage, composed in the order of the code, and they do
nothing after `Raise`. `Call` ends a stretch: it pushes a frame unless the child has a
deduced type already, as `Visit` does. `Unwind` pops one frame at a time. Where the
code reads a component of a sentinel, the model has a null type (`None_`), and using it is
the error `CRASH`; an index into an empty vector is `UNDEFINED_BEHAVIOUR`.

A comparison has two halves: `Incompatible` is its error, `Emit` the constraints it adds
under `#type-reconstruction`. Constraints are kept with the slots their sides refer to
(`from`, `to`), because `AddConstraint` by reference shares no ownership: a constraint
on a type in a slot is only as good as the slot. `mem.provisional` exists for this reason;
nothing else reads it. Verbose debug logging prints types, some of them null, and is left out.

### State and actions of the unifier

`registry`, `constraints`, `classes`, `class_of` are the members of the same names,
`worklist` is the local copy `UnifyAll` takes, `input` a history variable. `FreshTypeVar`,
`AddConstraint` and `StartUnify` are what the traversal does; one action per
outcome of `UnifyOne` and `MergeClasses` (`MergeSame`, `MergeFree`, `MergeBound`,
`BindBound`, `BindFree`); `NextRound` and `Finish` are the loop and the final check.

### Checker and unifier together

`TypeReconstruction` has the variables of both. `Traverse` is any step of a visitor; it keeps
`constraints` and `registry` in step with what the visitors have stored: a variable is
registered exactly while something owns it (the program, a slot, `new_types_`, a constraint
by `shared_ptr`). `CallUnifyAll` hands over at the call in `VisitProgram`; `Unify` is a step
of the instance `U` of `Unifier`; `ReturnFromUnifyAll` and `ThrowFromUnifyAll` go back.
`VisitorsFeedUnifier` says that what the visitors do between is what `Unifier` allows of its
environment, so what is proved and checked of the unifier holds in the composition.

### State and actions of the parser

`visits` is the C++ stack of `visitX` calls, each with the results its children returned;
`tree` the ANTLR parse tree; `thrown` the exception in flight. A context of the tree is
`[rule, text, subs]`: the grammar alternative, its words, and under each label of the
alternative the contexts below. `Rules` holds for every visitor the labels it visits, in its
order; `CastOf` what it casts each result to; `Single` and `Assumed` the lists of
which it refuses a second element or takes the first without looking. `VisitChild` calls,
`ReturnNode`, `ReturnType`, `ReturnSame`, `VisitTypeAuto` and `ReturnProgram` return, `Throw`
refuses, `Unwind` drops a frame with the type variables its results own.

ANTLR's lexer and parser are generated code and external: `StellaSources` gives the tree of a
program by the grammar (`StellaParser.g4`), and `StellaGrammar` says what of the grammar the builder
relies on for any tree: which labels an alternative has, how many contexts stand under one, of
which nonterminal they are. The trees ANTLR makes up after a syntax error are
not modelled.

### The command line

`CommandLine` runs `Parser` (an instance) until it is done, makes the checker from the AST it
left, runs `TypeReconstruction`, and reports through the handlers of `main`. The three
share `registry`, which is a singleton of the process.

### Seeded bugs

Definitions whose comment says "seeded bug" are used by no action. Each is a plausible
mistake in one definition, with the same parameters; putting it in place must break the
property that PROJECT.json pairs it with. They show that the properties are sensitive.

## 3. Runs

Every run covers its whole family of programs or systems.

| Run | Program or system family | Checks |
|---|---|---|
| `unifier_systems` | every set of up to 3 constraints over 3 variables, in every order of addition: over flat shapes, solvable or not, and solvable ones over nested lists and records in two field orders | `TypeOK`, `ClassesPartition`, `SolutionsPreserved`, `ErrorsJustified`, `AcceptedDetermined`, `SolvableDecided`, and the refinement `ImplementsReconstruction` |
| `checker_functions` | one and two functions in both orders, calling each other and themselves, local declarations, lambdas, fix, let, if, Nat::rec, ascription, sequences, generics | `TypeOK`, `NamesMirrorFrames`, `ExpectationsMet`, `DeducedIsFinal`, `AcceptedTyped`, `RejectedUntyped`, `Decided` |
| `checker_composites` | lists, tuples, records, sums, variants, match, exceptions, casts, references, panic!; and the same over types related by subtyping, with `#structural-subtyping`, some with `#ambiguous-type-as-bottom` | `ExceptionsConsistent`, `ExpectationsMet`, `AcceptedTyped`, `RejectedUntyped`, `ExpectedIsSupertype` |
| `type_relations` | all types of two levels in a universe of 86, with and without subtyping, in chains of any length | `HandingOnSound`, `HandingOnComplete` |
| `reconstruction` | `auto` parameters, results and lambda parameters in functions (pairs in both orders, recursive and mutually recursive), conditionals, let, fix, Nat::rec, ascriptions, lists, projections and field accesses; literals of every kind where an `auto` or a type with autos is expected; the programs of `tests/golden/type-reconstruction` | `VerdictExact` (of all but the literals and the golden programs), `AcceptedUnified`, `ReferencesAlive`, `VariablesOutliveConstraints`, `VisitorsFeedUnifier` |
| `parser_build` | the sources of the programs of `checker_functions` and `checker_composites`, and trees with what the grammar allows besides: no, one or two parameters, arguments and results, patterns and types without a visitor, numbers that are no int | `BuildsProgram`, `BuildsSupported`, `AutosRegistered`, `RegistryOwned` |
| `command_line` | the sources of the golden tests of type reconstruction, plain, parenthesised, and with a second parameter | `GoldenOutput`, `RegistryHandedOver`, `AlwaysReports` |
| `unifier_cycle`, `checker_capture`, `checker_return`, `checker_crash`, `reconstruction_placeholder` | one small family each | one property that TLC finds violated: section 5 |

`AcceptedTyped` and `RejectedUntyped` are the heart of the checker runs. They compare the
verdict of the code with the declarative rules for tens of thousands of programs,
ill-typed ones included, so a wrong order of expectation and deduction anywhere shows
as a wrong verdict. Errors that ask for an annotation (`ERROR_AMBIGUOUS_...`) are no
claim about typability and are exempt from `RejectedUntyped`. So are programs with
`#structural-subtyping`: the checker is bidirectional and rejects some that
subsumption would type.

`VerdictExact` is their counterpart for reconstruction, through visitors and unifier
together: `Typings` is the set of all ways to give the autos of the program ground types
so that the declarative rules accept it. `Well-typed` asks for exactly one, a type error for
none, and `ERROR_AMBIGUOUS_TYPE` for anything but one: `UnifyAll` reports ambiguity
only when no constraint failed, but a program that is ambiguous and unsolvable at once
(through a cycle the occurs check misses) may end there as well. For the golden programs
the verdict is the one their test records: `GoldenOutput`.

**Bounds.**
- `MaxConstraints = 3` in `unifier_systems`: a merge of two bound classes takes three
  constraints, and comparing bound types emits more, so all branches, two or more
  rounds, both errors and ambiguity occur. Three variables make a class of
  three, and a merge of merged classes. `TypeReconstruction` sets no bound on constraints.
- Solutions range over the 216 assignments of the six types in `AllGround`. They include
  the nested and the record types that the constraints ask for. A solution outside the set
  would make `ErrorsJustified` too weak in a run; the theorem `ErrorsSound` holds for any
  set of solutions.
- `FlatOrSolvable` keeps the systems over flat shapes, and of those over deep shapes the
  solvable ones: `UnifyAll` may not end on the others (section 5). It reads only `input`,
  which does not change after the traversal, so it cuts whole behaviours and never the end
  of one: the liveness check under it is sound.
- Programs are one or two functions with bodies of up to four nodes deep. Every visitor
  looks at its own children only, so each pair of parent and child visitors, with and
  without an expectation from above, occurs. Two functions are enough for
  mutual recursion, use before declaration and shadowing by the caller.
- `Universe` bounds what a rule with a free choice (an empty list, an injection, panic!)
  ranges over in `StellaTyping`; it contains every type a program of the family
  mentions, with lists and references of them.
- `FunGround` and `DataGround` bound the types that `Typings` may give an auto. They hold at
  least two types for every auto that the rules leave open, which is all that the
  three cases of `VerdictExact` tell apart, and every type that a program of the family
  forces on one.
- Eight parsed and six fresh type variables (`Autos`, `FreshVars`): no program of the families
  makes more, and one that did would stop TLC. `MCCtor` admits types of five levels, more than
  any of these programs builds.
- `IntMax = 3` stands for `INT_MAX`; numbers from 0 to 4 are on both sides of it.

**Left out of the passing families**, because the code is known to differ there (section 5):
names undeclared in a function and bound by its caller, panic! and throw where only a
family is expected, unbound type variables inside another type, and, with reconstruction,
structural subtyping besides. Tuple literals where a type with autos is expected are in
`reconstruction`, but not under `VerdictExact`. Also left out:
- a variant pattern or value with a payload where the type has none or the reverse, `throw`
  before the exception's declaration, and literals whose record fields come in another order
  than the expected type's without subtyping (two conventions, neither documented);
- with reconstruction: `List::isempty` of an auto (it is compared with the list sentinel), cycles
  of variables that the occurs check misses (`unifier_cycle`), and `match`, `*` and field access
  on a bare auto, which the code rejects as unsupported.

**Fairness.** The program has one thread and nothing to wait for. `WF_vars(Next)` for the
checker, `WF_vars(UnifyStep)` for the unifier and `WF_process(Main)` for the whole program
say only that it keeps running. No fairness is asked of the traversal that adds
constraints to `Unifier` alone, so `SolvableDecided` speaks of runs that reach `UnifyAll`; in
the composition the traversal is the program's own, and `AlwaysReports` asks for an end of
every run of the whole program. `Exit`, `Stopped` and `Ended` are the stuttering steps of a process
that has ended; there is no deadlock in any passing run, so no visitor is ever stuck.

## 4. Proofs

### The unifier

For any sets of variables, types and inputs:

| Theorem | Module | Statement |
|---|---|---|
| `TypeCorrect` | `UnifierProofs` | `Spec => []TypeOK` |
| `PartitionKept` | `UnifierProofs` | `Spec => []ClassesPartition` |
| `SolutionsKept` | `UnifierProofs` | `Spec => []SolutionsPreserved` |
| `ErrorsSound` | `UnifierProofs` | `Spec => []ErrorsJustified` |
| `Refinement` | `UnifierProofs` | `Spec => ImplementsReconstruction` |
| `AcceptedIsDetermined` | `UnifierProofs` | `Spec => []AcceptedDetermined` |

**Assumptions.** `TermsAssumption` (variables and other types are disjoint),
`ComparatorAssumption` (the comparator emits constraints that have a variable on one side, and
only variables of the two types), `InputsAssumption` (so do the visitors; `UnifyOne` would drop
any other constraint silently). The others say what a solution is: `SatAssumption` (`Sat(s, t)`
is where `s` and `t` have the same value), `ValueAssumption` (the value of a type is put
together from the values of its variables, each smaller than the whole) and `ExactAssumption` (one
comparison emits exactly what it needs). TLC evaluates all of them in the passing runs, with the
comparator of `StellaTypes` and finite types as values. They hold without sentinels,
`TypeUnknown` and subtyping; section 5 shows what happens with them.

**Argument.** `SolutionsPreserved` says that pending constraints, work list and classes
together have the solutions of the input. It is not inductive alone: moving a
class into another preserves solutions only if the members of a class are exactly the
variables that point to it and an abandoned class has no binding left. So
`IInv` is the conjunction of `TypeOK`, `ClassesPartition`, an empty work list during the
traversal, `SolutionsPreserved` and `ErrorsJustified`. Three layers of lemmas support
it: what `FindClass`, `Absorb` and a binding do to the partition and to its
solutions (`FindClassLemma`, `AbsorbStoreOK`, `AbsorbSolutions`, `BindLemma`); what
serving, appending and concatenating do to the solutions of a list of constraints
(`SolvesServe`, `SolvesAppend`, `SolvesConcat`, `EmitsExact`); and one lemma per action
(`MergeSameKeeps` to `FinishKeeps`). `Refinement` maps each action to a step of
`Reconstruction` or a stutter: while there is no error the solutions are those
of the input, so acceptance has nothing pending and its bindings stand for all of them.

`AcceptedDetermined` is about the last loop of `UnifyAll`, which only asks whether the class of
each registered variable has a bound type, not whether that type is free of variables. It is
enough, for two reasons. `Mentioned`, a second invariant, says that every variable in a
constraint, in the work list or in a bound type is registered, so the loop has looked at it.
And if two solutions differed, take among the variables they differ at the one whose value is
smallest (`Smallest`): its bound type is put together from variables with smaller values, at
which the solutions agree, so they agree here too.

### The checker

For any programs, names and relations on types:

| Theorem | Module | Statement |
|---|---|---|
| `GuardsMirrored` | `CheckerProofs` | `Spec => []NamesMirrorFrames` |
| `StateTyped` | `StorageProofs` | `Spec => []TypeOK` |
| `DeducedMeetExpected` | `StorageProofs` | `Spec => []ExpectationsMet` |
| `ExceptionsAgree` | `StorageProofs` | `Spec => []ExceptionsConsistent` |
| `TypesAreFinal` | `FinalityProofs` | `Spec => DeducedIsFinal` |

`GuardsMirrored` has no assumption at all. The invariant is
inductive once frames and contexts are known to be stacks (`Mirror`). `Call` and `Leave`
are the only operators that touch the call stack and the name context, so the proof has
two halves: every visitor calls with a frame that keeps its `base`, finishes, or
leaves both alone (`ProgramServes`, `FunctionServes`, `DataServes`, `EffectServes`, one step
per visitor); and a call and a return keep `Mirror` (`CallKeeps`, `LeaveKeeps`),
because popping what was pushed restores the context (`ReleasePush`).

The other four assume `GrammarAssumption`: a program is built of the node classes of
`stella/ast`, so members that are not optional are there and have their classes (`Arity`,
`TypedKinds`, `WellBuilt`), its first node is the program, function declarations stand below
programs and functions only, and parameters and patterns (`PatternKinds`) where the constructors take them. And it is a tree, numbered from the root: nodes are immutable, so
each is made after its parts, and every visitor of the parser passes what the visit of a part
returns to one constructor. TLC evaluates it for every family of programs it checks.

`ExpectationsMet` is not inductive alone, for two reasons that `Sound` adds. An expectation
carries the code of the error to report, and a code that means "no error" would switch the
comparison off. And `VisitDeclFun` replaces its deduced type without comparing it, which is
harmless only as nobody ever expects anything of a function declaration; that is why the
grammar comes in. With it, every operation on the storage keeps `Sound` (`OperationsSound`,
`ExpectTypeSound`, `SetDeducedSound`, `InferSound`), and so does every visitor, as each is a
composition of them that calls, finishes or does neither (`Advances`; one lemma or step per
visitor). `TypeOK` comes from the same invariant: a visitor calls only with a part of its node
still to visit, and only a node of the program, also one found through the name context.

`Agree` strengthens `ExceptionsConsistent` by what the open variant's labels and types are:
sequences to append to. Only the two declarations change the fields (`ProgramKeepsExn`,
`FunctionsKeepExn`, `DataKeepsExn`, `EffectsKeepExn`); `TypeDeclared` and `VariantDeclared`
follow them through each of their early errors.

`DeducedIsFinal` looks like a matter of each visitor, and is not: `SetDeducedType` overwrites
without asking. It holds because the visit of a node is over before anything else could
set its type, and that takes the whole call stack to say. `Settled` is the invariant, over the set
`B` of the nodes the check has begun with: the call stack is a path, each visit called from the
parent of its node or from a variable that stands for it, and no node is on it twice
(`Stacked`); the children a visit has not come to are not in `B` (`Ahead`, which needs to
know how many children each `pc` has behind it, `Passed`); a visit in progress has no type
yet (`Open`); what has a type, or a part that has been begun, is in `B`, and a name resolves to
a function of the program or to a binder in `B` (`Begun`, `Resolvable`). So a visit that ends sets
the type of a node that has none, and so do let, try and match, which set the type of a pattern
variable before they visit the expression it is bound in. Two exceptions make the proof long.
A function is entered from its first caller, out of the order of the text: its frame then
stands anywhere on the stack, its declared type is set early and the type of its body
replaces it, but by its own visit. And the variable of a cast pattern is set by the visit of the
pattern and again by its arm: `Recast` says that both set the type of the cast. `Settled` is kept
by every call and return (`Stays`, one lemma per visitor: `DeclareFunctionStays`,
`MatchStays`, ...).

### Checker and unifier together

For any programs, and any operators on types that obey `TypeLaws`:

| Theorem | Module | Statement |
|---|---|---|
| `RegistryOutlives` | `OwnershipProofs` | `Reconstruct => []VariablesOutliveConstraints` |
| `UnifierFed` | `OwnershipProofs` | `Reconstruct => VisitorsFeedUnifier` |
| `AcceptedIsUnified` | `ReconstructionProofs` | `Reconstruct => []AcceptedUnified` |
| `ReconstructionIsSound` | `ReconstructionProofs` | `Reconstruct => []VerdictSound` |
| `ReferencesStayAlive` | `ReferenceProofs` | `Reconstruct => []ReferencesAlive` |

**Assumptions.** `GrammarAssumption`; `ProgramTypesAssumption` (what the program writes as types
are types, and are there) and `VariablesAssumption` (a variable is no other type). `TypeLaws` is a
hypothesis of the theorems: a type has the components its class has (`Shaped`), `Contains` enters all
of them, the comparator and `SubstituteType` bring no variable that was not there, every
constraint of a comparison has a variable on a side, and fresh variables never run out (the code
makes as many as it wants; TLC's instances have a few). The laws are stated of all values, so
TLC cannot evaluate them as they stand: `TypeLawsHold` in `MCTypeReconstruction` evaluates them on
the types of the model-checked programs, with the operators of `StellaTypes`.
`ReferencesStayAlive` also assumes `ReferenceLaws`: a type and the parts of its components are its
parts (`PartsLaw`), and the constraints of a comparison refer to parts of the two types, below their
roots unless one of them is a variable (`ComparedLaw`); `TypeLawsHold` evaluates these too.
`ReconstructionIsSound` also assumes `Exact`, the unifier's assumptions on the set
`Proper` of types without sentinels and `TypeUnknown`.

**Ownership.** `Owning` says that every type in a slot, in a frame, in the exception type or in a
constraint is a type whose variables are owned by the program or by `new_types_` (`Roots`), which
only grow: nothing that a visitor overwrites can be the last owner of a variable. Every operation
of the storage keeps it (`AssignedFollows` to `ExpectFollows`, `InferReaches`), and so does
every visitor (one lemma or step each, `ApplicationMoves`, `MatchMoves`, ...). Two visitors use
after a visit what they found before it: a variable its binder and an application the type of its
function; `Waiting` says that both are still there. `Supplied` then ties the unifier to it:
its registry is the variables of `Roots`, exactly so while the visitors run. Why the code is right
turns on one call: `SaveNewType` for every type made of fresh variables (without it, the
seeded bug `InferUnsaved` loses them).

**References.** `ReferencesAlive` says that a slot to which a constraint refers still holds the type the
constraint was made of. `Tracks` is the invariant: it takes `Settled`, the set `B` of the begun nodes
from the proof of finality, and says which slots are not assigned again (`Kept`): the expected type of
a node in `B`; its provisional type once its visit is past its beginning; its deduced type once its visit
is over. Every side of a constraint is a part of what a kept slot holds (`Anchors`), and what is kept
stays kept, with its content, through every call and return (`KeptOn`). Two facts carry the visitors.
They ask something only of children still to come (`Coming`, from `Ahead`), whose slots no constraint
refers to yet. And the slots that are assigned more than once, a function's deduced type and a pattern
variable's, are never compared, because nobody expects anything of functions and patterns (`Silent`,
`Unasked`); that is where the positions in `WellBuilt` come in. What a visitor emits refers to its own
slots, which its step completes (`EmitLinks`, `SetLinks`); there is one lemma or step for each
(`TupleTraces`, `RecordTraces`, `MatchTraces`, ...). Two literals
are the hard ones. A tuple replaces its own provisional type after it has been compared, but only the
sentinel itself can have been referred to there, and `Placeholder` exempts it. A record compares a shape
that is a temporary of the visitor: `ComparedLaw` keeps the references below its root, where
there are only the shared `TypeUnknown`s.

**Verdict.** `VerdictSound` joins the two halves. While the visitors run, the state they keep
satisfies the invariants of the unifier's proofs with the constraints made so far as its input
(`VisitSolves`, which needs `UnifierFed`'s invariant: registered variables, a variable on one side);
each step of `U`, the unifier of the composition, is a step of the unifier those proofs are about
as long as the input is proper (`ProperStep`); so from `StartUnify` on `IInv` and `Mentioned` hold
there too. Hence, for constraints between proper types: an occurs-check or mismatch error
of `UnifyAll` means that the constraints of the program have no solution, and an accepted
program leaves one type for each of its `auto`s. The second part needs that "accepted" means
"accepted by `UnifyAll`": `Rooted` says that the outermost visit is the program's, so that only
`VisitProgram` can end it, and it does not end without the call (`RootEnds`).

### The parser

For any set of parse trees that the grammar allows:

| Theorem | Module | Statement |
|---|---|---|
| `SupportedSafety` | `ParserProofs` | `Spec => []BuildsSupported` |
| `RegistrySafety` | `ParserProofs` | `Spec => []RegistryOwned` |

**Assumptions**, all of them evaluated by TLC for the trees of `parser_build`. `GrammarAssumption`: in
every context of a tree the labels are those of its alternative, and what stands under a label is of
the nonterminal the grammar names (`Follows`, `Fits`); `Inside(t)` is the set of the contexts of
`t`, that is, it obeys the equation of `ContextsIn`. `RulesAssumption`: what the proof needs of
`Rules`. That table is closed to the provers, as they have no rule for `@@`. `NamesAssumption`:
every `TypeAuto` is an object of its own.

**Argument.** `BuildsSupported` says that the walk as a whole refuses exactly the trees with an
unsupported construct, wherever it is; each visitor looks only at its own context. So the
invariant (`Inv`, with `FrameOK` for each frame) says of every visit in progress what it has seen to
be supported: the results it holds are those of its calls so far, in their order, each of the class
that its label is cast to, and every context below a call that has returned is supported. It takes
three things: that the calls for a context are the contexts under its labels (`CallsElements`,
`CallsComplete`), so a visit that comes to its end has seen every context below its own; that
the result of a call fits the cast of its caller (`Returned`; parentheses and a final semicolon pass on
what they get, `TransparentCall`), so no cast fails and the patterns of a `let` are what they
are in the source (`BadPattern`); and that an exception is only thrown at a context that is not
supported, a null pointer, or a `let` without a variable (`ThrowUnsupported`).

`RegistryOwned` reads that the registry is the union of what the results own, and that no two results
own the same variable. Inductive is the pair of both with the names: those in the registry are the first
of `AutoNames`, so that a visitor of `auto` makes a new one (`FreshName`) and a frame that
is dropped takes only its own along. A return hands what the frame held to the result in the
frame below (`ReturnHeld`), which is where a result that is dropped or used twice would break it.

### Left to TLC

Out of the prover's reach are liveness (`SolvableDecided`, `Decided`, `AlwaysReports`), and what
`RECURSIVE` definitions compute: the relations of `StellaTypes`, the rules of `StellaTyping` and
`TypeRules` and the trees of `StellaTrees`, hence `AcceptedTyped`, `RejectedUntyped`,
`ExpectedIsSupertype`, `HandingOnSound`, `HandingOnComplete`, `VerdictExact`, `BuildsProgram`,
`AutosRegistered`, `GoldenOutput` and `RegistryHandedOver`. (The library's induction principles take an
operator as a parameter, which the provers cannot instantiate. Over the naturals the proofs do
without: a set of counterexamples has a least one, `Least` in `ParserProofs`, which is how
`FlattenSeqElements` proves what the community modules' `FlattenSeq` computes.)

## 5. Where code and comments disagree

| Run | What TLC finds |
|---|---|
| `unifier_cycle` | `MergeClasses` makes no occurs check when one class is unbound: `a = [b]`, then `a = b`, is accepted. |
| `checker_capture` | A function visited from its first caller resolves undeclared names in the caller's scope. |
| `checker_return` | A function's declared return type is replaced by its body's type and callers can rely on it. |
| `checker_crash` | panic! or throw as the function of an application, or the tuple of a projection, leads to a null dereference or an index into an empty vector. |
| `reconstruction_placeholder` | A tuple literal where a tuple of autos is expected binds the autos to `TypeUnknown`, its placeholder; every further constraint on them holds. |

PROJECT.json quotes the comment or test that each one contradicts. Six more configurations,
to run by hand, each show one thing more. All six end with a
counterexample:

| Configuration | Property | What TLC finds |
|---|---|---|
| `MCUnifierDiverge.cfg` | `UnifyAllEnds` | After a cycle that the occurs check misses, `UnifyAll` can serve and emit the same constraints for ever. |
| `MCUnifierSentinel.cfg` | `AllBoundConcrete` | A variable can be bound to "some list"; the final check takes that for a concrete type. |
| `MCTypeCheckerTypeArgument.cfg` | `AcceptedTyped` | `f[fn(U) -> Nat]` with `U` unbound is accepted, `f[U]` is not. |
| `MCTypeReconstructionMixed.cfg` | `AcceptedTypable` | With `#structural-subtyping` as well, an auto inside a type gets no constraint and matches anything. |
| `MCTypeRelationsTuples.cfg` | `TuplesHaveWidth` | A longer tuple is refused for a shorter one; the comment says it is accepted. |
| `MCTypeRelationsPayload.cfg` | `HandingOnSound` | `<|a : Nat|>` is accepted for `<|a|>`, and that for `<|a : Bool|>`. |

## 6. Not modelled

- **ANTLR**: the lexer and parser generated from the grammar, and their recovery from syntax
  errors. The builder does not ask for the number of syntax errors, so a program with one may
  be checked as another program; which one is the library's choice.
- **Golden test scripts**: they run the program and compare its output. Of the tests themselves,
  those of type reconstruction are in `reconstruction` and `command_line`.
- Printing of types and messages, source positions, logging, reading of input.
- `throws` clauses and `inline` annotations, which the builder ignores without a word.
- `AttributeStorage`: `trySet`, `remove` and `clear` have no caller in the checker.
- Debug builds: there an internal error aborts (`DLOG_S(FATAL)`); the models are of the release
  build, where it is thrown.

## 7. What is left

The plan's three parts were the checker and unifier composed, the type relations on their own, and
more proofs about the checker. The first two are built, with the parser and the command line
besides. Proved are the names, the types of the state, the expectations, the exception
fields and the finality of deduced types of the checker, everything the runs check of the unifier but its
liveness, the ownership of type variables, the references that constraints hold and the soundness of
the composed verdict, and of the parser that it builds what is supported and keeps the registry.
