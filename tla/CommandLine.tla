---------------------------- MODULE CommandLine ----------------------------
(***************************************************************************)
(* The program as its user runs it (main.cpp): read a source, parse it,    *)
(* check it, print the verdict.  The parser (Parser), the checker and the  *)
(* unifier (TypeReconstruction) run one after the other; they share the    *)
(* registry of type variables, a singleton of the process.                 *)
(***************************************************************************)
EXTENDS TypeReconstruction

CONSTANTS
  SourceTrees,         \* the parse trees of the sources it may read
  AutoNames, IntMax    \* as in Parser

VARIABLES tree, visits, thrown, ast,    \* the parser's
          output                        \* what main prints, and its exit code

P == INSTANCE Parser WITH ParseTrees <- {}

checker == <<vars, constraints, worklist, classes, class_of, phase, input>>
syntax  == <<tree, visits, thrown, ast>>
process == <<checker, syntax, registry, output>>

Running == [exit |-> 0, line |-> ""]
Output(code, line) == output' = [exit |-> code, line |-> line]

(* While phase is "parse" there is no TypeChecker yet: its variables have  *)
(* the values that it will be made with.                                   *)
Launch ==
  /\ tree \in SourceTrees /\ P!ParseProgram
  /\ prog = P!NoProgram /\ frames = <<>> /\ mem = [raised |-> OK]
  /\ names = NoNames /\ tvars = <<>> /\ in_body = FALSE /\ exn = NoExceptions
  /\ constraints = <<>> /\ worklist = <<>> /\ classes = <<>>
  /\ class_of = [v \in TypeAuto |-> 0] /\ input = {}
  /\ phase = "parse" /\ output = Running

ParseProgramText ==
  /\ phase = "parse" /\ P!Build
  /\ UNCHANGED <<checker, output>>

CheckProgram ==
  /\ phase = "parse" /\ P!Parsed /\ thrown = OK
  /\ prog' = ast /\ frames' = <<Frame(1, NoNames)>> /\ mem' = NewStorage'
  /\ exn' = NoExceptions /\ phase' = "visit" /\ registry' = Registered(mem)'
  /\ UNCHANGED <<names, tvars, in_body, constraints, worklist, classes, class_of, input>>
  /\ UNCHANGED <<syntax, output>>

Checking == phase # "parse" /\ Proceed /\ UNCHANGED <<syntax, output>>

(* Seeded bugs: the handler of std::exception comes first; the handlers    *)
(* print no error of the parser.                                           *)
CatchGeneralFirst ==
  /\ output = Running /\ UNCHANGED <<checker, syntax, registry>>
  /\ \/ phase # "parse" /\ Done /\ mem.raised = OK /\ Output(0, "Well-typed")
     \/ phase # "parse" /\ Done /\ mem.raised # OK /\ Output(1, P!ERROR)
     \/ phase = "parse" /\ P!Parsed /\ thrown # OK /\ Output(1, thrown)
SwallowParseErrors ==
  /\ UNCHANGED <<checker, syntax, registry>>
  /\ \/ output = Running /\ phase # "parse" /\ Done /\ mem.raised = OK /\ Output(0, "Well-typed")
     \/ output = Running /\ phase # "parse" /\ Done /\ mem.raised # OK /\ Output(1, mem.raised)
     \/ phase = "parse" /\ P!Parsed /\ thrown # OK /\ UNCHANGED output

(* A TypeCheckError prints its code; any other exception of the parser is  *)
(* a parsing error; a null pointer ends the process.                       *)
Report ==
  /\ output = Running /\ UNCHANGED <<checker, syntax, registry>>
  /\ \/ phase # "parse" /\ Done /\ mem.raised = OK /\ Output(0, "Well-typed")
     \/ phase # "parse" /\ Done /\ mem.raised # OK /\ Output(1, mem.raised)
     \/ phase = "parse" /\ P!Parsed /\ thrown # OK /\ Output(1, thrown)

Ended == output # Running /\ UNCHANGED process
Main  == ParseProgramText \/ CheckProgram \/ Checking \/ Report

(* One thread runs main to its end.                                        *)
Run     == Launch /\ [][Main \/ Ended]_process
FairRun == Run /\ WF_process(Main)

-----------------------------------------------------------------------------
(* The checker finds in the registry exactly the variables of the program  *)
(* it checks: the parser left none behind, and none has gone (the static   *)
(* Registry, which UnifyAll reads at the end).                             *)
RegistryHandedOver ==
  [][phase = "parse" /\ phase' # "parse" => registry' = registry]_process

(* Every run of the program ends with a verdict.                           *)
AlwaysReports == <>(output # Running)
=============================================================================
