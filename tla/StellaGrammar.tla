--------------------------- MODULE StellaGrammar ---------------------------
(***************************************************************************)
(* The parse trees that StellaParser.g4 allows, as far as the walk of      *)
(* Parser depends on it, and what the walk promises for every such tree.   *)
(*                                                                         *)
(* The grammar is the generated parser's: StellaParser returns no other    *)
(* tree for a source without a syntax error.  Labels that no visitor reads *)
(* (the annotations and the throws clause of a function) are left out of   *)
(* the trees.                                                              *)
(***************************************************************************)
EXTENDS Parser

CONSTANT Inside(_)    \* a context and every context below it

Inner == {"inner", "fieldType"}    \* the contexts that no visitor is called on

(* What the visitor of an alternative returns.                             *)
ClassOf(rule) ==
  IF rule \in DOMAIN TypeRules \cup DOMAIN DataTypeRules THEN "Type" ELSE NodeClass(rule)

(* A label stands for contexts of one nonterminal.                         *)
Fits(label, c) ==
  /\ c.rule \in Inner <=> label \in DOMAIN Inline
  /\ c.rule \in Inner => DOMAIN c.subs = Range(Inline[label])
  /\ c.rule \notin {"null", "Program"}
  /\ c.rule \in DOMAIN Rules => ClassOf(c.rule) = CastOf(label)

(* A context has what its alternative names: for each label that is there  *)
(* once, one context; and digits make a number.                            *)
Once(c) ==
  CASE c.rule \in Transparent -> DOMAIN c.subs
    [] c.rule = "Let" -> {"body"}
    [] OTHER -> DOMAIN c.subs \cap {"pat"}
Follows(c) ==
  /\ \A l \in DOMAIN c.subs : \A i \in DOMAIN c.subs[l] : Fits(l, c.subs[l][i])
  /\ c.rule \in DOMAIN Rules => DOMAIN c.subs = Range(Rules[c.rule])
  /\ \A l \in Once(c) : Len(c.subs[l]) = 1
  /\ "patternBindings" \in DOMAIN c.subs => c.subs.patternBindings # <<>>
  /\ "returnType" \in DOMAIN c.subs => Len(c.subs.returnType) <= 1
  /\ c.rule \in {"ConstInt", "DotTuple"} => c.text[1] \in Nat

(* Inside is what its name says: it obeys its recursive definition on every *)
(* tree.                                                                   *)
Below_(c) == UNION {UNION {Inside(c.subs[l][i]) : i \in DOMAIN c.subs[l]} : l \in DOMAIN c.subs}
ASSUME GrammarAssumption ==
  /\ IntMax \in Nat
  /\ \A t \in ParseTrees : t \in Inside(t) /\ t.rule = "Program"
  /\ \A t \in ParseTrees : \A c \in Inside(t) :
       /\ Inside(c) = {c} \cup Below_(c)
       /\ \A l \in DOMAIN c.subs : c.subs[l] \in Seq(Inside(t))
       /\ Follows(c)

(* The tables of the visitors, as far as it matters what they say.         *)
ASSUME RulesAssumption ==
  /\ \A r \in DOMAIN Rules : Rules[r] \in Seq(STRING)
  /\ Rules["Let"] = <<"patternBindings", "body">>
  /\ \A r \in {"PatternVar", "PatternInl", "PatternInr", "PatternVariant", "PatternCastAs"} \cap DOMAIN Rules :
       Range(Rules[r]) \subseteq {"pattern_", "type_"}
  /\ \A r \in Transparent : /\ Rules[r] = IF r = "TypeParens" THEN <<"type_">> ELSE <<"expr_">>
                            /\ ClassOf(r) = CastOf(Rules[r][1])
  /\ Rules["TypeAuto"] = <<>> /\ Rules["Program"] = <<"decl">>
  /\ Transparent \cup {"TypeAuto", "Program"} \subseteq DOMAIN Rules
  /\ DOMAIN Rules \cap (Inner \cup {"null"}) = {}
  /\ DOMAIN TermTags \cup {"TypeAuto"} \subseteq DOMAIN TypeRules \cup DOMAIN DataTypeRules

(* Every TypeAuto is an object of its own.                                 *)
ASSUME NamesAssumption ==
  /\ AutoNames \in Seq(Range(AutoNames))
  /\ \A i, j \in DOMAIN AutoNames : AutoNames[i] = AutoNames[j] => i = j

-----------------------------------------------------------------------------
(* A program is built exactly if every construct in it is supported: none  *)
(* is skipped in silence (visitChildren, the checks for several parameters,*)
(* arguments and bindings, std::stoi).                                     *)
Supported(c) ==
  /\ c.rule \in DOMAIN Rules \cup Inner
  /\ \A l \in DOMAIN c.subs : l \in Single \cup Assumed => Len(c.subs[l]) = 1
  /\ c.rule = "Let" => c.subs.patternBindings[1].subs.pat[1].rule = "PatternVar"
  /\ c.rule \in {"ConstInt", "DotTuple"} => c.text[1] <= IntMax
BuildsSupported == Parsed => (thrown = OK) = (\A c \in Inside(tree) : Supported(c))

(* While the walk goes on a type variable is in the registry exactly as    *)
(* long as one result holds it, one that a visit has returned and no       *)
(* exception has dropped; no two results share one, and each is a new      *)
(* object.  When a walk was given up none is left (the constructor and the *)
(* destructor of TypeAuto, the std::any values on the C++ stack).          *)
RegistryOwned ==
  /\ ~Parsed => registry = UNION {Owned(visits[i].done) : i \in DOMAIN visits}
  /\ \A i, j \in DOMAIN visits : \A k \in DOMAIN visits[i].done, l \in DOMAIN visits[j].done :
       <<i, k>> # <<j, l>> => visits[i].done[k].autos \cap visits[j].done[l].autos = {}
  /\ thrown = OK => registry = {Auto_(AutoNames[i]) : i \in 1..Cardinality(registry)}
  /\ Parsed /\ thrown # OK => registry = {}
=============================================================================
