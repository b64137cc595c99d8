----------------------- MODULE MCStructuralAssessment -----------------------
(***************************************************************************)
(* Source trees of four modules for the model checker.                     *)
(***************************************************************************)
EXTENDS ModelAdvice

Four == 1 .. 4

\* The imports E, k times as heavy against the order of the names as along it.
Imports(E, k) ==
  [a \in Four |-> [b \in Four |-> IF <<a, b>> \notin E THEN 0 ELSE IF a < b THEN 1 ELSE k]]

\* A tree of Python modules, all of them named like parts of a domain.
Plain(edge, group) ==
  [edge |-> edge, group |-> group, php |-> {}, layer |-> [m \in Four |-> ""],
   suffix |-> Four, test |-> {}, state |-> {}, big |-> {}, blueprints |-> 2, routes |-> TRUE]

\* Subgraphs with cycles of two, three and four modules, with two blueprints of
\* two modules, and with one of two modules between two of one.
Rings == SUBSET {<<1, 2>>, <<2, 1>>, <<2, 3>>, <<3, 4>>, <<4, 1>>, <<1, 3>>, <<3, 1>>}

Shapes ==
  {Plain(Imports(E, 2), g) : E \in Rings, g \in {<<1, 1, 2, 2>>, <<2, 1, 1, 3>>}}

\* Graphs around a module that the others import.
Stars == SUBSET {<<1, 1>>, <<2, 1>>, <<3, 1>>, <<4, 1>>, <<2, 3>>}

\* Trees without blueprints: tests, and state and functions in some modules.
Flat ==
  {[Plain(Imports(E, k), <<1, 2, 3, 4>>) EXCEPT
      !.suffix = {}, !.test = t, !.state = s, !.big = s \ {4}, !.blueprints = 1] :
     E \in Stars, k \in {1, 5}, t \in {{}, {4}}, s \in {{}, {1, 3, 4}}}

\* Trees of PHP modules: a layer for some of them.
Php ==
  {[Plain(Imports(E, 1), <<1, 1, 2, 3>>) EXCEPT
      !.suffix = {}, !.php = Four, !.layer = l] :
     E \in Stars, l \in {<<"infra", "domain", "domain", "application">>,
                         <<"domain", "domain", "test", "infra">>,
                         <<"", "domain", "infra", "">>}}

\* Trees of two PHP modules and two others, without imports between the two.
Mixed ==
  {[Plain(Imports(E, 1), <<1, 1, 2, 3>>) EXCEPT
      !.suffix = s, !.php = {1, 2}, !.layer = <<"domain", "infra", "", "">>] :
     E \in SUBSET {<<1, 2>>, <<2, 1>>, <<3, 4>>, <<4, 3>>}, s \in {{}, {3}}}

MCTrees == Shapes \cup Flat \cup Php \cup Mixed

\* Advice on trees without imports, with shared state and god modules, with two
\* services, and with PHP modules that the two paths classify differently.
MCAdvised ==
  {t \in Flat : t.edge \in {Imports({}, 1), Imports({<<2, 1>>, <<2, 3>>, <<3, 1>>}, 5)}
                  /\ t.test = {} /\ t.state # {}}
    \cup {t \in Php : t.edge = Imports({<<3, 1>>}, 1) /\ t.layer[1] = ""}
    \cup {t \in Shapes : t.edge = Imports({<<1, 2>>, <<3, 4>>}, 2) /\ t.group[1] = 1}
=============================================================================
