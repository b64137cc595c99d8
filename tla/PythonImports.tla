---------------------------- MODULE PythonImports ----------------------------
(***************************************************************************)
(* Stages 6 and 6b for Python: the names under which the files of a tree   *)
(* can be imported, the dependency graph, the module cards and the         *)
(* blueprints.                                                             *)
(*                                                                         *)
(* A path or a dotted name is the sequence of its parts. A file is         *)
(*   [path, init, stmts, defs, regs, code, state]:                         *)
(* its path without the suffix, without __init__ for a package (init); the *)
(* import statements [from, level, module, items], an item [name, alias];  *)
(* the variables assigned a Blueprint, <<variable, name>>, and those       *)
(* registered, <<variable, prefix>>; whether it declares functions or      *)
(* classes; whether it assigns module-level variables that are not named   *)
(* like constants. Files come in the order of the walk.                    *)
(***************************************************************************)
EXTENDS Naturals, FiniteSets, SequencesExt

CONSTANT EntryPoints   \* app, main, wsgi, asgi, manage, __main__, run, server

NoModule == <<>>

\* The dotted name of a path below a root, and no name for the root's own
\* __init__: a package has the path of its directory.
pathToPyModule(root, path) == SubSeq(path, Len(root) + 1, Len(path))

Under(root, f) == IsPrefix(root, f.path)

\* src first, then the workspace, then the roots that only give short names:
\* three usual directories, and those at the top with an entry point.
detectPyImportRoots(files) ==
  LET under(d) == \E i \in DOMAIN files : Under(<<d>>, files[i]) /\ Len(files[i].path) > 1
      isEntry(f) == ~f.init /\ Len(f.path) = 2 /\ f.path[2] \in EntryPoints
      usual   == SelectSeq(<<"app", "backend", "lib">>, under)
      add(s, f) == IF isEntry(f) /\ f.path[1] # "src" /\ ~Contains(s, f.path[1])
                   THEN Append(s, f.path[1]) ELSE s
      aliases == FoldLeft(add, usual, files)
  IN (IF under("src") THEN <<<<"src">>>> ELSE <<>>) \o <<<<>>>>
       \o [i \in DOMAIN aliases |-> <<aliases[i]>>]

-----------------------------------------------------------------------------
(* The module map. *)

NewMap ==
  [file      |-> <<>>,   \* path and init of a file -> its canonical name
   modules   |-> {},     \* the names that are known
   packages  |-> {},     \* the names of __init__ files
   aliases   |-> <<>>,   \* short name -> canonical name
   ambiguous |-> {}]     \* short names of two modules

Key(f) == <<f.path, f.init>>

Ancestors(name) == {SubSeq(name, 1, n) : n \in 1 .. Len(name) - 1}

\* Mutant: a second claim on a short name is not noticed.
addAliasFirstWins(m, alias, canonical) ==
  IF alias \in m.modules THEN m
  ELSE [m EXCEPT !.modules = @ \cup {alias},
                 !.aliases = (alias :> canonical) @@ @]

\* A short name that another module claims as well becomes ambiguous; a name
\* that a module has of its own is never taken. The packages above a new short
\* name get one too, where they are not known yet.
addAlias(m, alias, canonical) ==
  IF alias \in DOMAIN m.aliases
  THEN IF m.aliases[alias] # canonical THEN [m EXCEPT !.ambiguous = @ \cup {alias}] ELSE m
  ELSE IF alias \in m.modules THEN m
  ELSE LET offset == Len(canonical) - Len(alias)
           new    == {alias} \cup (Ancestors(alias) \ m.modules)
       IN [m EXCEPT !.modules = @ \cup new,
                    !.aliases = [a \in new |-> SubSeq(canonical, 1, offset + Len(a))] @@ @]

\* The first root that reaches a file names it; a later one gives it a short
\* name, if that is shorter.
register(m, root, f) ==
  LET name == pathToPyModule(root, f.path)
  IN IF name = NoModule THEN m
     ELSE IF Key(f) \notin DOMAIN m.file
     THEN [m EXCEPT !.file = (Key(f) :> name) @@ @,
                    !.modules = @ \cup {name} \cup Ancestors(name),
                    !.packages = IF f.init THEN @ \cup {name} ELSE @]
     ELSE IF Len(name) < Len(m.file[Key(f)]) THEN addAlias(m, name, m.file[Key(f)])
     ELSE m

buildPyModuleMap(files) ==
  LET walk(m, root) ==
        FoldLeft(LAMBDA n, f : register(n, root, f), m,
                 SelectSeq(files, LAMBDA f : Under(root, f)))
  IN FoldLeft(walk, NewMap, detectPyImportRoots(files))

\* The name of a file's card. The __init__ of the workspace has none.
ModuleName(m, f) == IF Key(f) \in DOMAIN m.file THEN m.file[Key(f)] ELSE f.path

-----------------------------------------------------------------------------
(* Imports. *)

resolvedImportName(item) == IF item.alias # <<>> THEN item.alias ELSE item.name

\* The raw imports of a file. An import statement is one for each module it
\* names, and its name is the module or the alias.
rawImports(f) ==
  FlattenSeq([i \in DOMAIN f.stmts |->
    LET s == f.stmts[i]
    IN IF s.from
       THEN <<[level |-> s.level, module |-> s.module,
               names |-> [k \in DOMAIN s.items |-> resolvedImportName(s.items[k])]]>>
       ELSE [k \in DOMAIN s.items |->
               [level |-> 0, module |-> s.items[k].name,
                names |-> <<resolvedImportName(s.items[k])>>]]])

\* No module for an ambiguous short name.
canonicalize(m, c) ==
  IF c \in m.ambiguous THEN NoModule
  ELSE IF c \in DOMAIN m.aliases THEN m.aliases[c] ELSE c

\* The longest known name along the import, from module.name up.
resolveAbsolute(m, module, name) ==
  LET up    == [i \in 1 .. Len(module) |-> SubSeq(module, 1, Len(module) + 1 - i)]
      tries == (IF name # module THEN <<module \o name>> ELSE <<>>) \o up
      i     == SelectInSeq(tries, LAMBDA c : c \in m.modules /\ canonicalize(m, c) # NoModule)
  IN IF i = 0 THEN NoModule ELSE canonicalize(m, tries[i])

\* The package that a relative import starts from.
relativeBase(m, imp, from) ==
  LET pkg == IF from \in m.packages THEN from ELSE SubSeq(from, 1, Len(from) - 1)
      up  == imp.level - 1
  IN (IF up >= Len(pkg) THEN <<>> ELSE SubSeq(pkg, 1, Len(pkg) - up)) \o imp.module

\* Where an imported name leads; for a relative import to the package, known
\* or not, unless the name is a module in it.
Target(m, imp, from, name) ==
  IF imp.level = 0 THEN resolveAbsolute(m, imp.module, name)
  ELSE LET base == relativeBase(m, imp, from)
       IN IF base = NoModule THEN NoModule
          ELSE canonicalize(m, IF base \o name \in m.modules THEN base \o name ELSE base)

\* The imported names of a file, each with where it leads.
Hits(m, f) ==
  LET raw == rawImports(f)
  IN FlattenSeq([i \in DOMAIN raw |->
       [k \in DOMAIN raw[i].names |->
          <<m.file[Key(f)], Target(m, raw[i], m.file[Key(f)], raw[i].names[k])>>]])

Counted(all) ==
  [p \in {q \in ToSet(all) : q[2] # NoModule /\ q[1] # q[2]} |->
     Cardinality({i \in DOMAIN all : all[i] = p})]

\* BuildGraphEdges: the imported names of every pair of modules, counted.
BuildGraphEdges(m, files) ==
  LET known == SelectSeq(files, LAMBDA f : Key(f) \in DOMAIN m.file)
  IN Counted(FlattenSeq([i \in DOMAIN known |-> Hits(m, known[i])]))

pyEdges(files) == BuildGraphEdges(buildPyModuleMap(files), files)

-----------------------------------------------------------------------------
(* Cards and blueprints. *)

BuildCards(m, files) ==
  [i \in DOMAIN files |->
     [module |-> ModuleName(m, files[i]), sep |-> ".", code |-> files[i].code,
      state |-> files[i].state]]

pyCards(files) == BuildCards(buildPyModuleMap(files), files)

\* A definition is known by its variable, the last one of the walk; so is the
\* prefix, by the first registration.
pyBlueprints(files) ==
  LET defs == FlattenSeq([i \in DOMAIN files |-> files[i].defs])
      regs == FlattenSeq([i \in DOMAIN files |-> files[i].regs])
      prefix(v) == LET k == SelectInSeq(regs, LAMBDA r : r[1] = v)
                   IN IF k = 0 THEN "" ELSE regs[k][2]
  IN {<<defs[i][2], prefix(defs[i][1])>> :
        i \in {k \in DOMAIN defs : \A n \in DOMAIN defs : n > k => defs[n][1] # defs[k][1]}}
==============================================================================
