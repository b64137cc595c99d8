----------------------------- MODULE PhpImports ------------------------------
(***************************************************************************)
(* Stages 6 and 6b for PHP: by the PSR-4 namespaces, or by the directories *)
(* of a CodeIgniter 3 application.                                         *)
(*                                                                         *)
(* A path (without .php), a namespace and a class name are sequences of    *)
(* parts. A file is [path, decls, loads]: its top-level declarations in    *)
(* their order, and its calls of the CodeIgniter loader [kind, name]. A    *)
(* declaration is one of                                                   *)
(*   [decl |-> "namespace", name]                                          *)
(*   [decl |-> "use", classes, prefix, clauses], a clause [name, alias];   *)
(*       classes is false for `use function' and `use const'               *)
(*   [decl |-> a kind of type, name, extends, refs, methods, props], a     *)
(*       reference [name, full], a property [name, static]                 *)
(* and composer is [present, valid, psr4], psr4 the set of namespaces.     *)
(***************************************************************************)
EXTENDS Naturals, FiniteSets, SequencesExt, Functions

CONSTANTS
  LowerOf,       \* the lower-case form of the strings that have capitals
  CIBases        \* the class names that start with CI_

ToLower(s) == IF s \in DOMAIN LowerOf THEN LowerOf[s] ELSE s

TypeDecls == {"class", "interface", "trait", "enum"}

SkippedDirs == {"vendor", "node_modules", ".git", "storage", "bootstrap"}

NoType == [decl |-> "", name |-> "", extends |-> {}, refs |-> {}, methods |-> {}, props |-> {}]

\* A clause of a use declaration; the alias is the last part of its name.
phpUseClauseEntry(prefix, c) ==
  [fqn |-> prefix \o c.name, alias |-> IF c.alias # "" THEN c.alias ELSE Last(c.name)]

phpExtractUseEntries(d) ==
  IF d.classes THEN [i \in DOMAIN d.clauses |-> phpUseClauseEntry(d.prefix, d.clauses[i])]
  ELSE <<>>

\* The first namespace and the first type of a file, and all it uses. Only a
\* class has its members and its parent collected.
extractPHPFile(f) ==
  LET named(d) == d.decl = "namespace"
      typed(d) == d.decl \in TypeDecls
      used     == SelectSeq(f.decls, LAMBDA d : d.decl = "use")
      entries  == FlattenSeq([i \in DOMAIN used |-> phpExtractUseEntries(used[i])])
      aliased(a, e) == (e.alias :> e.fqn) @@ a
      n == SelectInSeq(f.decls, named)
      t == SelectInSeq(f.decls, typed)
      type == IF t = 0 THEN NoType ELSE f.decls[t]
      isClass == type.decl = "class"
  IN [path       |-> f.path,
      ns         |-> IF n = 0 THEN <<>> ELSE f.decls[n].name,
      class      |-> type.name,
      uses       |-> {entries[i].fqn : i \in DOMAIN entries},
      useAliases |-> FoldLeft(aliased, <<>>, entries),
      refs       |-> type.refs,
      extends    |-> IF isClass THEN type.extends ELSE {},
      code       |-> type.decl # "",
      state      |-> isClass /\ \E p \in type.props : p.static,
      loads      |-> f.loads]

\* ExtractFiles: the files outside the directories that are skipped.
ExtractFiles(files) ==
  LET kept == SelectSeq(files, LAMBDA f : ToSet(Front(f.path)) \cap SkippedDirs = {})
  IN [i \in DOMAIN kept |-> extractPHPFile(kept[i])]

-----------------------------------------------------------------------------
(* PSR-4. *)

internalPrefixes(composer) == composer.psr4 \ {<<>>}

\* A prefix ends with the separator: it stands before at least one more part.
IsInternal(composer, fqn) == \E p \in internalPrefixes(composer) : IsStrictPrefix(p, fqn)

ModuleOf(f) == IF f.class = "" THEN f.ns ELSE Append(f.ns, f.class)

\* The full name of a reference: by the alias of its first part, else in the
\* file's namespace.
phpResolveRef(r, f) ==
  IF r.full THEN r.name
  ELSE IF r.name[1] \in DOMAIN f.useAliases THEN f.useAliases[r.name[1]] \o Tail(r.name)
  ELSE f.ns \o r.name

PseudoTypes == {<<"self">>, <<"static">>, <<"parent">>}

\* PHPModuleResolver.BuildGraphEdges: a use of an internal name is an edge
\* whether or not a file declares it; a reference only to a declared class.
psr4Edges(files, composer) ==
  LET fs        == {f \in ToSet(files) : f.ns # <<>>}
      moduleSet == {ModuleOf(f) : f \in {x \in fs : x.class # ""}}
      used(f)   == {u \in f.uses : IsInternal(composer, u)}
      refd(f)   == {phpResolveRef(r, f) : r \in {x \in f.refs : x.full \/ x.name \notin PseudoTypes}}
  IN {p \in UNION {{<<ModuleOf(f), to>> : to \in used(f) \cup (refd(f) \cap moduleSet)} : f \in fs} :
        p[1] # p[2]}

psr4Cards(files) ==
  LET fs == SelectSeq(files, LAMBDA f : f.ns # <<>>)
  IN [i \in DOMAIN fs |->
        [module |-> ModuleOf(fs[i]), sep |-> "\\", code |-> fs[i].code, state |-> fs[i].state]]

-----------------------------------------------------------------------------
(* CodeIgniter 3. *)

ci3ModuleRoots == {"controllers", "models", "libraries", "core"}

ci3BootstrapNode == <<"application", "config", "autoload">>

\* The module root below the first `application' that has one.
ci3DirOf(path) ==
  LET at == {i \in 1 .. Len(path) - 1 :
               path[i] = "application" /\ path[i + 1] \in ci3ModuleRoots}
  IN IF at = {} THEN "" ELSE path[Min(at) + 1]

ci3DiscoverModules(files) == SelectSeq(files, LAMBDA f : ci3DirOf(f.path) # "")

\* The last file of the walk with a name in a root, or with a class; <<>> if
\* there is none.
byDir(mods, root, name) ==
  LET i == SelectLastInSeq(mods, LAMBDA f :
             ci3DirOf(f.path) = root /\ ToLower(Last(f.path)) = ToLower(name))
  IN IF i = 0 THEN <<>> ELSE mods[i].path

byClass(mods, class) ==
  LET i == SelectLastInSeq(mods, LAMBDA f : f.class = class /\ class # "")
  IN IF i = 0 THEN <<>> ELSE mods[i].path

LoadRoot(kind) == IF kind = "model" THEN "models" ELSE "libraries"

\* ci3ResolvedEdges: a class to its parent, a load to the file it names, and
\* the bootstrap node to what autoload.php names, wherever such a file exists.
\* A load below a subfolder (name of several parts) is left out.
ci3Edges(files, autoload) ==
  LET mods == ci3DiscoverModules(files)
      parents(f) == {byClass(mods, c) : c \in f.extends \ CIBases}
      loaded(f)  == {byDir(mods, LoadRoot(l.kind), l.name[1]) :
                       l \in {x \in f.loads : Len(x.name) = 1}}
      boot       == {byDir(mods, r, n) : r \in {"models", "libraries"}, n \in autoload}
  IN {p \in UNION {{<<f.path, to>> : to \in parents(f) \cup loaded(f)} : f \in ToSet(mods)}
             \cup {<<ci3BootstrapNode, to>> : to \in boot} :
        p[2] # <<>> /\ p[1] # p[2]}

\* A CodeIgniter card is known by the path of its file.
ci3Cards(files) ==
  LET mods == ci3DiscoverModules(files)
  IN [i \in DOMAIN mods |->
        [module |-> mods[i].path, sep |-> "/", code |-> mods[i].code, state |-> mods[i].state]]

-----------------------------------------------------------------------------
(* PHPLanguageAnalyzer. *)

ComposerReadable(composer) == composer.present /\ composer.valid

\* The framework's files, and no PSR-4 namespace of the application's own.
isCI3Workspace(ws) ==
  /\ {"system/core/CodeIgniter.php", "application/"} \subseteq ws.paths
  /\ ~ComposerReadable(ws.composer) \/ internalPrefixes(ws.composer) = {}

phpSep(ws) == IF isCI3Workspace(ws) THEN "/" ELSE "\\"

ResolveImports(ws, files) ==
  [p \in IF isCI3Workspace(ws) THEN ci3Edges(files, ws.autoload)
          ELSE IF ComposerReadable(ws.composer) THEN psr4Edges(files, ws.composer)
          ELSE {} |-> 1]

phpEdges(ws) == ResolveImports(ws, ExtractFiles(ws.php))

ExtractCards(ws, files) == IF isCI3Workspace(ws) THEN ci3Cards(files) ELSE psr4Cards(files)

phpCards(ws) == ExtractCards(ws, ExtractFiles(ws.php))
==============================================================================
