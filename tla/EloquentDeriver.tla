--------------------------- MODULE EloquentDeriver ---------------------------
(***************************************************************************)
(* EloquentDeriver: the contract of one cluster of a Laravel workspace.    *)
(*                                                                         *)
(* A class name is the sequence of the words of its PascalCase spelling; a *)
(* full name (FQN) is a sequence of namespace segments that ends with the  *)
(* class.  The workspace is                                                *)
(*   psr4        the entries <<prefix, dir>> of composer.json, in order;   *)
(*   walk        the paths of the PHP files in the order of a directory    *)
(*               walk; a path starts with the directory of a PSR-4 root    *)
(*               and ends with the class that the file is named after;     *)
(*   files       path -> the class that the file declares                  *)
(*               [name, eloquent (extends a recognised base), table, doc,  *)
(*               casts, relations]; doc is a sequence [name, type], casts  *)
(*               a function from column names to types, a relation is      *)
(*               [method, kind, target, column];                           *)
(*   migrations  table -> the builder calls [name, builder] that create it;*)
(*   routes      the route files, each [aliases, routes].                  *)
(* Where Go ranges over a map the outcome depends on the order that the    *)
(* runtime picks: order is that choice, made by the caller, for the casts  *)
(* of each class and for the PSR-4 roots.                                  *)
(***************************************************************************)
EXTENDS ProtoContract

CONSTANT Ending   \* how a word ends: "y", "f", "sibilant", "z" or "other"

-----------------------------------------------------------------------------
(* Names, tables and files. *)

\* The adapters' plural, and the one that the pipeline has of its own: only
\* the first knows that a word may end in z.
pluralSnake(words) ==
  [stem |-> words,
   plural |-> CASE Ending[Last(words)] = "y" -> "ies"
                [] Ending[Last(words)] = "f" -> "ves"
                [] Ending[Last(words)] \in {"sibilant", "z"} -> "es"
                [] OTHER -> "s"]
pluralizeSnake(words) ==
  [pluralSnake(words) EXCEPT !.plural = IF Ending[Last(words)] = "z" THEN "s" ELSE @]

\* A namespace segment Models or Model above the class.
isEloquentModelModule(fqn) ==
  \E i \in 1..(Len(fqn) - 1) : fqn[i] \in {<<"models">>, <<"model">>}

\* The map that composer.json spells: a later entry of a prefix replaces an
\* earlier one, the ones of autoload-dev included.
loadPSR4Map(ws) ==
  [p \in {ws.psr4[i][1] : i \in DOMAIN ws.psr4} |->
     ws.psr4[SelectLastInSeq(ws.psr4, LAMBDA e : e[1] = p)][2]]

\* The file that the longest matching prefix leads to; <<>> when it is absent.
Psr4Path(ws, fqn) ==
  LET psr4 == loadPSR4Map(ws)
      hits == {p \in DOMAIN psr4 : IsStrictPrefix(p, fqn)}
      best == CHOOSE p \in hits : \A q \in hits : Len(q) <= Len(p)
      path == <<psr4[best]>> \o SubSeq(fqn, Len(best) + 1, Len(fqn))
  IN IF hits = {} THEN <<>> ELSE IF path \in DOMAIN ws.files THEN path ELSE <<>>

\* The deriver falls back on the first file with the class's base name.
resolvePHPModulePath(ws, fqn) ==
  LET same == SelectSeq(ws.walk, LAMBDA p : Last(p) = Last(fqn))
  IN IF Psr4Path(ws, fqn) # <<>> THEN Psr4Path(ws, fqn)
     ELSE IF same # <<>> THEN same[1] ELSE <<>>

-----------------------------------------------------------------------------
(* buildTableServiceMap of the pipeline, for PHP: its own resolution of a  *)
(* model to its table.                                                     *)

TableByConvention(ws, fqn) == pluralizeSnake(Last(fqn))
eloquentTableForModule(ws, fqn) ==
  LET path == Psr4Path(ws, fqn)
  IN IF path # <<>> /\ ws.files[path].table # NoTable THEN ws.files[path].table
     ELSE pluralizeSnake(Last(fqn))

\* The table of a model class, by its short name: of two classes with one name
\* the later one in the walk stays, and the later one of the roots as the map
\* of roots happens to be walked.
ClassTable(ws, roots, class) ==
  LET at(dir) == SelectLastInSeq(ws.walk, LAMBDA p :
                   /\ p[1] = dir /\ Last(p) = class
                   /\ <<"models">> \in ToSet(Front(p)))
      last == SelectLastInSeq(roots, LAMBDA dir : at(dir) # 0)
      file == ws.files[ws.walk[at(roots[last])]]
  IN IF last = 0 THEN pluralSnake(class)
     ELSE IF file.table = NoTable THEN pluralSnake(class) ELSE file.table

-----------------------------------------------------------------------------
(* Columns: docblock, casts, then the migration that creates the table.    *)

phpTypeToSQLAlchemy(t) ==
  Lookup([int |-> "Integer", string |-> "String", bool |-> "Boolean",
          float |-> "Float", carbon |-> "DateTime", datetime |-> "DateTime",
          binary |-> "Binary"], t, "")

migrationBuilderToPHPType(b) ==
  Lookup([integer |-> "int", string |-> "string", boolean |-> "bool",
          float |-> "float", timestamp |-> "datetime"], b, "")

isRelationDocType(t) == t \in {"Collection", "ModelClass"}
SchemaCalls == {"index", "unique", "primary", "foreign", "dropcolumn", "renamecolumn"}

parsePropertyDocblock(doc) ==
  Mapped(SelectSeq(doc, LAMBDA d : ~isRelationDocType(d.type)),
         LAMBDA d : [name |-> d.name, type |-> d.type, force |-> FALSE])

CastColumns(casts, castOrder) ==
  Mapped(castOrder, LAMBDA n : [name |-> n, type |-> casts[n], force |-> TRUE])

readMigrationColumns(ws, table) ==
  Mapped(SelectSeq(Lookup(ws.migrations, table, <<>>),
                   LAMBDA x : x.builder \notin SchemaCalls),
         LAMBDA x : [name |-> x.name, type |-> migrationBuilderToPHPType(x.builder),
                     force |-> FALSE])

\* A column stands where it is first named; of its types the last one that is
\* known, or that a cast gives, wins.
TypeIn(adds, n) ==
  LET i == SelectLastInSeq(adds, LAMBDA a : a.name = n /\ (a.force \/ a.type # ""))
  IN IF i = 0 THEN "" ELSE adds[i].type

\* A column name that ends in _id and is an integer, or has no known type.
eloquentFKHint(name, sqlType) ==
  /\ ~name.camel /\ Len(name.words) > 1 /\ Last(name.words) = "id"
  /\ sqlType \in {"", "Integer"}

\* The class that belongsTo relations give for a column; the last one wins.
BelongsTo(class, name) ==
  LET fkCol(r) == IF r.column # <<>> THEN r.column ELSE Append(r.method, "id")
      i == SelectLastInSeq(class.relations, LAMBDA r :
             /\ r.kind = "belongsTo" /\ r.target # <<>>
             /\ name = [words |-> fkCol(r), camel |-> FALSE])
  IN IF i = 0 THEN <<>> ELSE class.relations[i].target

RawColumn(ws, roots, class, adds, name) ==
  LET sql    == phpTypeToSQLAlchemy(TypeIn(adds, name))
      target == BelongsTo(class, name)
      hinted == eloquentFKHint(name, sql)
  IN [name     |-> name,
      sqlType  |-> sql,
      isFKCol  |-> target # <<>> \/ hinted,
      refTable |-> CASE target # <<>> -> ClassTable(ws, roots, target)
                     [] target = <<>> /\ hinted -> pluralSnake(Front(name.words))
                     [] OTHER -> NoTable]

parseEloquentModel(ws, class, castOrder, roots, tableServiceMap) ==
  LET table  == IF class.table # NoTable THEN class.table ELSE pluralSnake(class.name)
      adds   == parsePropertyDocblock(class.doc)
                \o CastColumns(class.casts, castOrder)
                \o readMigrationColumns(ws, table)
      names  == Distinct(Mapped(adds, LAMBDA a : a.name))
      cols   == Mapped(names, LAMBDA n : RawColumn(ws, roots, class, adds, n))
      fields == buildProtoFields(cols, tableServiceMap)
  IN IF class.eloquent /\ fields # <<>> THEN <<[name |-> class.name, fields |-> fields]>>
     ELSE <<>>

-----------------------------------------------------------------------------
(* Routes.  A controller reference is a sequence of segments whose first   *)
(* may be an alias; the second segment of its full name is the service.    *)

crudActions ==
  [index |-> "List", store |-> "Create", show |-> "Get", update |-> "Update",
   destroy |-> "Delete"]

resolveControllerFQN(ref, aliases) ==
  IF ref[1] \in DOMAIN aliases THEN aliases[ref[1]] \o Tail(ref) ELSE ref

routeServiceOf(fqn) ==
  IF Len(fqn) < 2 THEN NoService ELSE [word |-> fqn[2], cap |-> FALSE]

classifyLaravelAction(path, action) ==
  LET segs == pathSegments(path)
      r    == ResourceIndex(segs)
      verb == Lookup(crudActions, action, "")
  IN IF \/ verb \in {"List", "Create"} /\ OnCollection(segs, r)
        \/ verb \in {"Get", "Update", "Delete"} /\ OnMember(segs, r)
     THEN <<verb, singularizeTitle(segs[r])>> ELSE <<>>

parseLaravelRoutesForService(ws, service) ==
  FlattenSeq(Mapped(ws.routes, LAMBDA file :
    Mapped(SelectSeq(file.routes, LAMBDA r :
             routeServiceOf(resolveControllerFQN(r.controller, file.aliases)) = service),
           LAMBDA r : [name |-> classifyLaravelAction(r.path, r.action),
                       path |-> r.path, http |-> r.http])))

serviceFromBlueprintGroup(group) == [word |-> Last(group), cap |-> FALSE]

EloquentDerive(cluster, ws, order, tableServiceMap) ==
  LET models == SelectSeq(cluster.modules, isEloquentModelModule)
      paths  == SelectSeq(Mapped(models, LAMBDA m : resolvePHPModulePath(ws, m)),
                          LAMBDA p : p # <<>>)
      messages == FlattenSeq(Mapped(paths, LAMBDA p :
                    parseEloquentModel(ws, ws.files[p], order.casts[p], order.roots,
                                       tableServiceMap)))
      service  == serviceFromBlueprintGroup(cluster.group)
  IN Contract(service, messages, parseLaravelRoutesForService(ws, service), Len(models))
==============================================================================
