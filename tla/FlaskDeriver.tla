----------------------------- MODULE FlaskDeriver -----------------------------
(***************************************************************************)
(* FlaskSQLAlchemyDeriver: the contract of one cluster of a Flask          *)
(* workspace.  A module is the sequence of its dotted segments [word,      *)
(* cap]; the workspace maps the modules whose file can be read to          *)
(* [classes, routes].  A class is [name, sqlalchemy (has a recognised      *)
(* base), table, members], a member [name, call, type, ref]: the call      *)
(* assigned to it, its type argument and the table it refers to.           *)
(***************************************************************************)
EXTENDS ProtoContract

Seg(w) == [word |-> <<w>>, cap |-> FALSE]

HasModuleSuffix(m, w) == Len(m) > 1 /\ Last(m) = Seg(w)   \* ".models", ".views"

parseColumnCall(x) ==
  LET fk == x.ref # NoTable   \* a ForeignKey argument with a table
  IN [name |-> x.name, sqlType |-> IF fk THEN "Integer" ELSE x.type,
      isFKCol |-> fk, refTable |-> x.ref]

ReferenceCol(x) ==   \* reference_col is a foreign key whatever its arguments
  [name |-> x.name, sqlType |-> "Integer", isFKCol |-> TRUE, refTable |-> x.ref]

\* The columns of a class body; relationships become comments.
extractClassMembers(members) ==
  Mapped(SelectSeq(members, LAMBDA x : x.call \in {"column", "reference_col"}),
         LAMBDA x : IF x.call = "column" THEN parseColumnCall(x) ELSE ReferenceCol(x))

\* No message for a class that is not a model or has no mappable column.
processModelClass(class, tableServiceMap) ==
  LET fields == buildProtoFields(extractClassMembers(class.members), tableServiceMap)
  IN IF class.sqlalchemy /\ fields # <<>> THEN <<[name |-> class.name, fields |-> fields]>>
     ELSE <<>>

parseModelsFromAST(classes, tableServiceMap) ==
  FlattenSeq(Mapped(classes, LAMBDA c : processModelClass(c, tableServiceMap)))

\* One method per HTTP method of a route; GET when the route names none.
parseFlaskRoutes(routes) ==
  FlattenSeq(Mapped(routes, LAMBDA r :
    Mapped(IF r.methods = <<>> THEN <<"GET">> ELSE r.methods,
           LAMBDA h : [name |-> classifyCRUD(r.path, h), path |-> r.path, http |-> h])))

\* The service is named by the last component as the source writes it.
FlaskDerive(cluster, files, tableServiceMap) ==
  LET models == SelectSeq(cluster.modules, LAMBDA m : HasModuleSuffix(m, "models"))
      views  == SelectSeq(cluster.modules, LAMBDA m : HasModuleSuffix(m, "views"))
      read(ms) == SelectSeq(ms, LAMBDA m : m \in DOMAIN files)
      messages == FlattenSeq(Mapped(read(models), LAMBDA m :
                    parseModelsFromAST(files[m].classes, tableServiceMap)))
      rpcs     == FlattenSeq(Mapped(read(views), LAMBDA m :
                    parseFlaskRoutes(files[m].routes)))
  IN Contract(Last(cluster.group), messages, rpcs, Len(models))
==============================================================================
