---------------------------- MODULE ProtoContract ----------------------------
(***************************************************************************)
(* The part that the two contract derivers share: how the columns of a     *)
(* model class become the numbered fields of a proto message, and how the  *)
(* routes of a service become the methods of its service block.            *)
(*                                                                         *)
(* A name is the sequence of its snake_case words, so that a suffix such   *)
(* as _id is its last word.  A source name [words, camel] also says        *)
(* whether the source wrote it in camelCase.  A table name is [stem,       *)
(* plural]: the words of the class and the ending that makes the plural    *)
(* (empty for a name written out in the source).                           *)
(***************************************************************************)
EXTENDS Integers, Sequences, FiniteSets, SequencesExt

NoTable == [stem |-> <<>>, plural |-> ""]

\* A name of a package or service, [word, cap]: cap when the source writes it
\* with a capital.  NoService is the empty name: nobody owns the table.
Lower(n) == [n EXCEPT !.cap = FALSE]
NoService == [word |-> <<>>, cap |-> FALSE]

Distinct(s) ==    \* each element once, where it first occurs
  FoldLeft(LAMBDA acc, e : IF Contains(acc, e) THEN acc ELSE Append(acc, e),
           <<>>, s)
Mapped(s, Op(_)) == [i \in 1..Len(s) |-> Op(s[i])]
Lookup(f, x, zero) == IF x \in DOMAIN f THEN f[x] ELSE zero

-----------------------------------------------------------------------------
(* Columns to fields.  A raw column is [name, sqlType, isFKCol, refTable]. *)

sqlAlchemyTypeToProto(t) ==   \* "" for a type that has no proto scalar
  Lookup([Integer |-> "int64", String |-> "string", Float |-> "double",
          Boolean |-> "bool", DateTime |-> "timestamp", Binary |-> "bytes"],
         t, "")

camelToSnake(n) == n.words

aipFieldName(n) ==
  LET w == camelToSnake(n) IN
  CASE w = <<"id">> -> <<"identifier">>
    [] w = <<"created", "at">> -> <<"create", "time">>
    [] w = <<"updated", "at">> -> <<"update", "time">>
    [] w = <<"deleted", "at">> -> <<"delete", "time">>
    [] Len(w) > 1 /\ Last(w) = "id" -> Append(Front(w), "identifier")
    [] OTHER -> w

\* The column as a field that has no number yet.  Every foreign key is
\* marked as crossing services, whoever owns the table it refers to.
FieldOf(c, tableServiceMap) ==
  [name    |-> aipFieldName(c.name),
   type    |-> IF c.isFKCol THEN "uint64" ELSE sqlAlchemyTypeToProto(c.sqlType),
   fk      |-> c.isFKCol,
   table   |-> IF c.isFKCol THEN c.refTable ELSE NoTable,
   service |-> IF c.isFKCol THEN Lookup(tableServiceMap, c.refTable, NoService)
                            ELSE NoService]

Synthetic(name, type) ==
  [name |-> name, type |-> type, fk |-> FALSE, table |-> NoTable, service |-> NoService]

IsTime(f) == f.type = "timestamp"

Numbered(fields) == [i \in 1..Len(fields) |-> fields[i] @@ ("number" :> i)]

\* Empty when no column has a known type; otherwise identifier and state,
\* the domain fields, the time fields and the two soft-delete times, unless
\* the columns bring their own.
buildProtoFields(cols, tableServiceMap) ==
  LET raw    == SelectSeq(cols, LAMBDA c : c.name # [words |-> <<"id">>, camel |-> FALSE])
      fields == SelectSeq(Mapped(raw, LAMBDA c : FieldOf(c, tableServiceMap)),
                          LAMBDA f : f.type # "")
      own    == <<Synthetic(<<"identifier">>, "uint64"), Synthetic(<<"state">>, "enum")>>
                \o SelectSeq(fields, LAMBDA f : ~IsTime(f))
                \o SelectSeq(fields, IsTime)
      soft   == SelectSeq(<<<<"delete", "time">>, <<"purge", "time">>>>,
                          LAMBDA n : \A i \in 1..Len(own) : own[i].name # n)
  IN IF fields = <<>> THEN <<>>
     ELSE Numbered(own \o Mapped(soft, LAMBDA n : Synthetic(n, "timestamp")))

-----------------------------------------------------------------------------
(* Routes to methods.  A path is a sequence of segments [word, plural,     *)
(* dyn]; a method is [name, path, http], its name <<>> for a TODO.         *)

pathSegments(path) ==
  LET start == CHOOSE k \in 1..Len(path) :
                 /\ \A i \in 1..(k - 1) : path[i].word \in {"api", "v1", "v2"}
                 /\ k = Len(path) \/ path[k].word \notin {"api", "v1", "v2"}
  IN IF path = <<>> THEN <<>> ELSE SubSeq(path, start, Len(path))

singularizeTitle(seg) == seg.word

\* The first segment that is not a parameter names the resource, wherever it
\* stands; 0 when there is none.
ResourceIndex(segs) == SelectInSeq(segs, LAMBDA s : ~s.dyn)

OnCollection(segs, r) == r # 0 /\ r = Len(segs)
OnMember(segs, r) == r # 0 /\ r + 1 = Len(segs) /\ segs[r + 1].dyn

classifyCRUD(path, http) ==
  LET segs == pathSegments(path)
      r    == ResourceIndex(segs)
      verb == CASE OnCollection(segs, r) /\ http = "GET" -> "List"
                [] OnCollection(segs, r) /\ http = "POST" -> "Create"
                [] OnMember(segs, r) /\ http = "GET" -> "Get"
                [] OnMember(segs, r) /\ http \in {"PUT", "PATCH"} -> "Update"
                [] OnMember(segs, r) /\ http = "DELETE" -> "Delete"
                [] OTHER -> ""
  IN IF verb = "" THEN <<>> ELSE <<verb, singularizeTitle(segs[r])>>

IsTODO(rpc) == rpc.name = <<>>

rpcTypes(name) ==   \* the messages that a method takes and returns
  [request  |-> name \o <<"Request">>,
   response |-> IF name[1] \in {"List", "Delete"} THEN name \o <<"Response">>
                                                 ELSE Tail(name)]

\* The service block: one rpc per distinct method name, then the TODOs.
generateProto(rpcs) ==
  LET names == Distinct(Mapped(SelectSeq(rpcs, LAMBDA p : ~IsTODO(p)),
                               LAMBDA p : p.name))
  IN [methods |-> Mapped(names, LAMBDA n : [name |-> n, types |-> rpcTypes(n)]),
      todos   |-> SelectSeq(rpcs, IsTODO)]

\* What both derivers return for a cluster.
Contract(service, messages, rpcs, modelModules) ==
  [service    |-> service,
   messages   |-> messages,
   block      |-> generateProto(rpcs),
   hasTODO    |-> \E i \in 1..Len(rpcs) : IsTODO(rpcs[i]),
   incomplete |-> modelModules > 0 /\ messages = <<>>]
==============================================================================
