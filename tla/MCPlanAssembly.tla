---------------------------- MODULE MCPlanAssembly ----------------------------
(***************************************************************************)
(* Two migrations over small source trees: two Flask packages that import  *)
(* each other; two packages with one last segment and one that is written  *)
(* with a capital; a Laravel tree with relations, casts and a file that    *)
(* PSR-4 does not find; a tree without a deriver; a tree without clusters. *)
(***************************************************************************)
EXTENDS PlanAssembly

Cap(w) == [word |-> <<w>>, cap |-> TRUE]
N(w) == [words |-> w, camel |-> FALSE]
Table(w) == [stem |-> <<w>>, plural |-> ""]
R(w) == [word |-> w, dyn |-> FALSE]
Dyn == [word |-> "x", dyn |-> TRUE]

\* Service names that share their first two letters: two of them the third as
\* well, and one whose third character is the digit 2.
MCNames == {Seg(w) : w \in {"arts", "arty", "ar2", "users"}}
MCLetters ==
  [n \in MCNames |->
     CASE n = Seg("arts") -> <<"AR", 120>>
       [] n = Seg("arty") -> <<"AR", 120>>
       [] n = Seg("ar2") -> <<"AR", 2>>
       [] OTHER -> <<"US", 105>>]
MCEnding == [w \in {"quiz", "art", "user", "owner"} |->
               IF w = "quiz" THEN "z" ELSE "other"]

Empty == [flask |-> FALSE, laravel |-> FALSE, php |-> FALSE, clusters |-> <<>>,
          edges |-> {}, files |-> <<>>, psr4 |-> <<>>, walk |-> <<>>,
          migrations |-> <<>>, routes |-> <<>>]

-----------------------------------------------------------------------------
(* Flask. *)

Member(n, call, type, ref) == [name |-> N(n), call |-> call, type |-> type, ref |-> ref]
FlaskClass(n, t, ms) == [name |-> <<n>>, sqlalchemy |-> TRUE, table |-> t, members |-> ms]

ArtModels == <<Seg("arts"), Seg("models")>>
UserModels == <<Seg("users"), Seg("models")>>
ArtViews == <<Seg("arts"), Seg("views")>>
FlaskFiles(pkg) ==
  (<<pkg, Seg("models")>> :>
     [classes |-> <<FlaskClass("user", Table("users"),
                      <<Member(<<"id">>, "column", "Integer", NoTable),
                        Member(<<"created", "at">>, "column", "DateTime", NoTable),
                        Member(<<"name">>, "column", "String", NoTable),
                        Member(<<"meta">>, "column", "JSON", NoTable)>>)>>,
      routes |-> <<>>])
  @@ (ArtModels :>
     [classes |-> <<FlaskClass("art", Table("arts"),
                      <<Member(<<"author", "id">>, "reference_col", "", Table("users")),
                        Member(<<"parent", "id">>, "column", "Integer", Table("arts")),
                        Member(<<"author">>, "relationship", "", NoTable)>>)>>,
      routes |-> <<>>])
  @@ (ArtViews :>
     [classes |-> <<>>,
      routes |-> <<[path |-> <<R("api"), R("art")>>, methods |-> <<"GET", "POST">>],
                   [path |-> <<R("art"), Dyn, R("fav")>>, methods |-> <<"POST">>],
                   [path |-> <<R("art")>>, methods |-> <<>>]>>])

FlaskTree ==
  [Empty EXCEPT
     !.flask = TRUE,
     !.clusters = <<[group |-> <<Seg("arts")>>, modules |-> <<ArtModels, ArtViews>>],
                    [group |-> <<Seg("users")>>, modules |-> <<UserModels>>]>>,
     !.edges = {<<ArtViews, UserModels>>, <<UserModels, ArtModels>>},
     !.files = FlaskFiles(Seg("users"))]

\* Two groups that end alike, and a package Ar2: its name is the counter of
\* another one, and the deriver keeps its capital where the pipeline does not.
SameName ==
  [Empty EXCEPT
     !.flask = TRUE,
     !.clusters = <<[group |-> <<Seg("a"), Seg("arts")>>, modules |-> <<ArtModels>>],
                    [group |-> <<Seg("b"), Seg("arts")>>, modules |-> <<ArtViews>>],
                    [group |-> <<Cap("ar2")>>, modules |-> <<<<Cap("ar2"), Seg("models")>>>>]>>,
     !.edges = {<<ArtModels, <<Cap("ar2"), Seg("models")>>>>},
     !.files = FlaskFiles(Cap("ar2"))]

NoDeriver ==
  [Empty EXCEPT
     !.clusters = <<[group |-> <<Seg("arty")>>, modules |-> <<<<Seg("arty"), Seg("models")>>>>]>>]

-----------------------------------------------------------------------------
(* Laravel. *)

Php(n, table, doc, casts, rels) ==
  [name |-> <<n>>, eloquent |-> TRUE, table |-> table, doc |-> doc, casts |-> casts,
   relations |-> rels]
Col(n, t) == [name |-> N(n), type |-> t]
To(method, class) == [method |-> <<method>>, kind |-> "belongsTo", target |-> <<class>>, column |-> <<>>]

ArtFqn == <<<<"shop">>, <<"arts">>, <<"models">>, <<"art">>>>
UserFqn == <<<<"shop">>, <<"users">>, <<"models">>, <<"user">>>>
QuizFqn == <<<<"lib">>, <<"users">>, <<"models">>, <<"quiz">>>>
ArtPath == <<<<"app">>>> \o Tail(ArtFqn)
UserPath == <<<<"app">>>> \o Tail(UserFqn)
QuizPath == <<<<"old">>>> \o Tail(QuizFqn)

Laravel ==
  [Empty EXCEPT
     !.laravel = TRUE, !.php = TRUE,
     !.clusters = <<[group |-> <<<<"shop">>, <<"arts">>>>, modules |-> <<ArtFqn>>],
                    [group |-> <<<<"shop">>, <<"users">>>>, modules |-> <<UserFqn, QuizFqn>>]>>,
     !.edges = {<<ArtFqn, UserFqn>>},
     !.psr4 = <<<<<<<<"shop">>>>, <<"src">>>>, <<<<<<"shop">>>>, <<"app">>>>>>,
     !.walk = <<ArtPath, UserPath, QuizPath>>,
     !.files =
       (ArtPath :> Php("art", NoTable,
          <<Col(<<"owner", "id">>, "int"), Col(<<"quiz", "id">>, "int"),
            Col(<<"tags">>, "Collection"), Col(<<"ref", "id">>, "string")>>,
          (N(<<"draft">>) :> "bool") @@ (N(<<"rank">>) :> "int"),
          <<To("owner", "user"), To("quiz", "quiz")>>))
       @@ (UserPath :> Php("user", Table("people"), <<>>, <<>>, <<>>))
       @@ (QuizPath :> Php("quiz", NoTable, <<Col(<<"title">>, "string")>>, <<>>, <<>>)),
     !.migrations =
       (Table("people") :> <<[name |-> N(<<"id">>), builder |-> "integer"],
                             [name |-> N(<<"deleted", "at">>), builder |-> "timestamp"],
                             [name |-> N(<<"slug">>), builder |-> "unique"]>>),
     !.routes =
       <<[aliases |-> (<<"C">> :> <<<<"shop">>, <<"arts">>, <<"C">>>>),
          routes |-> <<[controller |-> <<<<"C">>>>, http |-> "GET", action |-> "index",
                        path |-> <<R("art")>>],
                       [controller |-> <<<<"C">>>>, http |-> "POST", action |-> "publish",
                        path |-> <<R("art"), Dyn>>]>>]>>]

MCSymmetry == Permutations(Migrations)

MCWorkspaces == {FlaskTree, SameName, NoDeriver, Laravel, Empty}
==============================================================================
