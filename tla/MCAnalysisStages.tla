-------------------------- MODULE MCAnalysisStages ---------------------------
(***************************************************************************)
(* Source trees for AnalysisStages: four that share packages across jobs   *)
(* and registries, one for each of the other manifests, and a family of    *)
(* Python and PHP trees that are analysed alone.                           *)
(***************************************************************************)
EXTENDS AnalysisStages

CONSTANTS j1, j2

MCPkgCatalog == Name("react") :> Title("react") @@ Name("laravel") :> Title("laravel")
                  @@ Name("flask") :> Title("flask")
MCScopeCatalog == "angular" :> Title("angular")
MCGroupCatalog == "spring" :> Title("spring")
MCLanguages == <<"csharp", "java", "javascript", "php", "python", "ruby">>
MCEntryPoints == {"app", "main"}
MCLowerOf == "User" :> "user" @@ "Cart" :> "cart" @@ "Cart_test" :> "cart_test"
               @@ "Tests" :> "tests"
MCCIBases == {"CI_Model"}
MCTestNames == {"tests", "test", "spec", "cart_test", "test_user"}
MCSuffixEntrypoints == {"AppServiceProvider"}

\* Modules by their last part, as stage 6c finds them.
MCLayer(m) ==
  IF isTestModuleByName(m) THEN "test"
  ELSE IF Last(m) \in {"routes", "Kernel", "Carts"} THEN "application"
  ELSE IF Last(m) \in {"db"} THEN "infra" ELSE "domain"

-----------------------------------------------------------------------------
(* Manifests. *)

E(p, kind, v, group) == [pkg |-> p, kind |-> kind, version |-> v, group |-> group]
M(es) == [valid |-> TRUE, entries |-> es]

NoTree ==
  [files |-> <<>>, manifests |-> <<>>, gemfile |-> <<>>, requirements |-> <<>>, paths |-> {},
   py |-> <<>>, php |-> <<>>, composer |-> [present |-> FALSE, valid |-> FALSE, psr4 |-> {}],
   autoload |-> {}]

Source(l, n) == [i \in 1 .. n |-> [lang |-> l, skipped |-> FALSE]]

-----------------------------------------------------------------------------
(* Python trees. *)

Import(m, as) == [from |-> FALSE, level |-> 0, module |-> <<>>, items |-> <<[name |-> m, alias |-> as]>>]
From(level, m, ns) ==
  [from |-> TRUE, level |-> level, module |-> m,
   items |-> [i \in DOMAIN ns |-> [name |-> <<ns[i]>>, alias |-> <<>>]]]

PyFile(path, stmts, code, state) ==
  [path |-> path, init |-> FALSE, stmts |-> stmts, defs |-> <<>>, regs |-> <<>>, code |-> code,
   state |-> state]
PyInit(path, stmts) == [PyFile(path, stmts, FALSE, FALSE) EXCEPT !.init = TRUE]

\* The files to choose from, in the order of a walk.
PyPool ==
  <<PyInit(<<"app">>, <<>>),
    [PyFile(<<"app", "main">>, <<From(0, <<"models">>, <<"user">>), From(0, <<"db">>, <<"session">>)>>,
            TRUE, TRUE) EXCEPT !.defs = <<<<"bp", "users">>>>, !.regs = <<<<"bp", "/users">>>>],
    PyFile(<<"app", "models", "user">>, <<From(1, <<>>, <<"cart">>), From(2, <<>>, <<"db">>)>>, TRUE, FALSE),
    PyInit(<<"app", "routes">>, <<From(0, <<"app", "models">>, <<"user">>)>>),
    PyFile(<<"app", "db">>, <<>>, TRUE, TRUE),
    PyFile(<<"lib", "db">>, <<Import(<<"src", "core", "main">>, <<>>)>>, TRUE, FALSE),
    PyFile(<<"lib", "models", "user">>, <<Import(<<"app", "db">>, <<"d">>)>>, TRUE, FALSE),
    PyFile(<<"src", "core", "main">>, <<From(0, <<"db">>, <<"session">>), Import(<<"os">>, <<>>)>>, TRUE, FALSE),
    PyFile(<<"tests", "test_user">>, <<From(0, <<"app">>, <<"db">>)>>, TRUE, FALSE)>>

\* A tree leaves out up to two of the files.
LeftOut == {{a, b} : a, b \in 1 .. Len(PyPool)} \cup {{}}

PyTree(out) == [NoTree EXCEPT !.files = Source("python", 1),
  !.py = SelectSeq(PyPool, LAMBDA f : \A i \in out : PyPool[i] # f)]

-----------------------------------------------------------------------------
(* PHP trees. *)

Ns(n) == [decl |-> "namespace", name |-> n]
Use(prefix, cs) == [decl |-> "use", classes |-> TRUE, prefix |-> prefix, clauses |-> cs]
UseFunction(n) == [decl |-> "use", classes |-> FALSE, prefix |-> <<>>, clauses |-> <<[name |-> n, alias |-> ""]>>]
Clause(n, a) == [name |-> n, alias |-> a]
Type(kind, name, extends, refs, static) ==
  [decl |-> kind, name |-> name, extends |-> extends,
   refs |-> refs, methods |-> {"run"}, props |-> {[name |-> "p", static |-> static]}]
Ref(n) == [name |-> n, full |-> FALSE]
FullRef(n) == [name |-> n, full |-> TRUE]
Php(path, decls) == [path |-> path, decls |-> decls, loads |-> {}]

Psr4Files ==
  <<Php(<<"app", "Http", "Kernel">>,
        <<Ns(<<"App", "Http">>), Use(<<"App">>, <<Clause(<<"User">>, "U"), Clause(<<"Gone">>, "")>>),
          UseFunction(<<"App", "help">>), Type("class", "Kernel", {}, {Ref(<<"U">>), Ref(<<"self">>)}, FALSE)>>),
    Php(<<"app", "User">>,
        <<Ns(<<"App">>), Use(<<>>, <<Clause(<<"App">>, ""), Clause(<<"Vendor", "Thing">>, "")>>),
          Type("class", "User", {}, {Ref(<<"Cart">>), FullRef(<<"App", "Http", "Kernel">>)}, TRUE)>>),
    Php(<<"app", "Cart">>, <<Ns(<<"App">>), Type("class", "Cart", {}, {Ref(<<"User">>)}, FALSE)>>),
    Php(<<"app", "Providers", "AppServiceProvider">>,
        <<Ns(<<"App", "Providers">>), Type("class", "AppServiceProvider", {}, {}, FALSE)>>),
    Php(<<"app", "Orphan">>, <<Ns(<<"App">>), Type("interface", "Orphan", {}, {}, FALSE)>>),
    Php(<<"app", "Tests", "User">>, <<Ns(<<"App", "Tests">>), Type("class", "User", {}, {}, FALSE)>>),
    Php(<<"vendor", "lib", "Thing">>, <<Ns(<<"Vendor">>), Type("class", "Thing", {}, {}, FALSE)>>),
    Php(<<"app", "helpers">>, <<Ns(<<"App", "Support">>)>>)>>

App(path, d, loads) == [path |-> <<"application">> \o path, decls |-> <<d>>, loads |-> loads]
Load(k, n) == [kind |-> k, name |-> n]

CI3Files ==
  <<App(<<"controllers", "Carts">>, Type("class", "Carts", {"MY_Controller"}, {}, FALSE),
        {Load("model", <<"cart">>), Load("library", <<"user">>), Load("model", <<"sub", "cart">>)}),
    App(<<"controllers", "Users">>, Type("class", "Users", {"MY_Controller"}, {}, FALSE),
        {Load("model", <<"cart">>)}),
    App(<<"core", "MY_Controller">>, Type("class", "MY_Controller", {"CI_Model"}, {}, FALSE), {}),
    App(<<"libraries", "User">>, Type("class", "User", {}, {}, TRUE), {}),
    App(<<"models", "Cart">>, Type("class", "Cart", {"CI_Model"}, {}, FALSE), {}),
    App(<<"models", "Cart_test">>, Type("class", "Cart_test", {}, {}, FALSE), {}),
    App(<<"models", "Lone">>, Type("class", "Lone", {}, {}, FALSE), {}),
    [path |-> <<"system", "core", "CodeIgniter">>, decls |-> <<>>, loads |-> {}]>>

-----------------------------------------------------------------------------
(* The trees. *)

redis == Name("redis")

Shop == [NoTree EXCEPT !.files = Source("javascript", 3),
  !.manifests = "package.json" :> M(<<E(redis, "pin", <<2, 0>>, "prod"),
                                      E(Name("jest"), "pin", <<1>>, "dev")>>)]

Back == [NoTree EXCEPT !.files = Source("javascript", 1),
  !.manifests = "package-lock.json" :> M(<<E(redis, "pin", <<2, 0>>, "prod")>>),
  !.requirements = "requirements.txt" :> <<[include |-> "base.txt"],
                                          [include |-> "", entry |-> E(redis, "pin", <<3>>, "prod")]>>
                     @@ "base.txt" :> <<[include |-> "requirements.txt"], [include |-> "missing.txt"]>>]

Admin == [NoTree EXCEPT !.files = Source("php", 4) \o Source("javascript", 5), !.php = Psr4Files,
  !.composer = [present |-> TRUE, valid |-> TRUE, psr4 |-> {<<"App">>}],
  !.manifests = "composer.json" :> M(<<E(Name("laravel"), "star", <<2>>, "prod"), E(Name("react"), "pin", <<1>>, "prod"),
                                       E(Name("php"), "pin", <<8>>, "platform")>>)]

Legacy == [NoTree EXCEPT !.files = Source("php", 4), !.php = CI3Files, !.autoload = {"user", "none"},
  !.paths = {"system/core/CodeIgniter.php", "application/"},
  !.gemfile = <<[line |-> "group", dev |-> TRUE], [line |-> "gem", entry |-> E(redis, "pin", <<1>>, "prod")],
                [line |-> "end"], [line |-> "gem", entry |-> E(Name("rails"), "pin", <<6>>, "prod")]>>]

Broken == [NoTree EXCEPT !.manifests = "composer.json" :> [valid |-> FALSE, entries |-> <<>>],
                         !.composer = [present |-> TRUE, valid |-> FALSE, psr4 |-> {}]]

Mixed == [NoTree EXCEPT !.files = Source("java", 1) \o Source("csharp", 1) \o <<[lang |-> "ruby", skipped |-> TRUE]>>,
  !.paths = {"artisan", "app/Http/"},
  !.manifests = "pom.xml" :> M(<<E([Name("boot") EXCEPT !.scope = "spring"], "property", <<9>>, "prod")>>)
    @@ "csproj" :> M(<<E(redis, "pin", <<1, 2, 3, 4, 5>>, "prod"), E(redis, "pin", <<1>>, "prod")>>)
    @@ "pyproject.toml" :> M(<<E(Name("flask"), "pin", NoVersion, "prod")>>)
    @@ "poetry.lock" :> M(<<E(Title("flask"), "pin", <<2, 1>>, "prod")>>)]

Angular == [NoTree EXCEPT !.manifests = "package-lock.json" :>
  M(<<E([Name("core") EXCEPT !.scope = "angular"], "pin", <<1>>, "prod"),
      E([Name("cli") EXCEPT !.scope = "angular"], "pin", <<3>>, "prod")>>)]

T(name) == <<name, {}>>

MCWorkspaces ==
  T("shop") :> Shop @@ T("back") :> Back @@ T("admin") :> Admin @@ T("legacy") :> Legacy @@ T("broken") :> Broken
    @@ T("mixed") :> Mixed @@ T("angular") :> Angular
    @@ [t \in {"py"} \X LeftOut |-> PyTree(t[2])]

Pair(a, b) == j1 :> T(a) @@ j2 :> T(b)

MCAssignments ==
  {Pair("shop", "back"), Pair("admin", "broken"), Pair("legacy", "angular"), j1 :> T("mixed")}
    \cup {j1 :> t : t \in {"py"} \X LeftOut}

-----------------------------------------------------------------------------
(* The registries and OSV. *)

MCInitialRegistry ==
  <<"npm", Name("react")>> :> <<1, 2>> @@ <<"npm", redis>> :> <<2>> @@ <<"PyPI", redis>> :> <<4>>
    @@ <<"Packagist", Name("laravel")>> :> <<3>> @@ <<"RubyGems", Name("rails")>> :> <<6, 0, 0>>
    @@ <<"NuGet", redis>> :> <<1, 2, 3, 4>> @@ <<"PyPI", Title("flask")>> :> <<2, 0>>
MCReleases == {<<<<"npm", redis>>, <<2, 1>>>>}

CVE(n) == [cve |-> TRUE, name |-> n]
Adv(id, aliases, scores, fixed) ==
  [id |-> id, aliases |-> aliases, ranges |-> <<[type |-> "GIT", fixed |-> <<1>>],
                                               [type |-> "ECOSYSTEM", fixed |-> fixed]>>,
   severities |-> [i \in DOMAIN scores |-> [type |-> "CVSS_V3", score |-> scores[i]]]]
MCInitialAdvisories ==
  <<"npm", redis, <<2, 0>>>> :> {Adv("g1", <<[cve |-> FALSE, name |-> "p"], CVE("c1")>>, <<98>>, <<2>>)}
    @@ <<"PyPI", redis, <<3>>>> :> {Adv("g2", <<>>, <<>>, NoVersion)}
MCDisclosures == {<<<<"npm", redis, <<2, 0>>>>, Adv("g3", <<>>, <<0>>, <<3>>)>>}

ASSUME MCManifestsAssumption == ManifestsGiveDependencies
ASSUME MCCardsAssumption == AnalyzersGiveLists
==============================================================================
