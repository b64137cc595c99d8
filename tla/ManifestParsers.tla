--------------------------- MODULE ManifestParsers ---------------------------
(***************************************************************************)
(* Stages 2 to 3b of the analysis: the languages of a source tree, the     *)
(* dependencies that its manifests declare, and the frameworks that only   *)
(* its directories show.                                                   *)
(*                                                                         *)
(* A name is a record [scope, base, sep, cap]: an npm scope or a Maven     *)
(* group, the words, what joins them, and whether they are capitalised. A  *)
(* version is a sequence of numbers, empty when unknown. A manifest is     *)
(* [valid, entries], an entry [pkg, kind, version, group]:                 *)
(*   kind   "pin", "star" (any version), "ref" (a URL, a path, a tag),     *)
(*          "property" (a build property) or "table"                       *)
(*   group  "prod", "dev", "platform", "meta" or "framework"               *)
(***************************************************************************)
EXTENDS Naturals, FiniteSets, SequencesExt

CONSTANTS
  PkgCatalog,     \* lower-case package name -> display name
  ScopeCatalog,   \* npm scope -> display name
  GroupCatalog,   \* Maven group -> display name
  Languages,      \* the languages, by name
  MaxRequirementsDepth

Name(b) == [scope |-> "", base |-> b, sep |-> "-", cap |-> FALSE]
Title(b) == [Name(b) EXCEPT !.cap = TRUE]
Lower(n) == [n EXCEPT !.cap = FALSE]
NoName == Name("")
NoVersion == <<>>

\* EnryLanguageDetector.Detect: the languages of the files that are neither
\* vendored nor documentation, assets, binary or generated; the one with most
\* files first, by name between equals.
detectLanguages(ws) ==
  LET counted == {i \in DOMAIN ws.files : ~ws.files[i].skipped /\ ws.files[i].lang # ""}
      found   == {ws.files[i].lang : i \in counted}
      files(l) == Cardinality({i \in counted : ws.files[i].lang = l})
      rank(l) == CHOOSE i \in DOMAIN Languages : Languages[i] = l
  IN SetToSortSeq(found, LAMBDA a, b :
       files(a) > files(b) \/ (files(a) = files(b) /\ rank(a) < rank(b)))

-----------------------------------------------------------------------------
(* The framework catalog. *)

frameworkEntryForPkg(p) ==
  IF Lower(p) \in DOMAIN PkgCatalog THEN PkgCatalog[Lower(p)]
  ELSE IF p.scope \in DOMAIN ScopeCatalog THEN ScopeCatalog[p.scope] ELSE NoName

frameworkEntryForMaven(p) ==
  IF p.scope \in DOMAIN GroupCatalog THEN GroupCatalog[p.scope] ELSE NoName

Names == [scope : STRING, base : STRING, sep : STRING, cap : BOOLEAN]
Dependencies ==
  [eco : STRING, pkg : Names, version : Seq(Nat), approx : BOOLEAN, display : Names,
   category : STRING]

Dependency(eco, e, version, approx, display) ==
  [eco |-> eco, pkg |-> e.pkg, version |-> version, approx |-> approx, display |-> display,
   category |-> IF display # NoName \/ e.group = "framework" THEN "framework" ELSE "library"]

-----------------------------------------------------------------------------
(* The parsers. Each gives the set of its possible answers: a failure, or   *)
(* the dependencies in one of the orders in which Go may range over a map.  *)

Parsed(deps) == [ok |-> TRUE, deps |-> deps]
Failed == [ok |-> FALSE, deps |-> <<>>]
Has(ws, file) == file \in DOMAIN ws.manifests

MapFiles ==
  {"package-lock.json", "package.json", "composer.json", "pyproject.toml", "Pipfile",
   "Gemfile.lock"}

\* What a parser reads from a file: a failure, or the entries of some groups.
KeptEntries(ws, file, groups) ==
  LET m == ws.manifests[file]
      answer(s) == Parsed(SelectSeq(s, LAMBDA e : e.group \in groups))
  IN IF ~m.valid THEN {Failed}
     ELSE IF file \in MapFiles THEN {answer(s) : s \in SetToSeqs(ToSet(m.entries))}
     ELSE {answer(m.entries)}

\* The entries become dependencies one by one.
Convert(ws, file, groups, To(_)) ==
  {[a EXCEPT !.deps = [i \in DOMAIN @ |-> To(@[i])]] : a \in KeptEntries(ws, file, groups)}

\* The version in a constraint: the one of its first clause, and none for the
\* kinds that carry no version.
Stripped(e, void) == IF e.kind \in void THEN NoVersion ELSE e.version
stripNpmConstraint(e) == Stripped(e, {"star", "ref"})
stripConstraint(e) == Stripped(e, {"star"})
stripPythonConstraint(e) == Stripped(e, {"star", "table"})
stripRubyConstraint(e) == e.version
nugetVersion(e) == Stripped(e, {"property"})
resolvedVersion(e) == Stripped(e, {"property"})

npmParse(ws) ==
  LET locked(e)   == Dependency("npm", e, e.version, FALSE, frameworkEntryForPkg(e.pkg))
      declared(e) == Dependency("npm", e, stripNpmConstraint(e), TRUE, frameworkEntryForPkg(e.pkg))
  IN IF Has(ws, "package-lock.json") THEN Convert(ws, "package-lock.json", {"prod"}, locked)
     ELSE IF Has(ws, "package.json") THEN Convert(ws, "package.json", {"prod"}, declared)
     ELSE {Parsed(<<>>)}

mavenParse(ws) ==
  LET to(e) == Dependency("Maven", e, resolvedVersion(e), TRUE, frameworkEntryForMaven(e.pkg))
  IN IF Has(ws, "pom.xml") THEN Convert(ws, "pom.xml", {"prod"}, to) ELSE {Parsed(<<>>)}

composerParse(ws) ==
  LET locked(e)   == Dependency("Packagist", e, e.version, FALSE, frameworkEntryForPkg(e.pkg))
      declared(e) == Dependency("Packagist", e, stripConstraint(e), TRUE, frameworkEntryForPkg(e.pkg))
  IN IF Has(ws, "composer.lock") THEN Convert(ws, "composer.lock", {"prod", "framework"}, locked)
     ELSE IF Has(ws, "composer.json") THEN Convert(ws, "composer.json", {"prod", "meta"}, declared)
     ELSE {Parsed(<<>>)}

\* The first project file that names a package wins; a classic configuration
\* is read only without project files.
nugetParse(ws) ==
  LET to(approx, e) ==
        Dependency("NuGet", e, IF approx THEN nugetVersion(e) ELSE e.version, approx, NoName)
      once(s, d) == IF \E i \in DOMAIN s : s[i].pkg = d.pkg THEN s ELSE Append(s, d)
  IN IF Has(ws, "csproj")
     THEN {[a EXCEPT !.deps = FoldLeft(once, <<>>, @)] :
             a \in Convert(ws, "csproj", {"prod", "framework"}, LAMBDA e : to(TRUE, e))}
     ELSE IF Has(ws, "packages.config")
     THEN Convert(ws, "packages.config", {"prod", "framework"}, LAMBDA e : to(FALSE, e))
     ELSE {Parsed(<<>>)}

-----------------------------------------------------------------------------
(* RubyGems. *)

\* The scan of a Gemfile: a line opens a group, ends a block, or names a gem.
\* Blocks other than groups are not counted when they open, but their end is.
ScanGemfile(lines) ==
  LET step(s, l) ==
        IF l.line = "group"
        THEN IF ~s.inDev /\ l.dev
             THEN [s EXCEPT !.depth = @ + 1, !.inDev = TRUE, !.devDepth = s.depth + 1]
             ELSE [s EXCEPT !.depth = @ + 1]
        ELSE IF l.line = "end"
        THEN [s EXCEPT !.inDev = @ /\ s.depth # s.devDepth,
                       !.depth = IF @ > 0 THEN @ - 1 ELSE 0]
        ELSE IF l.line # "gem" THEN s
        ELSE IF s.inDev THEN [s EXCEPT !.dev = @ \cup {l.entry.pkg}]
        ELSE [s EXCEPT !.prod = Append(@, l.entry)]
  IN FoldLeft(step, [depth |-> 0, devDepth |-> 0, inDev |-> FALSE, dev |-> {}, prod |-> <<>>],
              lines)

rubygemsParse(ws) ==
  LET scan   == ScanGemfile(ws.gemfile)
      gem(e, v, approx) == Dependency("RubyGems", e, v, approx, frameworkEntryForPkg(e.pkg))
      isProd(d) == d.pkg \notin scan.dev
  IN IF Has(ws, "Gemfile.lock")
     THEN {[a EXCEPT !.deps = SelectSeq(@, isProd)] :
             a \in Convert(ws, "Gemfile.lock", {"prod"}, LAMBDA e : gem(e, e.version, FALSE))}
     ELSE {Parsed([i \in DOMAIN scan.prod |->
                     gem(scan.prod[i], stripRubyConstraint(scan.prod[i]), TRUE)])}

-----------------------------------------------------------------------------
(* PyPI. *)

normalizePyPIName(p) == [p EXCEPT !.cap = FALSE, !.sep = "-"]

\* What one manifest adds to the ones before it. An entry of the lock file is
\* never overwritten, and a version only where there was none.
mergePyPIDeps(existing, incoming) ==
  LET merge(s, inc) ==
        LET i == SelectInSeq(s, LAMBDA d : normalizePyPIName(d.pkg) = normalizePyPIName(inc.pkg))
        IN IF i = 0 THEN Append(s, inc)
           ELSE IF /\ s[i].approx
                   /\ inc.version # NoVersion
                   /\ s[i].version = NoVersion \/ ~inc.approx
           THEN [s EXCEPT ![i].version = inc.version, ![i].approx = inc.approx]
           ELSE s
  IN FoldLeft(merge, existing, incoming)

\* The dependencies of a requirements file and of the files it includes; a
\* file is read once, a missing one is skipped.
parseRequirementsTxtInner(ws) ==
  LET declared(l) == Dependency("PyPI", l.entry, stripPythonConstraint(l.entry), TRUE,
                                frameworkEntryForPkg(l.entry.pkg))
      read[file \in STRING, depth \in Nat, acc \in [deps : Seq(Dependencies), seen : SUBSET STRING]] ==
        LET line(a, l) ==
              IF l.include # "" THEN read[l.include, depth + 1, a]
              ELSE [a EXCEPT !.deps = Append(@, declared(l))]
            seen == [acc EXCEPT !.seen = @ \cup {file}]
        IN IF depth > MaxRequirementsDepth \/ file \in acc.seen THEN acc
           ELSE IF file \notin DOMAIN ws.requirements THEN seen
           ELSE FoldLeft(line, seen, ws.requirements[file])
  IN read["requirements.txt", 0, [deps |-> <<>>, seen |-> {}]]

parseRequirementsTxt(ws) == parseRequirementsTxtInner(ws).deps

pypiParse(ws) ==
  LET locked(e)   == Dependency("PyPI", e, e.version, FALSE, frameworkEntryForPkg(e.pkg))
      declared(e) == Dependency("PyPI", e, stripPythonConstraint(e), TRUE, frameworkEntryForPkg(e.pkg))
      read(file, To(_)) ==
        IF Has(ws, file) THEN Convert(ws, file, {"prod"}, To) ELSE {Parsed(<<>>)}
  IN {IF ~(l.ok /\ p.ok /\ f.ok) THEN Failed
      ELSE Parsed(FoldLeft(mergePyPIDeps, <<>>,
                           <<l.deps, p.deps, f.deps, parseRequirementsTxt(ws)>>)) :
        l \in read("poetry.lock", locked), p \in read("pyproject.toml", declared),
        f \in read("Pipfile", declared)}

\* Stage 3: every parser in the order of their registration; the first failure
\* fails the job.
parseManifests(ws) ==
  {IF \E i \in DOMAIN a : ~a[i].ok THEN Failed
   ELSE Parsed(FlattenSeq([i \in DOMAIN a |-> a[i].deps])) :
     a \in npmParse(ws) \X mavenParse(ws) \X composerParse(ws) \X pypiParse(ws)
             \X nugetParse(ws) \X rubygemsParse(ws)}

-----------------------------------------------------------------------------
(* Technologies. *)

Technology(name, version, category) ==
  [name |-> name, detected |-> version, category |-> category, latest |-> NoVersion,
   status |-> "unspecified"]

manifestTechnologies(deps) ==
  [i \in DOMAIN deps |->
     Technology(IF deps[i].display # NoName THEN deps[i].display ELSE deps[i].pkg,
                deps[i].version, deps[i].category)]

\* An entry of the same name and category only fills what is still unknown.
MergeTechnologies(existing, incoming) ==
  LET merge(s, t) ==
        LET i == SelectLastInSeq(s, LAMBDA e : e.name = t.name /\ e.category = t.category)
            orElse(old, none, new) == IF old = none THEN new ELSE old
        IN IF i = 0 THEN Append(s, t)
           ELSE [s EXCEPT ![i].detected = orElse(@, NoVersion, t.detected),
                          ![i].latest = orElse(@, NoVersion, t.latest),
                          ![i].status = orElse(@, "unspecified", t.status)]
  IN FoldLeft(merge, existing, incoming)

frameworkRules ==
  <<[display |-> Title("codeigniter"), version |-> <<3>>,
     required |-> {"system/core/CodeIgniter.php", "application/"}],
    [display |-> Title("codeigniter"), version |-> <<4>>, required |-> {"spark", "app/"}],
    [display |-> Title("laravel"), version |-> NoVersion, required |-> {"artisan", "app/Http/"}],
    [display |-> Title("symfony"), version |-> NoVersion,
     required |-> {"bin/console", "src/Kernel.php"}],
    [display |-> Title("symfony"), version |-> NoVersion,
     required |-> {"bin/console", "config/bundles.php"}]>>

\* The Composer packages, by vendor and name, that stand for one of them.
composerEquivalents ==
  {<<"laravel", "framework", "laravel">>, <<"symfony", "symfony", "symfony">>,
   <<"symfony", "framework-bundle", "symfony">>, <<"codeigniter4", "framework", "codeigniter">>,
   <<"codeigniter", "framework", "codeigniter">>}

coversByManifest(techs, display) ==
  \E i \in DOMAIN techs :
    LET name == Lower(techs[i].name)
    IN /\ techs[i].category = "framework"
       /\ \/ name = Lower(display)
          \/ <<name.scope, name.base, display.base>> \in composerEquivalents

\* FileSystemFrameworkDetector.Detect: the frameworks that the tree's files
\* show and the manifests do not name, each by its first matching rule.
detectFrameworks(ws, techs) ==
  LET rule(found, r) ==
        IF \/ \E i \in DOMAIN found : found[i].name = r.display
           \/ coversByManifest(techs, r.display)
           \/ ~(r.required \subseteq ws.paths)
        THEN found
        ELSE Append(found, Technology(r.display, r.version, "framework"))
  IN FoldLeft(rule, <<>>, frameworkRules)

inventoryTechnologies(langs) ==
  [i \in DOMAIN langs |-> Technology(Title(langs[i]), NoVersion, "language")]

\* The technologies after stages 2 to 3b.
Inventory(ws, deps) ==
  LET parsed == MergeTechnologies(inventoryTechnologies(detectLanguages(ws)),
                                  manifestTechnologies(deps))
  IN MergeTechnologies(parsed, detectFrameworks(ws, parsed))
==============================================================================
