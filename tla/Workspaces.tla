----------------------------- MODULE Workspaces -----------------------------
(***************************************************************************)
(* The members of a workspace and the graph between them                   *)
(* (src/workspace.rs).  A name is the sequence of its dashed parts, so     *)
(* that `core-2` is both a directory's own name and the second `core`; a   *)
(* path is a sequence of names, and PathOrder lists the paths of the       *)
(* instance the way their text sorts.                                      *)
(***************************************************************************)
EXTENDS Integers, SequencesExt, FiniteSetsExt, Inputs

MemberTypes == {"rails-app", "ruby-engine", "ruby-gem", "typescript", "javascript", "store-only"}
\* The type a manifest's text names, if it names one.
ParseMemberType(text) == IF text \in MemberTypes THEN {text} ELSE {}

\* A directory: its gemspec's and package.json's lines (no file: "none"), the marker
\* files it has, and its Gemfile's lines.  package.json may be no JSON.
NoLines == <<[says |-> "none", lit |-> <<>>]>>
IsFile(f) == f # NoLines
Bare == [gemspec |-> NoLines, gemfile |-> NoLines, package |-> NoLines, marks |-> {}]

Ignored == {<<"node_modules">>, <<".git">>}
IsIgnoredDirname(name) == name \in Ignored
ChildDirs(tree, dir) == {d \in DOMAIN tree : Len(d) = Len(dir) + 1 /\ IsPrefix(dir, d) /\ ~ IsIgnoredDirname(Last(d))}

FirstSaying(lines, word) ==
  LET said == SelectSeq(lines, LAMBDA l : l.says = word /\ l.lit # <<>>) IN IF said = <<>> THEN <<>> ELSE said[1].lit
\* The name a gemspec sets with a literal, or the name of its file (here: the directory's).
GemName(dir, spec) == LET n == FirstSaying(spec, "name") IN IF n = <<>> THEN Last(dir) ELSE n
IsJson(f) == \A i \in DOMAIN f : f[i].says # "garbage"
PackageName(dir, f) == IF ~ IsJson(f) \/ FirstSaying(f, "name") = <<>> THEN Last(dir) ELSE FirstSaying(f, "name")
\* What a directory is, if it is a member at all: <<type, package>>.
Classify(tree, dir) ==
  LET d == tree[dir]
  IN IF IsFile(d.gemspec)
     THEN {<<IF d.marks \cap {"app", "config/routes.rb", "engine.rb"} # {} THEN "ruby-engine" ELSE "ruby-gem", GemName(dir, d.gemspec)>>}
     ELSE IF IsFile(d.gemfile) /\ "config/application.rb" \in d.marks THEN {<<"rails-app", Last(dir)>>}
     ELSE IF IsFile(d.package)
     THEN {<<IF "tsconfig.json" \in d.marks THEN "typescript" ELSE "javascript", PackageName(dir, d.package)>>}
     ELSE {}

\* The members at and below a directory: below a member there is none.
RECURSIVE DetectSubtree(_, _)
DetectSubtree(tree, dir) ==
  IF Classify(tree, dir) # {} THEN {dir} ELSE UNION {DetectSubtree(tree, c) : c \in ChildDirs(tree, dir)}

\* The first of two directories of one name keeps it; the second is numbered from 2, past
\* the names taken and past those other directories have.
AnyNumber(base, used, reserved) ==
  Append(base, CHOOSE n \in 2..(Cardinality(used) + 2) : Append(base, n) \notin used /\ \A k \in 2..(n - 1) : Append(base, k) \in used)
NextNumber(base, used, reserved) ==
  Append(base, CHOOSE n \in 2..(Cardinality(used) + Cardinality(reserved) + 2) :
                 /\ Append(base, n) \notin used \cup reserved
                 /\ \A k \in 2..(n - 1) : Append(base, k) \in used \cup reserved)
UniqueName(base, used, reserved) == IF base \notin used THEN base ELSE NextNumber(base, used, reserved)
AddMember(ms, tree, d, reserved) ==
  ms \o SetToSeq({[name |-> UniqueName(Last(d), {ms[i].name : i \in DOMAIN ms}, reserved), path |-> d, type |-> c[1], package |-> c[2]] :
                    c \in Classify(tree, d)})
MembersAt(tree, found, order) ==
  LET reserved == {Last(d) : d \in found}
  IN FoldLeft(LAMBDA ms, d : AddMember(ms, tree, d, reserved), <<>>, SelectSeq(order, LAMBDA d : d \in found))
\* The root is a member only when there is none below it.
OrRoot(tree, root, below) == IF below # {} THEN below ELSE IF Classify(tree, root) # {} THEN {root} ELSE {}
DetectMembers(tree, root, order) ==
  MembersAt(tree, OrRoot(tree, root, UNION {DetectSubtree(tree, c) : c \in ChildDirs(tree, root)}), order)
BuildManifest(tree, root, order) == [version |-> 1, name |-> Last(root), members |-> DetectMembers(tree, root, order)]

\* workspace.yml: the members' types are text there; loading sorts by path and refuses a
\* type it does not know.
ToYaml(m) == [yaml |-> TRUE, version |-> 1, name |-> m.name, members |-> m.members]
FromYaml(text, order) ==
  IF ~ text.yaml \/ \E i \in DOMAIN text.members : ParseMemberType(text.members[i].type) = {} THEN [ok |-> FALSE]
  ELSE [ok |-> TRUE, manifest |-> [version |-> text.version, name |-> text.name,
          members |-> FoldLeft(LAMBDA out, d : out \o SelectSeq(text.members, LAMBDA m : m.path = d), <<>>, order)]]

-----------------------------------------------------------------------------
(* The dependency graph.                                                   *)

Literals(lines, word) == [i \in DOMAIN SelectSeq(lines, LAMBDA l : l.says = word /\ l.lit # <<>>) |->
                            SelectSeq(lines, LAMBDA l : l.says = word /\ l.lit # <<>>)[i].lit]
DepsFromGemspec(lines) == ToSet(Literals(lines, "add_dependency"))
DepsFromGemfile(lines) == ToSet(Literals(lines, "gem"))
DepsFromPackageJson(f) == IF IsJson(f) THEN ToSet(Literals(f, "dependency")) ELSE {}
MemberDeclaredDeps(d) ==
     {<<n, "gemspec">> : n \in IF IsFile(d.gemspec) THEN DepsFromGemspec(d.gemspec) ELSE {}}
  \cup {<<n, "gemfile">> : n \in IF IsFile(d.gemfile) THEN DepsFromGemfile(d.gemfile) ELSE {}}
  \cup {<<n, "package.json">> : n \in IF IsFile(d.package) THEN DepsFromPackageJson(d.package) ELSE {}}
\* The first member a name means: by its package or by its own name.
Resolves(m, dep) == m.package = dep \/ m.name = dep
ResolveDep(members, dep) ==
  LET hits == SelectSeq(members, LAMBDA m : Resolves(m, dep)) IN IF hits = <<>> THEN {} ELSE {hits[1].name}
GraphOf(tree, ms) ==
  [members |-> [i \in DOMAIN ms |-> ms[i].name],
   edges |-> UNION {UNION {{[from |-> m.name, to |-> t, via |-> dep[2]] : t \in ResolveDep(ms, dep[1]) \ {m.name}} :
                           dep \in MemberDeclaredDeps(tree[m.path])} : m \in ToSet(ms)}]
BuildGraph(tree, manifest) == GraphOf(tree, manifest.members)
\* The graph on disk: written whole; a file that does not read is a workspace without edges.
LoadOrEmpty(file, manifest) ==
  LET names == [i \in DOMAIN manifest.members |-> manifest.members[i].name]
  IN IF ~ file.json THEN [members |-> names, edges |-> {}]
     ELSE [members |-> IF file.graph.members = <<>> THEN names ELSE file.graph.members, edges |-> file.graph.edges]
TargetsFrom(graph, from) == {e.to : e \in {x \in graph.edges : x.from = from}}

\* Detected members are told apart by name and by place: no two share a name, no member
\* lies in another, a directory whose name nobody sorted before it has keeps that name
\* (even against a number given to another), and no classifiable directory outside the
\* ignored ones is left out.
MembersToldApart ==
  For("tree") => \A ms \in {DetectMembers(input.tree, input.root, input.order)} :
    /\ \A i, j \in DOMAIN ms : i # j => ms[i].name # ms[j].name /\ ~ IsPrefix(ms[i].path, ms[j].path)
    /\ \A i \in DOMAIN ms : (\A j \in 1..(i - 1) : Last(ms[j].path) # Last(ms[i].path)) => ms[i].name = Last(ms[i].path)
    /\ \A d \in DOMAIN input.tree \ {input.root} :
         Classify(input.tree, d) # {} => \/ \E k \in (Len(input.root) + 1)..Len(d) : IsIgnoredDirname(d[k])
                                         \/ \E m \in ToSet(ms) : IsPrefix(m.path, d)
\* The graph joins members only and never one to itself; a declared dependency that can
\* mean one member only is an edge to it; and what a search follows after a save is what
\* was built, while a graph file cut short leaves the workspace whole without edges.
MeansOnly(dep, m, ms) == {x \in ToSet(ms) : dep \in {x.package, x.name}} = {m}
JoinsMembers(mf, ms, g) ==
  /\ \A e \in g.edges : e.from # e.to /\ {e.from, e.to} \subseteq {m.name : m \in ToSet(ms)}
  /\ \A a, b \in ToSet(ms) : a # b =>
       \A dep \in MemberDeclaredDeps(input.tree[a.path]) : MeansOnly(dep[1], b, ms) => b.name \in TargetsFrom(g, a.name)
  /\ LoadOrEmpty([json |-> TRUE, graph |-> g], mf) = g
  /\ LoadOrEmpty([json |-> FALSE], mf) = [members |-> g.members, edges |-> {}]
GraphJoinsMembers ==
  For("tree") => \A mf \in {BuildManifest(input.tree, input.root, input.order)} :
    JoinsMembers(mf, mf.members, BuildGraph(input.tree, mf))
\* A manifest that cce writes, cce reads: with the members `pull --all` adds (which have a
\* store and no sources) as well as the detected ones, in the order of their paths.
Pulled == [name |-> <<"pulled">>, path |-> <<<<"r">>, <<"zz">>>>, type |-> "store-only", package |-> <<"pulled">>]
ManifestReadsBack ==
  For("tree") =>
    \A all \in {[BuildManifest(input.tree, input.root, input.order) EXCEPT !.members = Append(@, Pulled)]} :
      FromYaml(ToYaml(all), Append(input.order, Pulled.path)) = [ok |-> TRUE, manifest |-> all]

\* Directories of the instance: two `core`, one `core-2`, one above another, an ignored one.
Line(says, lit) == [says |-> says, lit |-> lit]
Core == <<"core">>
Core2 == <<"core", 2>>
Shapes == {Bare,
           [Bare EXCEPT !.gemspec = <<Line("name", <<>>), Line("add_dependency", Core2)>>],
           [Bare EXCEPT !.gemspec = <<Line("name", <<"p">>), Line("add_dependency", <<"q">>)>>, !.marks = {"engine.rb"}],
           [Bare EXCEPT !.gemfile = <<Line("gem", <<"p">>), Line("gem", Core)>>, !.marks = {"config/application.rb"}],
           [Bare EXCEPT !.package = <<Line("name", <<"q">>), Line("dependency", <<"p">>)>>, !.marks = {"tsconfig.json"}],
           [Bare EXCEPT !.package = <<Line("garbage", <<>>), Line("dependency", Core)>>]}
TreeInputs ==
  LET r == <<"r">>
      at(d) == <<r>> \o d
      shaped == {at(<<<<"a">>, Core>>), at(<<<<"b">>, Core>>), at(<<Core>>), at(<<Core2>>)}
      fixed == {<<r>>, at(<<<<"a">>>>), at(<<<<"b">>>>), at(<<Core, <<"sub">>>>), at(<<<<"node_modules">>>>), at(<<<<"node_modules">>, <<"x">>>>)}
      js == [Bare EXCEPT !.package = <<Line("name", <<"x">>)>>]
      order == <<<<r>>, at(<<<<"a">>>>), at(<<<<"a">>, Core>>), at(<<<<"b">>>>), at(<<<<"b">>, Core>>), at(<<Core>>), at(<<Core2>>),
                 at(<<Core, <<"sub">>>>), at(<<<<"node_modules">>>>), at(<<<<"node_modules">>, <<"x">>>>)>>
  IN {[of |-> "tree", root |-> <<r>>, order |-> order,
       tree |-> [d \in shaped \cup fixed |-> IF d \in shaped THEN s[d]
                                            ELSE IF Len(d) = 3 \/ (d = <<r>> /\ top) THEN js ELSE Bare]] :
        s \in [shaped -> Shapes], top \in BOOLEAN}

\* A workspace written and read back has the members it had, each under a name of its own, and
\* edges between them only.
WorkspaceSound == MembersToldApart /\ GraphJoinsMembers /\ ManifestReadsBack
=============================================================================
