-------------------------------- MODULE Lint --------------------------------
(***************************************************************************)
(* The design linter.  A request asks one of its parts:                    *)
(*   - what is production code: the meaning of cfg attributes in three     *)
(*     truth values, the test scope of files along module declarations,    *)
(*     and the production lines of a file;                                 *)
(*   - the dependency rule: which Cargo manifests a scan loads, the        *)
(*     package graph they give, and the findings about the layers of the   *)
(*     policy and about cycles (a directory stands for the package it      *)
(*     holds; the workspace manifest is above all of them);                *)
(*   - a whole run, from the command line to the exit code: the policy is  *)
(*     loaded and validated, the registry selects the rules, the source's  *)
(*     exceptions excuse findings of adopted rules, and the findings are   *)
(*     reported once the analysis is complete.                             *)
(***************************************************************************)
EXTENDS Integers, Sequences, FiniteSets, SequencesExt, Graphs

CONSTANTS
    Flags,       \* cfg options the linter does not know, such as features
    Dir,         \* package directories, numbered in the order of their names
    Place,       \* Place[d]: the components of d's path below the checkout
    Catalog,     \* standard_rules: a sequence of [id, severity, adopted]
    Default,     \* Policy::default
    Unreadable,  \* a policy file that cannot be read or parsed
    None         \* no answer yet

VARIABLES ask, answer

-----------------------------------------------------------------------------
\* Truth

And(a, b) == IF "False" \in {a, b} THEN "False" ELSE IF a = "True" /\ b = "True" THEN "True" ELSE "Unknown"
Or(a, b) == IF "True" \in {a, b} THEN "True" ELSE IF a = "False" /\ b = "False" THEN "False" ELSE "Unknown"

Not(a) == CASE a = "True" -> "False" [] a = "False" -> "True" [] OTHER -> "Unknown"
Truth(value) == IF value THEN "True" ELSE "False"

\* A predicate is an option, or a list of predicates under all, any or not.
RECURSIVE evaluate(_, _)
evaluate(p, testing) ==
    CASE p.op = "test" -> Truth(testing)
      [] p.op = "all"  -> FoldLeft(LAMBDA v, q : And(v, evaluate(q, testing)), "True", p.of)
      [] p.op = "any"  -> FoldLeft(LAMBDA v, q : Or(v, evaluate(q, testing)), "False", p.of)
      [] p.op = "not" /\ Len(p.of) = 1 -> Not(evaluate(p.of[1], testing))
      [] OTHER -> "Unknown"

\* Attributes: #[test], #[cfg(p)] and others.
test_only(attributes) ==
    LET predicates == SelectSeq(attributes, LAMBDA a : a.name = "cfg")
        Value(testing) == FoldLeft(LAMBDA v, a : And(v, evaluate(a.value, testing)), "True", predicates)
    IN  \/ \E i \in DOMAIN attributes : attributes[i].name = "test"
        \/ predicates # <<>> /\ Value(FALSE) = "False" /\ Value(TRUE) # "False"

-----------------------------------------------------------------------------
\* Files: 1..Len(test), with declarations <<from, to, under a test attribute>>.

Onward(edges, index, testing) == {<<e[2], testing \/ e[3]>> : e \in {e \in edges : e[1] = index}}

\* The walk of classify; which pending entry comes first does not matter.
RECURSIVE Walk(_, _, _, _)
Walk(edges, test, pending, reached) ==
    IF pending = {} THEN reached
    ELSE LET next == CHOOSE n \in pending : TRUE
             at == <<next[1], next[2] \/ test[next[1]]>>
         IN  IF at \in reached THEN Walk(edges, test, pending \ {next}, reached)
             ELSE Walk(edges, test, (pending \ {next}) \cup Onward(edges, at[1], at[2]), reached \cup {at})

classify(edges, test) ==
    LET incoming == {e[2] : e \in edges}
        roots == {i \in DOMAIN test : i \notin incoming \/ test[i]}
        reached == Walk(edges, test, {<<i, test[i]>> : i \in roots}, {})
    IN  [i \in DOMAIN test |-> test[i] \/ (<<i, TRUE>> \in reached /\ <<i, FALSE>> \notin reached)]

-----------------------------------------------------------------------------
\* Text: characters "x", "_" (blank) and "\n" (a line end); a range is a pair
\* <<first, after>> of offsets from 0.

\* One range joins the merged ones: into the last of them if they touch.
Joined(merged, r) ==
    IF merged # <<>> /\ r[1] <= Last(merged)[2]
    THEN Append(Front(merged), <<Last(merged)[1], Max({Last(merged)[2], r[2]})>>)
    ELSE Append(merged, r)
merge(ranges) == FoldLeft(Joined, <<>>, SortSeq(ranges, LAMBDA a, b : a[1] < b[1]))

physical_lines(text) ==
    LET ends == {i \in DOMAIN text : text[i] = "\n"} \cup {Len(text)}
    IN  {<<Max({0} \cup {j \in ends : j < i}), i>> : i \in ends \ {0}}

test_only_line(text, line, ranges) ==
    /\ \E k \in DOMAIN ranges : ranges[k][1] < line[2] /\ line[1] < ranges[k][2]
    /\ \A i \in line[1]..(line[2] - 1) :
          text[i + 1] # "x" \/ \E k \in DOMAIN ranges : ranges[k][1] <= i /\ i + 1 <= ranges[k][2]

line_count(text, ranges) ==
    Cardinality({line \in physical_lines(text) : ~ test_only_line(text, line, merge(ranges))})

-----------------------------------------------------------------------------

ScopeAnswer(q) ==
    CASE q.to = "attributes" -> test_only(q.attributes)
      [] q.to = "files" -> classify(q.edges, q.test)
      [] q.to = "lines" -> line_count(q.text, q.ranges)

-----------------------------------------------------------------------------
(***************************************************************************)
(* Attributes with predicates two levels deep, three files with every set  *)
(* of declarations between them, texts of up to four characters with up to *)
(* two disjoint test items.                                                *)
(***************************************************************************)

Atom == {[op |-> "test", of |-> <<>>], [op |-> "f", of |-> <<>>]}
Listed(S) ==
    {[op |-> o, of |-> s] : o \in {"all", "any"}, s \in BoundedSeq(S, 2)} \cup
    {[op |-> "not", of |-> s] : s \in BoundedSeq(S, 1) \cup {<<p, p>> : p \in Atom}}
Predicate == Atom \cup Listed(Atom)
Attribute(p) == [name |-> "cfg", value |-> p]
Other(n) == [name |-> n, value |-> [op |-> "none", of |-> <<>>]]

Attributes ==
    {<<Attribute(p)>> : p \in Listed(Predicate)} \cup
    {<<Attribute(p), Attribute(q)>> : p, q \in Predicate} \cup
    {<<>>, <<Other("test")>>, <<Other("doc")>>} \cup {<<Other(n), Attribute(p)>> : n \in {"test", "doc"}, p \in Predicate}
Declaration == {e \in (1..3) \X (1..3) \X BOOLEAN : e[1] # e[2]}
Item(n) == {r \in (0..n) \X (0..n) : r[1] < r[2]}
Items(n) == {<<>>} \cup {<<r>> : r \in Item(n)} \cup {<<r, s>> : r, s \in Item(n)}
ScopeRequests ==
    {[to |-> "attributes", attributes |-> a] : a \in Attributes} \cup
    {[to |-> "files", edges |-> e, test |-> t] : e \in SUBSET Declaration, t \in [1..3 -> BOOLEAN]} \cup
    UNION {{[to |-> "lines", text |-> t, ranges |-> r] :
              r \in {r \in Items(Len(t)) : Len(r) = 2 => (r[1][2] <= r[2][1] \/ r[2][2] <= r[1][1])}} :
           t \in BoundedSeq({"x", "_", "\n"}, 4)}

-----------------------------------------------------------------------------
ScopeInit == ask \in ScopeRequests /\ answer = None

ScopeReply == answer = None /\ answer' = ScopeAnswer(ask) /\ UNCHANGED ask

Asked(to) == answer # None /\ ask.to = to

-----------------------------------------------------------------------------

\* The compiler's reading: every option the linter does not know is set or not,
\* and so is a predicate it cannot read.
RECURSIVE Holds(_, _, _)
Holds(p, testing, set) ==
    CASE p.op = "test" -> testing
      [] p.op = "all" -> \A i \in DOMAIN p.of : Holds(p.of[i], testing, set)
      [] p.op = "any" -> \E i \in DOMAIN p.of : Holds(p.of[i], testing, set)
      [] p.op = "not" /\ Len(p.of) = 1 -> ~ Holds(p.of[1], testing, set)
      [] OTHER -> p.op \in set
Compiled(attributes, testing, set) ==
    \A i \in DOMAIN attributes :
        /\ attributes[i].name = "cfg" => Holds(attributes[i].value, testing, set)
        /\ attributes[i].name = "test" => testing
RECURSIVE Opaque(_)
Opaque(p) ==
    IF p.op \in {"all", "any"} \/ (p.op = "not" /\ Len(p.of) = 1) THEN \E i \in DOMAIN p.of : Opaque(p.of[i])
    ELSE p.op # "test"

\* Code that some build compiles into production is never set aside as test
\* code; and where no unknown option is involved, what the linter sets aside is
\* exactly what only test builds compile.
TestScopeSound ==
    Asked("attributes") =>
        LET a == ask.attributes
        IN  /\ answer => \A set \in SUBSET (Flags \cup {"not"}) : ~ Compiled(a, FALSE, set)
            /\ (\A i \in DOMAIN a : a[i].name = "cfg" => ~ Opaque(a[i].value)) /\ (\A i \in DOMAIN a : a[i].name # "test") =>
                  (answer <=> ~ Compiled(a, FALSE, {}) /\ Compiled(a, TRUE, {}))

\* A file is production code as soon as one chain of production declarations
\* leads to it from a file nothing declares; a file that is reached only through
\* a test scope is test code, however deep below the attribute it lies.
ScopeFollowsDeclarations ==
    Asked("files") =>
        LET files == DOMAIN ask.test
            plain == {i \in files : ~ ask.test[i]}
            G == [node |-> files, edge |-> {<<e[1], e[2]>> : e \in ask.edges}]
            Prod == [node |-> plain, edge |-> {<<e[1], e[2]>> : e \in {e \in ask.edges : ~ e[3]}} \cap (plain \X plain)]
            Undeclared(i) == \A e \in ask.edges : e[2] # i
            Produced(i) == i \in plain /\ \E r \in plain : Undeclared(r) /\ ConnectionsIn(Prod)[r, i]
            Seen(i) == \E r \in files : (Undeclared(r) \/ ask.test[r]) /\ ConnectionsIn(G)[r, i]
        IN  \A i \in files : answer[i] <=> ask.test[i] \/ (Seen(i) /\ ~ Produced(i))

\* A line counts unless test items touch it and cover all it says: a blank line
\* between production items counts, a line shared with a production item too.
LinesCounted ==
    Asked("lines") =>
        LET text == ask.text
            covered == UNION {ask.ranges[k][1]..(ask.ranges[k][2] - 1) : k \in DOMAIN ask.ranges}
            LineOf(i) == Cardinality({j \in 0..(i - 1) : text[j + 1] = "\n"})
            lines == {LineOf(i) : i \in 0..(Len(text) - 1)}
            Of(l) == {i \in 0..(Len(text) - 1) : LineOf(i) = l}
        IN  answer = Cardinality({l \in lines :
                         covered \cap Of(l) = {} \/ \E i \in Of(l) \ covered : text[i + 1] = "x"})

-----------------------------------------------------------------------------
(* The dependency rule.                                                    *)

Error(what) == [error |-> what]
Failed(r) == "error" \in DOMAIN r

-----------------------------------------------------------------------------
\* Manifests.  entries[d] is a set of [kind, alias, from]: from is "registry",
\* "path", "broken" (a path to nothing) or "workspace"; table gives the
\* workspace's own entry of an alias, "absent" for none.

\* Where the entry leads: a directory, None, or an error.
local_path(e, table) ==
    LET from == IF e.from = "workspace" THEN table[e.alias] ELSE e.from
    IN  CASE from = "absent" -> Error("missing workspace dependency")
          [] from = "broken" -> Error("resolve dependency")
          [] from = "path"   -> [to |-> e.alias]
          [] OTHER           -> [to |-> None]

Paths(entries, table, loaded) == {local_path(e, table) : e \in UNION {entries[d] : d \in loaded}}

\* Rounds of reading until no entry leads to a manifest that is not loaded.
RECURSIVE manifests(_, _, _)
manifests(entries, table, loaded) ==
    LET paths == Paths(entries, table, loaded)
        more == {p.to : p \in {p \in paths : ~ Failed(p)}} \ {None}
    IN  IF \E p \in paths : Failed(p) THEN Error("manifest")
        ELSE IF more \subseteq loaded THEN [loaded |-> loaded]
        ELSE manifests(entries, table, loaded \cup more)

\* The packages with their edges: all of them, and those that Cargo builds.
inventory(entries, table, loaded) ==
    [d \in loaded |->
        LET To(S) == ({local_path(e, table).to : e \in S} \ {None}) \cap loaded
        IN  [dependencies |-> To(entries[d]),
             build_dependencies |-> To({e \in entries[d] : e.kind # "dev-dependencies"})]]

-----------------------------------------------------------------------------
\* The policy: ignored, layers (a sequence of [name, directory, may_depend_on]),
\* mapping (package to layer name), chain_root and chain_exclusions.

Under(d, directory) == directory # None /\ \E i \in 1..(Len(Place[d]) - 1) : Place[d][i] = directory

\* Dependency::layer: the package's own mapping, else the first directory.
layer(policy, d) ==
    LET i == IF d \in DOMAIN policy.mapping
             THEN SelectInSeq(policy.layers, LAMBDA l : l.name = policy.mapping[d])
             ELSE SelectInSeq(policy.layers, LAMBDA l : Under(d, l.directory))
    IN  IF i = 0 THEN None ELSE policy.layers[i]

concrete_chain(policy, d) == Front(Place[d]) = policy.chain_root /\ Last(Place[d]) \notin policy.chain_exclusions

\* Variant of Refused that looks at the edges Cargo builds only.
RefusedBuild(policy, packages) ==
    {e \in (DOMAIN packages \ policy.ignored) \X (DOMAIN packages \ policy.ignored) :
        /\ e[2] \in packages[e[1]].build_dependencies
        /\ \/ concrete_chain(policy, e[1]) /\ concrete_chain(policy, e[2])
           \/ /\ layer(policy, e[1]) # None /\ layer(policy, e[2]) # None
              /\ layer(policy, e[2]).name \notin layer(policy, e[1]).may_depend_on}

\* The edges that get a finding, development edges included.
Refused(policy, packages) ==
    {e \in (DOMAIN packages \ policy.ignored) \X (DOMAIN packages \ policy.ignored) :
        /\ e[2] \in packages[e[1]].dependencies
        /\ \/ concrete_chain(policy, e[1]) /\ concrete_chain(policy, e[2])
           \/ /\ layer(policy, e[1]) # None /\ layer(policy, e[2]) # None
              /\ layer(policy, e[2]).name \notin layer(policy, e[1]).may_depend_on}

\* visit of `cycle`: the cycle found below d, and the packages that are done.
RECURSIVE visit(_, _, _, _, _)
visit(packages, ignored, d, active, done) ==
    IF Contains(active, d)
    THEN [found |-> Append(SubSeq(active, SelectInSeq(active, LAMBDA x : x = d), Len(active)), d), done |-> done]
    ELSE IF d \in done \cup ignored THEN [found |-> None, done |-> done]
    ELSE LET Step(r, x) ==
               IF r.found # None THEN r
               ELSE visit(packages, ignored, x, Append(active, d), r.done)
             r == FoldLeft(Step, [found |-> None, done |-> done], SetToSortSeq(packages[d].build_dependencies, <))
         IN  IF r.found # None THEN r ELSE [found |-> None, done |-> r.done \cup {d}]

cycle(packages, ignored) ==
    LET Step(r, d) == IF r.found # None THEN r ELSE visit(packages, ignored, d, <<>>, r.done)
    IN  FoldLeft(Step, [found |-> None, done |-> {}], SetToSortSeq(DOMAIN packages, <)).found

\* Workspace::load and the rule: the findings, or an error of the scan.
dependencies(scan) ==
    LET m == manifests(scan.entries, scan.table, scan.start)
    IN  IF Failed(m) THEN m
        ELSE LET packages == inventory(scan.entries, scan.table, m.loaded)
             IN  [packages |-> packages, refused |-> Refused(scan.policy, packages),
                  cycle |-> cycle(packages, scan.policy.ignored)]

-----------------------------------------------------------------------------
(***************************************************************************)
(* Three packages: a library, and two chains.  Each may depend on each of  *)
(* the others in one way or not at all; entries of the library may be      *)
(* inherited from the workspace, whose table may lack it.                  *)
(***************************************************************************)

E(kind, alias, from) == [kind |-> kind, alias |-> alias, from |-> from]
Ways(d) ==
    {{}, {E("dependencies", d, "path")}, {E("dev-dependencies", d, "path")}} \cup
    (IF d = 1 THEN {{E("build-dependencies", d, "workspace")}, {E("dependencies", d, "registry")}} ELSE {})

L(n, d, m) == [name |-> n, directory |-> d, may_depend_on |-> m]
Low == L("package", "packages", {"package"})
Chain == L("chain", "chains", {"package", "chain"})
Root == <<"sdk", "chains">>
P(ignored, layers, mapping, excluded) ==
    [ignored |-> ignored, layers |-> layers, mapping |-> mapping, chain_root |-> Root, chain_exclusions |-> excluded]
GraphPolicies ==
    {P({}, <<Low, Chain>>, <<>>, {"two"}), P({}, <<Low, Chain>>, <<>>, {}), P({2}, <<Low, Chain>>, <<>>, {"two"}),
     P({}, <<Low, L("base", None, {"package"}), Chain>>, 2 :> "base", {"two", "three"}), P({}, <<>>, <<>>, {})}

Scans ==
    {[start |-> s, entries |-> <<{}, {}, {}>>, table |-> [a \in Dir |-> t], policy |-> p] :
        s \in {{1}}, t \in {"absent"}, p \in GraphPolicies} \cup
    {[start |-> s, entries |-> <<a \cup b, c \cup d, f \cup g>>, table |-> [x \in Dir |-> t], policy |-> p] :
        s \in {{2}, {1, 2, 3}}, t \in {"absent", "registry", "path"}, p \in GraphPolicies,
        a \in Ways(2) \cup {{E("dependencies", 2, "broken")}}, b \in Ways(3), c \in Ways(1), d \in Ways(3), f \in Ways(1), g \in Ways(2)}

-----------------------------------------------------------------------------
GraphInit == ask \in Scans /\ answer = None

GraphReply == answer = None /\ answer' = dependencies(ask) /\ UNCHANGED ask

Answered == answer # None /\ ~ Failed(answer)

\* What the manifests say, read without the linter's algorithm.
Leads(e) == e.from = "path" \/ (e.from = "workspace" /\ ask.table[e.alias] = "path")
Edges(kinds) == {x \in Dir \X Dir : \E e \in ask.entries[x[1]] : e.alias = x[2] /\ e.kind \in kinds /\ Leads(e)}
All == {"dependencies", "build-dependencies", "dev-dependencies"}
Reach(d) == \E s \in ask.start : ConnectionsIn([node |-> Dir, edge |-> Edges(All)])[s, d]

-----------------------------------------------------------------------------

\* A scan of some packages sees exactly the packages that lie below them in the
\* local dependency graph, however deep, also through entries inherited from
\* the workspace; it fails if one of those cannot be resolved and only then.
ScanIsClosed ==
    answer # None =>
        IF \E d \in Dir : Reach(d) /\ \E e \in ask.entries[d] :
              e.from = "broken" \/ (e.from = "workspace" /\ ask.table[e.alias] \in {"absent", "broken"})
        THEN Failed(answer)
        ELSE ~ Failed(answer) /\ DOMAIN answer.packages = {d \in Dir : Reach(d)}

\* A cycle is reported exactly if the edges that Cargo builds have one among the
\* scanned packages that are not ignored, and the one reported is one of them.
CycleReported ==
    Answered =>
        LET nodes == DOMAIN answer.packages \ ask.policy.ignored
            edges == Edges(All \ {"dev-dependencies"}) \cap (nodes \X nodes)
        IN  /\ (answer.cycle # None) <=> HasCycle([node |-> nodes, edge |-> edges])
            /\ answer.cycle # None =>
                  /\ Len(answer.cycle) >= 2 /\ Head(answer.cycle) = Last(answer.cycle)
                  /\ \A i \in 1..(Len(answer.cycle) - 1) : <<answer.cycle[i], answer.cycle[i + 1]>> \in edges

\* A clean scan means what the policy says also of indirect dependencies: from a
\* package one reaches, through packages that have a layer, only layers that the
\* policy lets its own layer reach.
CleanMeansLayered ==
    Answered /\ answer.refused = {} =>
        LET nodes == {d \in DOMAIN answer.packages \ ask.policy.ignored : layer(ask.policy, d) # None}
            names == {l.name : l \in ToSet(ask.policy.layers)}
            allowed == UNION {{<<l.name, n>> : n \in l.may_depend_on} : l \in ToSet(ask.policy.layers)}
            steps == Edges(All) \cap (nodes \X nodes)
        IN  \A x \in nodes \X nodes : x[1] # x[2] /\ ConnectionsIn([node |-> nodes, edge |-> steps])[x[1], x[2]] =>
                \/ layer(ask.policy, x[1]) = layer(ask.policy, x[2])
                \/ ConnectionsIn([node |-> names, edge |-> allowed])[layer(ask.policy, x[1]).name, layer(ask.policy, x[2]).name]

-----------------------------------------------------------------------------
(* A run.                                                                  *)

Ids(rules) == {rules[i].id : i \in DOMAIN rules}
Repeats(s) == \E i, j \in DOMAIN s : i # j /\ s[i] = s[j]
Adopted(id) == \E i \in DOMAIN Catalog : Catalog[i].id = id /\ Catalog[i].adopted

-----------------------------------------------------------------------------

\* `relative`: a nonempty path of ordinary components only.
Relative(path) == path # <<>> /\ \A i \in DOMAIN path : path[i] \notin {"/", "..", "."}

Selector(s) ==
    /\ s.package # None \/ s.path # None
    /\ s.package # ""
    /\ s.path # None => Relative(s.path)

\* Policy::validate.
validate(p) ==
    LET names == [i \in DOMAIN p.layers |-> p.layers[i].name]
        packages == [i \in DOMAIN p.mapping |-> p.mapping[i].package]
    IN  /\ "" \notin ToSet(names) /\ ~ Repeats(names)
        /\ \A i \in DOMAIN p.layers :
              /\ p.layers[i].directory # None => Relative(p.layers[i].directory)
              /\ p.layers[i].may_depend_on \subseteq ToSet(names)
        /\ \A i \in DOMAIN p.mapping : p.mapping[i].layer \in ToSet(names)
        /\ ~ Repeats(packages)
        /\ \A s \in p.boundaries : Selector(s)
        /\ ~ Repeats(p.enabled) /\ \A i \in DOMAIN p.enabled : Adopted(p.enabled[i])

load(file) == IF file = Unreadable THEN Error("read policy") ELSE IF validate(file) THEN [policy |-> file] ELSE Error("policy")

\* An explicit policy wins, then the lint.toml of the directory.
Loaded(c) ==
    IF c.policy # None THEN load(c.policy) ELSE IF c.found # None THEN load(c.found) ELSE [policy |-> Default]

\* Registry::standard: the original rules, and the adopted ones that are enabled.
standard(p) == SelectSeq(Catalog, LAMBDA r : ~ r.adopted \/ Contains(p.enabled, r.id))

-----------------------------------------------------------------------------

\* exception::collect: comments that name a rule and give a reason; a literal
\* that looks like one is blanked first.
Exceptions(comments) == {<<c.line, c.id>> : c \in {c \in comments : ~ c.literal /\ c.id \notin {"", "two words"} /\ c.reason}}

suppressed(exceptions, id, line) == \E e \in exceptions : e[2] = id /\ e[1] <= line /\ line - e[1] <= 2

Kept(rule, findings, exceptions) == {f \in findings : rule.adopted => ~ suppressed(exceptions, rule.id, f.line)}

Broken(check) == ~ check.ok

\* Linter::run: results[id] is what the rule's check returns.
Run(rules, results, comments, reporter) ==
    LET Checked(i) == results[rules[i].id]
        Odd(i) == \E f \in Checked(i).findings : f.rule # rules[i].id \/ f.severity # rules[i].severity
        Findings(i) == SetToSortSeq(Kept(rules[i], Checked(i).findings, Exceptions(comments)), LAMBDA f, g : f.line < g.line)
        all == [i \in DOMAIN rules |-> Findings(i)]
    IN  IF \E i \in DOMAIN rules : rules[i].id = "" \/ Repeats([k \in DOMAIN rules |-> rules[k].id]) THEN Error("registry")
        ELSE IF \E i \in DOMAIN rules : Broken(Checked(i)) THEN Error("check")
        ELSE IF \E i \in DOMAIN rules : Odd(i) THEN Error("inconsistent metadata")
        ELSE IF reporter = "fails" THEN Error("report")
        ELSE [output |-> FlattenSeq(all),
              summaries |-> [i \in DOMAIN rules |-> [rule |-> rules[i].id, severity |-> rules[i].severity, findings |-> Len(all[i])]]]

Success(mode, summaries) ==
    mode = "cases" \/ \A i \in DOMAIN summaries : summaries[i].severity = "Error" => summaries[i].findings = 0

\* Arguments::run and main.
Execute(c) ==
    LET loaded == Loaded(c)
        run == Run(standard(loaded.policy), c.results, c.comments, c.reporter)
    IN  IF Failed(loaded) THEN [exit |-> "failure", report |-> loaded]
        ELSE IF Failed(run) THEN [exit |-> "failure", report |-> run]
        ELSE [exit |-> IF Success(c.mode, run.summaries) THEN "success" ELSE "failure", report |-> run]

-----------------------------------------------------------------------------
(***************************************************************************)
(* An original rule, an adopted error and an adopted warning.  The policy  *)
(* varies in one part at a time, with a plain run, or stays and the        *)
(* findings, comments and modes vary.                                      *)
(***************************************************************************)

PathChoice == {<<"sdk">>, <<>>, <<"/", "sdk">>, <<"..", "sdk">>}
Layer == [name : {"", "low", "high"}, directory : {None, <<"sdk">>, <<"..", "sdk">>}, may_depend_on : SUBSET {"low", "high"}]
Map == [package : {"a", "b"}, layer : {"low", "high"}]
Policies ==
    {[Default EXCEPT !.enabled = e] : e \in BoundedSeq({"naming", "nesting", "layout", "other"}, 2)} \cup
    {[Default EXCEPT !.boundaries = {b}] : b \in [package : {None, "", "a"}, path : {None} \cup PathChoice]} \cup
    {[Default EXCEPT !.layers = l, !.mapping = m] : l \in BoundedSeq(Layer, 1), m \in BoundedSeq(Map, 2)} \cup
    {[Default EXCEPT !.layers = l, !.mapping = m] : l \in TupleOf({x \in Layer : x.directory = None}, 2), m \in BoundedSeq(Map, 2)}

F(id, severity, line) == [rule |-> id, severity |-> severity, line |-> line]
Found(id, severity, lines) == [ok |-> TRUE, findings |-> {F(id, severity, l) : l \in lines}]
Results(a, b, c) == [layout |-> a, naming |-> b, nesting |-> c]
Lines == SUBSET {1, 4}
Plain == Results(Found("layout", "Error", {}), Found("naming", "Error", {4}), Found("nesting", "Warning", {1}))
Stopped == [ok |-> FALSE, findings |-> {}]
Comment(line, id) == [line |-> line, id |-> id, reason |-> TRUE, literal |-> FALSE]
Comments ==
    {{}} \cup {{Comment(l, id)} : l \in 1..5, id \in {"layout", "naming", "nesting", "", "two words"}} \cup
    {{[Comment(4, "naming") EXCEPT !.reason = FALSE]}, {[Comment(4, "naming") EXCEPT !.literal = TRUE]},
     {Comment(2, "naming"), Comment(1, "nesting")}}

C(mode, policy, found, results, comments, reporter) ==
    [mode |-> mode, policy |-> policy, found |-> found, results |-> results, comments |-> comments, reporter |-> reporter]
Both == [Default EXCEPT !.enabled = <<"nesting", "naming">>]
Commands ==
    {C("markdown", p, None, Plain, {}, "works") : p \in Policies \cup {Unreadable}} \cup
    {C(m, p, f, Plain, {}, "works") : m \in {"diagnostic", "cases"}, p, f \in {None, Unreadable, Both, Default}} \cup
    {C(m, p, None, Results(Found("layout", "Error", a), Found("naming", "Error", b), Found("nesting", "Warning", c)), d, r) :
        m \in {"diagnostic", "cases"}, p \in {Both, Default}, a, b, c \in Lines, d \in Comments, r \in {"works", "fails"}} \cup
    {C(m, Both, None, r, {}, "works") :
        m \in {"diagnostic", "cases"},
        r \in {[Plain EXCEPT ![i] = x] : i \in DOMAIN Plain,
               x \in {Stopped, Found("layout", "Warning", {1}), Found("nesting", "Error", {1})}}}

-----------------------------------------------------------------------------
RunInit == ask \in Commands /\ answer = None

RunReply == answer = None /\ answer' = Execute(ask) /\ UNCHANGED ask

-----------------------------------------------------------------------------

Governing == IF ask.policy # None THEN ask.policy ELSE IF ask.found # None THEN ask.found ELSE Default
Selected(id) == \E i \in DOMAIN Catalog : Catalog[i].id = id /\ (Catalog[i].adopted => id \in ToSet(Governing.enabled))
\* The exception contract of the README: a rule by name, a reason, and the
\* declaration's own line or one of the two lines above it.
Excused(f) ==
    Adopted(f.rule) /\ \E c \in ask.comments : ~ c.literal /\ c.reason /\ c.id = f.rule /\ c.line \in {f.line, f.line - 1, f.line - 2}
Done == answer # None /\ ~ Failed(answer.report)

\* "Diagnostic and Markdown modes fail on errors; warnings remain visible with a
\* successful exit.  Cases ... succeeds": the exit code of a run that could be
\* completed is a failure exactly if an error stands that nothing excuses.
ExitTellsErrors ==
    Done => (answer.exit = "failure" <=>
                /\ ask.mode # "cases"
                /\ \E id \in Ids(Catalog) : Selected(id) /\ \E f \in ask.results[id].findings : f.severity = "Error" /\ ~ Excused(f))

\* What is reported is what the selected rules found, each finding in its place,
\* less exactly what an exception names; no exception excuses an original rule
\* once its check has spoken.
ReportIsComplete ==
    Done => ToSet(answer.report.output) = UNION {{f \in ask.results[id].findings : ~ Excused(f)} : id \in {i \in Ids(Catalog) : Selected(i)}}

\* An analysis that could not be completed is never taken for a clean one: a run
\* succeeds, in any mode, only if its policy could be read, every selected rule
\* has checked and answered for itself, and the report is out.
SuccessIsComplete ==
    answer # None /\ answer.exit = "success" =>
        /\ Governing # Unreadable /\ ask.reporter = "works"
        /\ \A id \in Ids(Catalog) : Selected(id) =>
              ask.results[id].ok /\ \A f \in ask.results[id].findings : f.rule = id

\* A policy that a run works with assigns every mapped package a layer it
\* defines, and one only, so that a mapping never silently exempts a package.
MappingsResolve ==
    Done =>
        \A m \in ToSet(Governing.mapping) :
            Cardinality({i \in DOMAIN Governing.layers : Governing.layers[i].name = m.layer}) = 1
=============================================================================
