# A TLA+ development of `topologies`

`topologies` reads the definition of a network topology (modules, submodules,
gates, connections, products of graphs, replacements), expands it to a graph of
nodes and gates, removes the gates, and prints the graph in the DOT language.
The library is sequential C. What is hard about it is not concurrency. It is
graph surgery in place: loops over lists that the loop lengthens, ids that are
kept while the array they index grows, edges that are stored twice, nodes found
again by names that other code has put together, and results that callers drop;
and a parser that goes through an array of tokens by counting. The modules here
model all of this, from the files to what is printed; the runs check it on small
instances, and the proofs establish part of it for all of them.

## The system

| Component | Source | State | Operations | Talks to |
|---|---|---|---|---|
| graph | `graph.c`, `defs.h` | array of nodes: name, type, adjacency list with attributes | add node, find by name, add edge by id and by name, adjacency test, DOT output, destroy | used by everything below |
| automatic gates | `topologies.c` 57-119 | none of its own | make a gate `owner._auto[k]` with a free `k` | graph |
| connections | `topologies.c` 121-179, 245-565 | id arrays of the running connection | plain, alllist, line, ring, all-match, loop, condition | automatic gates, graph, parameter and name stacks |
| product insertion | `topologies.c` 567-630 | none | copy a product graph under the current path | graph |
| expansion | `topologies.c` 181-243, 632-775, 849-1014 | recursion over modules | expand simple and compound modules, submodule vectors, conditions, products | all of these |
| products | `products.c` | the product graph under construction | Cartesian, tensor, lexicographical, strong, rooted | graph, by name |
| replacement | `topologies.c` 777-847 | the node types `REPLACED_T`, `REPLACED` | replace the nodes matching a pattern by a submodule | expansion, graph |
| compaction | `topologies.c` 1016-1133 | marks on gates, the new graph | follow chains of gates, link their ends, copy | graph |
| parameter stack | `param_stack.c` | names and values | enter, leave, evaluate an expression, expand indices in a name | `tinyexpr.c` |
| name stack | `name_stack.c` | list of path components | enter, leave, full name | expansion, connections |
| parser | `parser.c` | the definition being built | walk over the JSON tokens | `jsmn.h` |
| teardown, files, errors, main | `topologies.c` 25-55, 1135-1310, `errors.c`, `main.c` | none | | |

Everything is a direct call; state is shared through the pointer to one graph. A
run of the program is: read the files, expand (products are compacted operands
multiplied and inserted), compact, print, give the definition back.

What makes each component correct:

* **graph**: both lists of an edge agree, no loops, no parallel edges, ids are
  never reused or moved; a name finds the first live node.
* **connections**: two NODEs meet only through gates of their own; each
  automatic gate is fresh; what a connection asked for is there afterwards and
  stays.
* **products**: the edges are those of the textbook definition, attributes
  belong to the edges they came from, gates are carried along.
* **compaction**: NODEs are linked exactly when a chain of gates joined them; it
  returns, reads only entries that exist, and fails only on input that has a
  reason to fail.
* **expansion and the stacks**: every function leaves both stacks as it found
  them; each expression is evaluated with the innermost binding; the graph is
  the one the definition means; an error has a cause; expansion ends.
* **replacement**: every edge of a replaced node is its successor's afterwards,
  in both lists; nothing is made up; what connections asked for survives.
* **parser**: what it takes is what the documents define, a refusal has a cause,
  files add up, reading ends.
* **teardown**: goes through no NULL pointer whatever keys were left out, and
  gives everything back (two kinds of block excepted, see below).
* **the whole**: a program prints exactly the network that its definition means.

The hazards, each at its line, are listed in `PROJECT.json` with the properties
that cover them.

## Modules

| Module | Models |
|---|---|
| `Graph` | the graph of `graph.c` as a sequence of node records |
| `AutoGates` | `add_auto_gate`, `add_auto_gate_full_name` |
| `Wiring` | the operations expansion performs on the graph, one at a time, in any order |
| `Compact` | `topologies_graph_compact` with `graph_find_end_and_mark` inlined, one action per loop iteration |
| `Chains`, `Bridge` | what compaction should mean, without looking at how it works; the abstract specification |
| `CompactRefinement` | the refinement mapping from `Compact` to `Bridge`, and properties that need both |
| `Products` | the five products of `products.c`, one action per pair of nodes and per edge |
| `Scope` | the parameter stack and the evaluation of expressions in it |
| `Replace` | what `do_replace` does to the graph: marking, and the handing over of edges, one entry per step; extends `Wiring` |
| `Expand` | the expansion of a definition, as an interpreter with an explicit call stack; extends `Scope` and `Replace`, and takes the actions of `Replace` and `Wiring` for what it does to the graph |
| `Meaning` | what a definition means, by recursion over the definition and without stacks |
| `Replacing` | what a replacement should do to the connections, as properties of `Expand` |
| `Pipeline` | the whole program on operations that are given: `Wiring`, `Compact` and `Products` composed as `add_submodule` and `main` compose them |
| `Output` | what should be printed, from the operations alone |
| `Json` | JSON documents as trees, and their tokens |
| `Teardown` | the structures of a definition in memory and their destruction |
| `Parser` | `parser.c`, one action per branch of the loop of `json_deserialize`, for one file after the other |
| `Reading` | what a document defines, read off the tree, as properties of `Parser` |
| `MCWiring`, `MCCompact`, `MCProducts`, `MCReplace` (with the definitions of `MCExpand`), `MCPipeline`, `MCParser` | the instances that are checked |
| `GraphProofs` | lemmas about the operators of `Graph` |
| `WiringProofs` | invariance proofs about `Wiring` |
| `CompactProofs` | invariance proofs about `Compact` |
| `BridgeProofs` | lemmas about the operators of `Chains`, and what compaction knows of its input in the middle of a walk, as an inductive invariant |
| `CopyProofs` | the copy, the refinement of `Bridge` and the DOT output of the result |
| `ProductsProofs` | what the loops of `Products` ask for, and invariance proofs about the product they build |
| `ExpandProofs` | invariance proofs about `Expand` |
| `ReplaceProofs` | what the loop of `do_replace` knows of the graph it started from, as an inductive invariant of the whole expansion |

Conventions. The program's id `i` is position `i + 1` of the sequence; its "no
such node" `-1` is `0`. A full name is a sequence of parts, each a label with an
index (`-1` for none); the punctuation of the product name `(x,y)` is made of
parts too, so that names are equal exactly when the strings are, as long as
labels contain no punctuation of their own. Edge attributes are model values or
sequences of them, so that the `"a, b"` of two attributes is their
concatenation. Attributes of nodes are carried along by the program and never
looked at; they are left out. The error texts are left out; the error code is
kept. An allocation never fails.

Operators whose comment begins with "Slip" are not used by any specification.
Each is a definition of the same module with a mistake that could be made in the
corresponding C code; putting it in the place of the correct one violates the
property that `PROJECT.json` names under "mutants", which shows that the
property can fail.

### Graph and wiring

`Wiring` has the graph `g`, the running operation `job`, the error `err`, and
the history `asked` of pairs that were connected. `ExpandSimple` and `GateStep`
are the body of `expand_module` for a simple module (`add_gate`),
`ExpandCompound` and `GateStep` that for the gates of a compound one;
`InsertProduct`, `InsertNode`, `InsertEdge` are `graph_insert`; `ConnectPlain`
is `graph_eval_and_add_edge`; `ConnectNamed` and `ConnectMatching` collect the
ids of a list, line or ring, and of an all-match (in ascending order:
`InOrder`), and `WireStep` is one iteration of the loop that then connects them.
Loops and conditions of a definition, and the nesting of modules, decide only
which operations come in which order; the model allows every order, and names
that do not exist. The evaluation of names and parameters is outside this
module: it takes full names as they come.

`EmptyRing` is the ring over an empty range: the program reads
`nodes_to_connect[0]` and `[-1]` of an empty array, so it crashes or connects
any two ids it finds (ids outside the graph are counted as a crash).

### Expansion

`Expand` has the definition `net`, the call stack `calls`, the parameter stack
`params`, the name stack `path`, the result `res`, and the variables of
`Wiring`. A frame of the call stack is one running function: `network` for
`topologies_definition_to_graph`, `module` for `expand_module` (with
`do_replace` inlined), `sub` for `add_submodule` (with `enter_and_expand_module`
inlined), `conn` for `traverse_and_add_conns`; `at` is how far it is, `i` and
`last` its loop, `held` how many parameters it has on the stack. `base` and
`depth` remember how long the two stacks were when it was called; no action
reads them. The branch of a condition is a call in tail position, so its frame
takes the place of the caller's (`Choose`).

| Code | Actions |
|---|---|
| `topologies_definition_to_graph` | `FindRoot`, `EnterParam`, `ExpandRoot`, `ExpandDone` |
| `expand_module` | `EnterParam`, `ModuleGates`, `GatesMade`, `NextSub`, `NextConn`, `NextReplace`, `ModuleDone` |
| `do_replace` | `NextReplace` (marks, and calls the submodule), `TakeOver`, and the steps of `HandOverStep` |
| `add_submodule`, `enter_and_expand_module` | `ChooseSub`, `SubStart`, `EnterParam`, `SubSize`, `NextElement`, `ElementDone`, `SubDone` |
| `traverse_and_add_conns` | `Connect`, `ChooseConn`, `OpenLoop`, `NextRound`, `RoundDone`, `LoopDone`, `ConnectList`, `ConnectMatch` |

What these do to the graph is an action of `Replace` or `Wiring` taken in the
same step (`ExpandSimple`, `ConnectPlain`, `Mark` and so on), and `Wire` runs
its loops to their end, so that both modules are checked together: `Wiring`
alone in any order, here in the orders and with the names that definitions
produce.

Names and numbers. Values are integers (the program has doubles and rounds sizes
and indices). An expression is a variable plus a constant, or a constant:
whether it evaluates, and which binding it sees, is all that expansion depends
on. `Begins` says which name begins which; the test in `param_stack_to_te_vars`
hides a parameter when a *later* one's name begins with its name, and `Seen`
says so. A negative index in a connection prints as `[-1]` while a name without
index has none; `IndexPart` keeps the two apart.

When a function fails, the ones that called it take their names off the path and
leave the parameters on the stack; `topologies_definition_to_graph` then frees
both. No property can tell, and `Fail` leaves the stacks as they are. A
definition without a network (`TOP_E_NONET`), invalid patterns of an all-match
(`TOP_E_REGEX`) and exhausted memory are left out.

`Meaning` says what should come out: an environment instead of the stack, sets
instead of loops. `BuildsTheMeaning` compares nodes, gates and the pairs that
were connected with it. `RejectsWithCause` says that a definition that makes
sense is refused only for the prefix test: a vector's `index` hides a parameter
named `i` or `in` of an outer module, and an expression with it fails to
evaluate. No line of the repository says names must not begin one another, nor
that they may, so this is stated and not listed as a finding. A replacement
takes the nodes of its pattern out and puts those of its submodule in
(`Swapped`). Definitions with an all-match (which names should it select?), with
a ring over an empty range (undefined behaviour, see above), and with a
replacement inside a replacement, of a sibling's nodes, or beside an old node of
a new one's name are run, but have no meaning to compare with; `Replacing` is
about these too.

### Replacement

`NextReplace` marks every node and gate whose name the pattern matches below the
path (`Mark`) and calls the submodule that takes their place; when that is
expanded, `TakeOver` starts the job that hands edges over. `NextMarked` is the
loop over the nodes, `HandEntry` one entry of a marked node's list: the
neighbour's *first* entry for the old node is turned to the new one
(`Redirected`), and the entry is copied to the new node's list if it is not
there yet (`TakesOver`). `NodeHanded` empties the old node's list and its name.
`before` in the job is history, the graph as it was when the handing over began;
`asked` moves to the successors.

A pattern is a set of labels, with `atEnd` for one that is anchored to the end
of the name, because that is what decides whether a node's gates, automatic ones
included, are replaced with it. That a pattern's label is looked for below the
path only by a prefix test (`topologies.c:795`) is part of `Matches`.

`HandingOverMerges` says that the graph of the live nodes is the quotient of the
old one: two of them are neighbours exactly if nodes merged into them were.
`NothingStale` bounds what the lists may keep: where no list named a neighbour
twice or a node that is gone before, none names a node that is gone after, and
entries are repeated only as often as there were edges to merge.
`LiveListsAgree` and `AskedSurvives` look at later connections. What they allow
is what the code does, and the compiled program does it too:

* a node that had two neighbours of one name that are replaced by one node has
  two entries for it; a gate like that counts as connected twice, and compaction
  refuses it. In particular, replacing the nodes of an anchored pattern by a
  module with the same gates is refused in the end;
* a gate, an automatic one also, that the pattern takes away, while the new node
  has no gate of that name, goes with its link, and no error is reported
  (`Lost`);
* a node can take the place of a gate: when a gate is replaced by a compound
  module that has a submodule of the gate's name, the node has the gate's edges
  without a gate in between;
* the handing over takes up *every* marked node, also those of an enclosing
  `do_replace` that is still waiting for its own submodule.

The repository's documents do not say what replacement should do in these cases,
so none is a finding.

### The whole program

`Pipeline` composes `Wiring`, `Compact` and `Products`, each with variables of
its own, as the code does. Its input is a sequence of operations (modules,
connections, lists, products of two such sequences) instead of a definition: how
a definition comes to its operations is what `Expand` is about. For a product,
`add_submodule` keeps the graph of the caller (`calls`), expands each operand
with an empty name stack into a graph of its own (`FirstOperand`,
`SecondOperand`), compacts it (`Compact`, `CompactStep`), drops the result of
that, and takes the graph there is: the compacted one, or, when compaction
failed, the marked and lengthened one (`CompactedGraph`). `MakeProduct` and
`ProductStep` are `products.c`, `InsertProduct` is `graph_insert`, `Finish` is
`main`.

`Output` says what a sequence of operations means, with names and links only: no
ids, automatic gates, marks or chains. `PrintsTheMeaning` compares it with what
is printed, for programs that are `clean`: no gate has two connections, no node
is connected with itself, no name is given twice, and no product tests the wrong
neighbour (see Products). Nodes without neighbours vanish wherever a graph is
compacted, so an operand that is one node is empty; `Kept` says so. For all
programs, clean or not, `NothingMadeUp` holds: the dropped result loses links,
it never makes one up. `FailsWithCause` ties the error to the definition. For
the 522 programs of the run, the compiled program prints the nodes and links
that the model does, or fails where the model does.

### Parser and teardown

The tokens of a document (`Json`) have a type, a text and a size; `walk` has the
variables of `json_deserialize` (`state`, `i`, `obj_i`, `obj_n`, `m_i`, ...),
`net` the definition, `blocks` the number of blocks of memory it holds. `Start`
is the beginning of a file: the array of modules is lengthened by the elements
of the file, one of which a network takes back (`OpenNetwork`). Every branch of
the loop is an action: the pairs of a module (`ModuleText`, `ModuleArray`,
`OpenParams`), the params, the elements of the arrays (`EnterElement`,
`LeaveArray`, `ReadSubmodule`, `ReadConnection`, `ReadReplace`, `GatePair`,
`GateDone`), the network. `parse_submodule`, `parse_connection` and
`parse_replace` are operators, for they call only each other: `ReadKey` is an
iteration of their loops over the keys, which count keys and move the position
by what each value took. `Destroy` is `topologies_network_destroy` after
everything was read; after an error no caller destroys.

A pointer is `<<>>` for NULL and `<<x>>` otherwise. A decision on a token past
the last one is the outcome "undefined".

`Reading` reads the same documents off their trees: an object is a function from
keys to values, there are no tokens, positions or counters. What a document may
be, `FilesAre`, takes a set of rules. Without any rule it is what can be read
with nothing mixed up: the keys are known, each is given once (an array again
after an empty one), objects and arrays stand where the code descends into them.
Each of the ten `Rules` adds a demand of `grammar.ebnf` that the code does not
make: a gate is one pair; plain connections, conditions, lists, plain
submodules, modules and the network have the keys that are not optional; a
simple module has the sections of one; an array is given once; a text is a
quoted word. All rules together are the grammar, apart from the spelling
`"root"` of a rooted product (finding 1), from what is said of the grammar
below, and from the order of keys, which in JSON says nothing: only the key that
tells the kind of a list or an all-match must be the first, and `then` be before
`else`, as the grammar has them.

`AcceptedIsMeant` says that a document that was taken can be read so, and that
the definition is the one it gives, what was left out being NULL. It does not
say that the document is one of the grammar, for it need not be: the program
takes the document of `parser_grammar`, which has an element for each rule that
breaks this one and no other (`UnrulyBreakOneRule`; findings 2 and 4 to 12). Of a gate's object with several pairs nothing says
which is the gate (the program keeps the last), so files with one are not
compared. `RefusedWithCause` asks for more than a broken rule when a document is
refused; it takes as causes also what the code decides from the place of a key.
`GivesBack` has the two kinds
of block that are never freed: the array of a submodule's params when it is
empty, and the name and size of a gate whose object has another pair after it.
Where files without modules follow each other, `realloc(p, 0)` gives NULL, as
glibc's does, and the program reports exhausted memory (`EmptyAgain`).

The documents are JSON with one value at the top, have a value for each key and
at least one token; they may break off, but only after a value (`MCBroken`). The
compiled program accepts, refuses, and counts modules like the model for each of
the 4388 documents of the run, and keeps the number of blocks that the model
says. Each rule is broken by documents of the run that obey all the others.

The grammar and the code differ in more than the findings say: `grammar.ebnf`
has braces around the elements where the code wants an array, and a comma after
each element, the last included, which is not JSON. It also has one description
with simple modules first and the network last, where the code puts files
together and takes their elements in any order, with one network at most; that
there is none is found out by the expansion. Nothing is built on those lines.

### Compaction

`i`, `j`, `cur` and `attrs` are the program's variables `i`, `j`, `node_tmp` and
`*attributes`; `pc` says which loop it is in. `ScanNext`, `ScanSkip`, `ScanGate`
and `ScanDone` are the nested loop over the NODEs; note that `j` runs to the
current length of a list that `LinkEnd` appends to. The five `Walk` actions are
the branches of `graph_find_end_and_mark`, `LinkEnd` and `LinkFails` what
follows its return, and the `Copy` actions the copy to the new graph.

`Bridge` promises: links (pairs of NODEs that are neighbours or joined by a path
of gates) are discovered in any order; the call ends with exactly the links of
its input, or fails, and that only when a gate in use branches, a chain of two
or more gates leads from a NODE to nothing, or a chain leads back to the NODE it
began at and to no other. The refinement maps the links found so far to the
edges between NODEs in the caller's graph.

That the last two causes of failure exist was found by stating the promise and
by proving it. A dangling chain of one gate is accepted; one of two gates makes
the program add the last gate to the list it is scanning, walk back from there
to the NODE it came from, and refuse to connect the NODE to itself. The compiled
program does the same. A chain that leads back is accepted when the gate where
the walk ends lists the NODE first, for the walk then goes on to the gate it
came from, which is marked, and stops; it is refused when that gate lists the
NODE second (`LeadsBack`). Expansion connects a gate to its own node before it
connects it to anything else, so no graph of the runs has a gate of the second
kind; a proof for every graph has to name it. Nothing in the repository says
whether such chains are legal, so `Bridge` states what the code does.

`NodesSurvive` says that the graph returned has one node for each NODE with
neighbours, in the same order and of the same name, whatever names repeat.

### Products

`Cells` is the sequence of pairs of NODEs, in the order of the nested loops;
`AddCell` is an iteration of `graphs_cart_product_nodes`; `Calls` is the
sequence of calls of `graph_add_edge_name` that the loops of the chosen product
make, and `AddEdge` one call. `EntryAt` is `adj[k]` with an index that may lie
past the end of the list: the program then reads zeroed memory (node 0 and no
attribute) up to the capacity of the list, eight entries at least, and operands
are restricted to lists of at most eight.

Two things the code does that its products' definitions do not, both visible in
the statement of the properties:

* the tensor, lexicographical and strong products test the type of neighbour
  number `k` of the second component, with `k` an index of the first one's list
  (`products.c:271`, `355`, `436`). When the second operand has a gate left,
  they fail with "Could not connect" or drop edges (the compiled program does
  fail so). `ProductIsTextbook` therefore claims these products only for a
  second operand without gates;
* the lexicographical and strong products pass on the attribute of an unrelated
  edge (`products.c:363`, `462`), the latter after joining the right ones.
  `AttrsFollow` leaves these two out.

Neither contradicts a line of documentation, so neither is listed as a finding.

## Runs

| Run | Instance | Shows |
|---|---|---|
| `wiring` | two paths, three gate lists, one product, lists of at most three names; operations start on graphs of fewer than 3 nodes and grow them past that | `TypeOK`, `GraphIsSimple`, `NodesMeetThroughGates`, `AutoGatesOwned`, `AskedIsConnected`, `OnlyAdds`, `ListsNeverRefused` |
| `compact_safety` | the graphs of all wirings of three nodes and four gates by two connections, of long-chain wirings by three, with a product edge, a replaced node, or two nodes of one name | `TypeOK`, `WalkStaysInside`, `ListsAgree`, `NodesSurvive`, `MarksOnlyGates`, `Returns` |
| `compact_bridge` | the same graphs without those of duplicate names | `ImplementsBridge`, `AttrsComeFromTheChain`, `DotOutputIsTheLinks` |
| `products` | all pairs of eleven operands (empty, paths, cycle, star, gates before and after edges, a marked gate, twin names), all five products, present and missing roots | `TypeOK`, `ProductIsSimple`, `ProductIsTextbook`, `AttrsFollow`, `PairsKeepTheirGates`, `FoundByName` |
| `expand` | every height and arity up to 2 of the recursive tree of `config_gft.json`; rows of up to three nodes joined as alllist, line and ring over all ranges from -1..1 to 0..3; shadowed and hidden parameters; every kind of connection, alone, in a loop, in a condition; every way to fail; replacements of nodes with and without gates, vectors, compounds, siblings, twice, three times, nested, failing, of a gate by a node | `BuildsTheMeaning`, `RejectsWithCause`, `HandingOverMerges`, `NothingStale`, `LiveListsAgree`, `AskedSurvives` |
| `expand_ends` | the smaller ones of these definitions | `ExpandTypeOK`, `StacksNest`, `Terminates` |
| `pipeline` | 522 programs with a product: operands that are pairs, rings, stars, single, joined through declared gates, with gates left over, that cannot be compacted or expanded, or are products themselves; all five kinds | `PrintsTheMeaning`, `NothingMadeUp`, `FailsWithCause` |
| `parser` | documents with every construct of the grammar, each with every single change (a pair left out, repeated, moved, renamed, refilled) at any depth; all sequences of up to three small files | `ParserTypeOK`, `AcceptedIsMeant`, `RefusedWithCause`, `GivesBack`, `FilesAddUp` |
| `parser_ends` | the sequences, and one document with everything that breaks off anywhere | `ReadingEnds` |
| `parser_root_name` | rooted products by both names | `BothRootNames` is violated |
| `parser_grammar` | documents that obey the grammar, and one with ten elements, each of which breaks one rule | `TakenIsGrammatical` is violated |
| `parser_broken` | documents that break off after a value | `WholeDocuments` is violated |

### Findings

1. `grammar.ebnf` calls a rooted product `"root"` or `"rooted"`; the parser
   takes `"root"` as the key of the root's name, so the first spelling is
   refused (`parser_root_name`).
2. `grammar.ebnf` wants a name and a module in every plain submodule; the parser
   takes one without.
3. The first call of `jsmn_parse` only counts, and does not see brackets that
   stay open; the second one does, and its result is dropped. A file that breaks
   off after a value is read as a smaller definition (`parser_broken`).
4. A gate is an object of one pair. The parser goes over all there are and writes
   each over the one before, whose texts are lost and never freed; an object
   without a pair leaves a gate without a name.
5. A plain connection has `from` and `to`; the parser takes one without either.
6. A condition has an `if`; the parser takes a submodule or connection of `then`
   and `else` alone.
7. A ring, line or all has `start`, `end` and `conn`; the parser counts keys, so
   that `attributes` stands in for one of them.
8. A module has a name; the parser takes one without.
9. A simple module has gates and attributes at most; the parser takes the
   sections of a compound one in it. The expansion
   enters its params and looks at none of the others.
10. An array of a module is given once; the parser takes it again after an empty
    one.
11. The network has a module; the parser takes one without.
12. Texts are quoted words; the parser takes objects and arrays for most of them.

Findings 2 and 4 to 12 are of the run `parser_grammar`, one for each rule. For 2,
5 to 8 and 11, and for a gate without a name, the definition has a NULL where
the expansion needs a text, and the compiled program ends with a segmentation
fault (when only the name of a submodule is missing, it prints its node as
`(null)`).

**Bounds.** `MaxNodes` and `MaxIds` of `Wiring` bound when an operation may
start and how many names it has. Three nodes are enough for a node, its gate and
another node, a list of three ids makes the loops overlap (the same node twice,
a node and its gate), and the operation that is running may still add gates
beyond the bound, so that second and third automatic gates occur. For
compaction, the inputs are graphs that wiring makes; seven named nodes and the
automatic gates of two or three connections give chains of up to four gates,
cycles of gates, branching gates, parallel chains, chains that dangle, and NODEs
with no neighbour. For products, lists of different length on the two sides are
what brings in entries past the end of a list, and the star provides them. For
the parser, one change at a time is enough to bring every loop out of step once,
and three files are enough for an array that is moved, lengthened, and not
lengthened. For the pipeline, operands have at most three nodes, and `MaxNodes`
and `MaxIds` are not reached. For expansion, each definition is expanded to its
end: `MaxNodes` (100, and 8 in `expand_ends`) and `MaxIds` (4) are guards of
`Wiring` that none of the definitions reaches, and `Terminates` would fail if
one did. Two levels of recursion with two children each give every stack entries
of the same name from three modules; `h` counts down through them, `k` stays.
All models stop when their work is done, so deadlock is not checked.

**Names.** Two nodes of one name can be defined, and the runs include them,
except for the properties whose statement identifies nodes by name
(`compact_bridge`; in `Products`, `NamesTell`: no two pairs have one name, nor a
gate that of a pair).

**Fairness.** `Compact` assumes weak fairness of its next step: it is a
sequential call, and a call that can go on does. `Returns` needs it. `Expand`
assumes the same of the interpreter's next step, for `Terminates`. That property
is about definitions whose recursion a condition ends; of any other the program
exhausts its stack, and none is among the inputs. `Parser` assumes it of its
next step, for `ReadingEnds`: each turn of its loop moves on or changes the
state. `Wiring` and `Products` have no fairness, since nothing is claimed to
happen in them; `Pipeline` has none, for its loops are those of `Compact`, whose
return is checked there, and bounded loops over what is given.

## Proofs

The theorems are checked by TLAPS, for every value of the constants. The
assumptions are those in the modules: `NullAssumption` (no attribute is the
absent one) and `InputsAssumption` (an input of compaction is a graph whose
lists agree, attributes included, without loops or marks). For graphs that are
built by wiring alone, `SimpleAlways` proves this, and the `wiring` run checks
it, as `GraphIsSimple`. After a replacement it is an assumption:
`ListsAgreeAlways` proves that live nodes have each other as neighbours, and
says nothing of attributes or loops, and when two marked nodes of one name are
handed over to one successor, `do_replace` can leave a loop or different
attributes at the two ends of an edge. Such graphs are no inputs of compaction,
in the runs or in the theorems. For wiring there are
`WiringAssumption` (the products inserted are graphs of NODEs and gates, which
is all that `products.c` makes) and `AutoAssumption`; for products
`ProductsAssumption` (operands are graphs whose gates have names; their lists
have at most eight entries, which no proof uses) and `JoinAssumption` (`Attrs`
has the joined attributes too); for expansion `ScopeAssumption` and
`ExpandAssumption` (what a definition consists of).

| Module | Theorem | Says |
|---|---|---|
| `WiringProofs` | `TypeCorrect` | `Spec => []TypeOK` |
| | `SimpleAlways` | `Spec => []GraphIsSimple` |
| | `NothingIsTakenAway` | `Spec => OnlyAdds` |
| | `ListsAreNotRefused` | `Spec => ListsNeverRefused` |
| | `AskedStaysConnected` | `Spec => []AskedIsConnected` |
| | `AutoGatesStayOwned` | `Spec => []AutoGatesOwned` |
| | `GatesBetweenNodes` | `NamesApart /\ (\A prod \in Products : Symmetric(prod)) => (Spec => []NodesMeetThroughGates)` |
| `CompactProofs` | `TypeCorrect` | `Spec => []TypeOK` |
| | `WalkSafe` | `Spec => []WalkStaysInside` |
| | `ListsStayInStep` | `Spec => []ListsAgree` |
| | `Marking` | `Spec => MarksOnlyGates` |
| `CopyProofs` | `Survival` | `Spec => []NodesSurvive` |
| | `Refinement` | `Spec /\ NamesTell(input) => ImplementsBridge` |
| | `DotOutput` | `Spec /\ NamesTell(input) => []DotOutputIsTheLinks` |
| | `AttrsOfTheChains` | `Spec /\ NamesTell(input) /\ PlainEnds(input) => []AttrsComeFromTheChain` |
| `ProductsProofs` | `TypeCorrect` | `Spec => []TypeOK` |
| | `ProductStaysSimple` | `Spec => []ProductIsSimple` |
| | `FoundAlways` | `Spec => []FoundByName` |
| | `GatesStay` | `Spec => []PairsKeepTheirGates` |
| | `TextbookEdges` | `Spec => []ProductIsTextbook` |
| | `AttrsComeAlong` | `Spec => []AttrsFollow` |
| `ExpandProofs` | `ExpansionIsTyped` | `ExpandSpec => []ExpandTypeOK` |
| | `StacksBalanced` | `ExpandSpec => []StacksNest` |
| `ReplaceProofs` | `ReplacedNodesMerge` | `ExpandSpec => []HandingOverMerges` |
| | `ListsAgreeAlways` | `ExpandSpec => []LiveListsAgree` |
| | `NothingStaleEver` | `ExpandSpec => []NothingStale` |
| | `AskedSurvivesAlways` | `ExpandSpec => []AskedSurvives` |

For wiring, the inductive invariant `WInv` is `TypeOK` with `GraphIsSimple`.
`TypeOK` includes `JobInRange`, the bounds of the loops and the ids in
`nodes_to_connect`: without them `Link` could be called with what is no id. That
no edge is doubled needs `Symmetric(g)`, because `graph_add_edge_id` looks for a
duplicate in one list only. Three facts carry the rest. `FreeAutoNameIsFree`:
among `Len(g) + 1` names `_auto[k]` one is free, by the pigeonhole principle, so
the loop of `add_auto_gate` ends. `AutoGateProperties`: since the name is free,
looking it up finds the new gate, the last node. `LinkProperties`: the two ends
of a connection therefore differ, unless a plain connection or an all-match
names one gate twice, and an all-match cannot, because its ids are different
(`InOrderProperties`, which needs `KthExists`, the k-th smallest of a set of
ids). `AskedStaysConnected` adds to `WInv` that no other node types occur
(`PlainTypes`); what remains of it is that the end of a new edge is a gate of
its node (`EndIsGate`), that the edge is there when it was not refused
(`AddEdgeIdConnects`), and that growing graphs keep connections
(`ConnectionsStay`).

`AutoGatesStayOwned` and `GatesBetweenNodes` share an invariant (`OInv`): the
running operation adds only what a definition names (`JobGiven`), a NODE has a
name that a definition gives to a NODE (`NodesNamed`), and what no definition
names is the gate that `add_auto_gate` made for the node in its first entry
(`Owned`). `Carried` says of two graphs that the second has all this if the
first has; each operation on the graph is shown to be `Carried` once (adding a
node, an edge, an automatic gate, an end, a link), and the actions are put
together from these. A declared gate is connected to its module's node by name;
if its name is that of a NODE made before, two NODEs become neighbours. So
`GatesBetweenNodes` assumes `NamesApart`: no declared gate has a NODE's name,
which holds when no module has two parts of one name. That the products list
each edge at both ends is what `ProductIsSimple` says of them. `MCWiring` checks
that its instance satisfies both (`NamesAreApart`). Stating the theorem showed
that `AutoGatesOwned` had told automatic gates by their label alone and was
false of an inserted product with such a gate; it now means what no definition
names.

For compaction, the inductive invariant is the conjunction of the first three,
and none of the three is inductive without the others. That the walk stands on a
gate with a neighbour after a step needs `Symmetric(g)`: the gate it came from
is in the new gate's list. That it stands on an *unmarked* gate needs
`Loopless(g)`: what was marked is the gate it left. That the lists still agree
after `LinkEnd` needs the ids of both ends to be ids of `g`. The lemmas of
`GraphProofs` say what `graph_find_node` returns, what `graph_add_node` and
`graph_add_edge_id` change, and that they preserve the lists' agreement;
`CompactProofs` has one lemma for each group of actions (`ScanStep`, `WalkStep`
with `FollowStep`, `JoinStep`, `CopyStep`, `FailStep`).

That compaction implements `Bridge` takes two more invariants. The program
changes the graph it is reading, so the first (`SInv` in `BridgeProofs`) says
what the input still is: no type has changed but that of marked gates, lists
were only appended to (`Kept`), and where the list of an unmarked gate has
grown, the gate is the end of a dangling chain and sits in the part of the list
of the NODE being scanned that is still ahead (`PendingAt`). `OnChain` and
`EndOfWalk` say that the walk is on a chain that begins at this NODE, so that
what it finds is a link. The second (`LInv`) says that nothing is left out.
Either the call is bound to fail (`Doomed`), and then the input has a cause, or
every marked gate lies on a chain that was walked from end to end and has its
ends linked (`Complete`), or on the `Trail` of the walk that is under way; and
each entry the scan has passed is a marked gate or a gate without another
neighbour (`Lonely`). When the scan is over, a chain is within one of these
(`ChainsLeast`: `ChainsFrom` is the least set of gates closed under
neighbourhood; a recursive function over the naturals, so ordinary induction on
a set of naturals, `SetInduction`, is enough), and its links are there. For the
copy, `CInv` has a map from the new nodes to the NODEs that keeps order and
names (`CopyOf`), and, provided a name tells a NODE, an edge between two new
nodes exactly when the loops have passed the edge between their originals
(`EdgesOf`). `Refinement` puts these together, one lemma per kind of step.
`DotOutput` needs in addition that an edge is printed once: the lists agree and
repeat nothing (`ListsStayInStep`), so the printed edges are in bijection with
the links.

`AttrsOfTheChains` needs what the walk has read. While it is at a gate, `LInv`
also says that the attribute it has is one of the gates behind it, and that they
have none if it has none (`Reads`); that those gates are all on the chain of the
gate where the walk began; and, when it ends at another NODE, that they are that
whole chain (`ChainOf`), so the attribute is one the chain carries. With that,
each edge between two NODEs of the graph that is walked has an attribute it may
have (`AttrsKnown`), the original edges because they still have their own. The
copy takes the attribute along (`AttrsInv`), in both lists of an edge because
the lists of the original agree. The walk does not look at the entry of the NODE
it starts from, and it takes the attribute on the gate's side of the edge to a
NODE for one of the chain. `PlainEnds` says that edges between gates and NODEs
have none, as `add_gate` and `add_auto_gate` make them; `MCCompact` checks that
the graphs of `compact_bridge` satisfy it (`UniqueTells`).

`NamesTell` says that no NODE with neighbours has the name of another node with
neighbours. Without it the copy finds the wrong node, so it is what the code
needs; `Survival` does not need it. The runs check that it holds of the graphs
of `compact_bridge` (`UniqueTells`), and `compact_safety` includes graphs of
which it does not hold.

For products, nothing is known of the operands but that they are graphs, so what
the loops ask for has to be worked out first. The loops are sequences of
sequences laid end to end (`ForEach`); `LoopMembers` says what is in one,
`CallsMembers` what calls each product makes (`AskedAt`), and `AddGateStep`,
with `FoldLeftSteps`, what the gates of one pair do to the graph. The first
invariant, `GraphInv`, holds of any operands. `Shape` is the part about the
graph: its lists agree, and a node with edges is the one its name finds, which
is inductive because edges are only ever made between nodes found by name.
`NodesInv` says that the NODEs made and the pairs to come are together the pairs
in their order; this needs that no call that makes a gate is refused: a gate's
name is longer than that of its pair, so the two ends differ, and both were just
added. `GatesInv`, where names tell pairs apart, adds that what is next to a
pair is its own gate (`OwnGates`), that a pair that was made has all its gates
(`Complete`), and that no two pairs are connected while nodes are made
(`NoEdges`), which is where the second invariant starts. That is `EdgesInv`: of
sound operands, each edge between pairs, and each call to come, is one of the
definition and has its attribute (`OnlyEdges`, `IsEdge`); each edge of the
definition is there or still to be asked for, from one end or the other
(`EdgesOrCalls`); and nothing has been refused. `CallsAreEdges` and
`EdgesAreCalled` establish it. A loop that takes only higher ids finds each edge
from one of its ends because the operands' lists agree (`AdjacentBothWays`);
that both calls for an edge carry the same attribute needs this too, and that no
list repeats an entry, or the entry found first would count (`AttrOfEntry`).

For expansion, `StacksNest` is not inductive: that a function takes off what it
has put on needs to know how many entries it holds at each stage. `IInv` adds
this (`FrameOK`: for each kind of frame and each stage, the exact value of
`held` and what may be called), and one fact about the whole stack: entries held
by an outer frame lie below the base of *every* inner one. Adjacent frames would
give this by induction on the height of the call stack; stated as a conjunct of
`Chain` it is preserved step by step. `Replaced`, `Pushed` and `Popped` are the
three things an action can do to the call stack, with the parameters and the
path that go with it; each action is then one application of one of them.
`ExpandTypeOK` follows from the same invariant. `ExpandProofs` opens no action
of `Wiring`: its results hold whatever the operations on the graph do.

For replacement, the invariant `RInv` is one of the whole expansion, for a
handing over starts from whatever graph the connections, products and
replacements before it have made. `Operates` says that every step of the
interpreter does to the graph what one action of `Wiring` or `Replace` does;
`RInv` is preserved by each of those. Outside a handing over it says that any
two nodes that have not handed over list each other or neither lists the other
(`BothWays`); an emptied node may still be in lists, but its entries no longer
count. During a handing over all that is known is known of the graph at its
beginning. `Kept`: the nodes the loop has passed are emptied, all others are
what they were. `Settled`, which holds between two nodes of the loop: the
entries of the nodes that still count are those of the old graph, with each node
that was passed merged into its successor. `Moving`, which holds while node `i`
hands its list to `s`: the first entry for `i` in a neighbour's list is turned
before the neighbour's entry is copied, so in between an edge is not where
`Settled` wants it from either side. `Moving` says where it is: still ahead in
`i`'s list, with an entry for `i` or already for `s` on the other side, or at
`s` from both sides; and no entry behind leads back to `i`, for such an entry is
the one of `i`'s own list that is turned, while it is read. `HandedOn` states
the effect of one entry, `HandEntryEffect` shows the code has it, and everything
else reasons from `HandedOn` alone. TLC checked `RInv`, without `Clean`, on the
definitions of the run before it was proved. When the loop is over, `Settled` is
`HandingOverMerges` and gives back `BothWays`, from which `LiveListsAgree`
follows.

`NothingStale` needs to know more of the entries than between whom there is one.
`Clean`, a part of `RInv` for graphs in which no list named a neighbour twice or
a node that is gone, says that each entry of a node that counts stands for an
edge of the old graph, no two for the same (`Traced`); that two entries for one
node are possible only where that node is live, so may have taken entries over
(`Single`); and that whoever still leads to `i` is still ahead in `i`'s list
(`Awaited`). A node that is replaced is not live, so whoever leads to it has one
entry for it, and turning the first turns all of them. When the loop is over the
map from entries to edges is injective, which bounds their number. That a marked
node has a name (`MarkedNamed`) keeps apart a node that was replaced without a
successor and one that has handed over.

Preparing the proof of `NothingStale` showed that it was false as it had been
stated, of definitions that replace the nodes of one name three times: the first
handing over leaves a list with two entries for one node, the second turns only
one of them, and the third starts from a graph in which no list repeats an entry
but one leads to a node that is gone. The property now says what it needs to
know of the graph at the beginning, that nothing is stale in it already
(`NoneStale`), and promises the same of the graph at the end; the definitions of
`Thrice` are among the inputs.

`AskedSurvives` needs an invariant of its own, `AInv`, on top of `RInv`. Outside
a handing over, what was asked of two nodes is there (`Reaches`): each of the
edge's two ends is the node itself, or a neighbour that is named as a part of it
(`EndAt`), whether it is still live or has been marked. During a handing over
`AInv` speaks of the graph at the beginning: what is asked now was asked then,
of nodes whose edges the nodes that are asked now have. So the lists, which do
not agree while they are edited, need not be looked at until the loop is over;
then `Settled` takes every end, and the edge between the two ends, from the old
graph to the new one (`EndMerged`, `ReachesMerged`), because a successor has the
name of the node it succeeds (`CurStays`). That a connection establishes
`Reaches` is that `add_auto_gate` names the gate after its node and connects it
(`EndReached`). The operations of `Wiring` are gone through once for both
invariants (`Rewires`). TLC checked `AInv` on the definitions of the run first.

This property, too, was false as it had been stated, and no input of the run
showed it: a gate that was connected can be replaced by a compound module with a
submodule of the gate's name, so that a *node* takes over the gate's edge. The
property asked for gates at the ends of the edge. It now asks for whatever is
live and named as a part of the node (`EndsOf`), it speaks of all states between
the calls of `do_replace` and not only of the last one, and definitions with
such a replacement (`Promoted`) are among the inputs.

Only model-checked: `Returns`, `Terminates` and `ReadingEnds` (liveness); the
properties of results, which compare with recursive definitions over the whole
input: `BuildsTheMeaning`, `RejectsWithCause`, `PrintsTheMeaning`,
`NothingMadeUp`, `FailsWithCause`, and all properties of `Parser`, whose
operators are recursive themselves.

## Not modelled

Error texts and their positions; `file_map` and `file_close` (input and output);
characters, escapes and the errors of the vendored tokenizer `jsmn.h` for what
is not JSON; the vendored expression evaluator `tinyexpr.c`, of which `Scope`
takes what scoping can tell apart; attributes of nodes; memory exhaustion;
`wrapper.py` and `vis.py`, a binding and a plotting script. A definition whose
recursion has no end exhausts the program's stack and is no input of any run.
What a caller might do with a definition that could not be read is not modelled:
no caller destroys or uses it.

## Plan

1. Done: `Graph`, `AutoGates`, `Wiring`, `Compact` with `Bridge`, `Products`;
   `Scope`, `Expand` with `Meaning`; `Replace` with `Replacing`; `Pipeline` with
   `Output`; `Json`, `Parser` with `Reading`, `Teardown`; the proofs about
   `Wiring`, `Compact`, `Products`, `Expand` and `Replace`.
2. No proofs are left that were planned. The properties of results and of the
   parser stay with TLC.
