# TLA+ models of the Corona School matching

The program matches pupils who want tutoring with college students who offer it.
It reads two json files, builds a bipartite graph, gives every edge a cost (high
is good), computes a matching of maximum cost and writes the matching and some
statistics to two json files. It is called as a program of its own
(`src/src/main.cpp`), or through a node addon (`src/index.cpp`) with a TypeScript
command line around it.

## Inventory

| Component | Source | State | Operations | Interaction |
|---|---|---|---|---|
| Loading of nodes, edges | `graph_creator.cpp`, `graph_creator.h`, `types.h` | vectors of pupils and students, vector of edges | `init_from_json`, `create_pupils`, `create_college_students`, `create_edges`, `accepts` | nodes hold callbacks that capture their own address; `create_edges` calls them |
| Edge costs | `costs.h`, `graph_creator.cpp` | coefficient per cost type, cached cost per edge | `add_*`, `balance_edge_costs`, `set_cost_coefficient`, `compute_edge_cost`, `init_edge_costs` | reads nodes and edges, writes `edge.cost`, which the matching reads |
| Matching, `SuccessiveShortestPath` | `matching.h`, Boost.Graph | flow network, residual capacities, potentials, distances, predecessors | network construction, search, augmentation, extraction | the algorithm that the program selects (`algo.h:19`, `main.cpp:59`) |
| Matching, `CycleCanceling` | `matching.h`, Boost.Graph | the same network, heuristic matching | heuristic, Bellman-Ford, cycle augmentation, extraction | the other value of the `algorithm` parameter |
| Statistics and output | `stats.h` | marks of who is covered, counters per subject | `test_matching_valid`, `dump_stats`, `dump_matching_edges_into_json` | read the nodes, the edges and the result, write the files |
| Pipeline and addon | `algo.h`, `main.cpp`, `index.cpp` | streams, the files | argument and path checks, then everything above in order | file system, exceptions across the addon boundary |
| Wrapper and command line | `module/run.ts`, `cli/index.ts` | none | one synchronous call | prints success when the addon returns |
| Boost, nlohmann json | `boost_includes`, `json-develop` | | | vendored |

The program is sequential. What is hard in it is not concurrency but long runs of
steps whose intermediate states are not what the final state suggests: a flow that
is rerouted again and again under potentials that must fit each other, `int`
weights cut from `double` costs, unsigned arithmetic at the ends of files and
ranges, callbacks that outlive a reallocation, coefficients that are collected and
adapted in turn, and files that change between their check and their use. What
makes the components correct:

* loading: the intended entries become nodes, an edge is there exactly for an
  acceptable pair, no callback dangles;
* costs: coefficients are those of the shares, the cached cost is current, balancing
  keeps the order of the edges and does not inflate;
* matching: the result is a matching, no search meets a negative reduced weight, no
  overflow reaches a result, the loops end, the cost is the maximum up to the
  rounding that can be quantified;
* statistics: the verdict on a matching is right, the counters agree with each other
  and with the matching, where unsigned arithmetic wraps around no count is lost;
* pipeline: nothing is overwritten before everything was read, a missing file is an
  error that the caller sees, the outputs are complete unless a stream failed.

`PROJECT.json` lists every hazard with its line and the properties that cover it.

## Modules

| Module | Models |
|---|---|
| `FlowNetwork` | vertices and arcs that both algorithms share; the conversion of costs to `int` |
| `MaxCostMatching` | `compute_max_cost_matching` with `SuccessiveShortestPath`, into Boost |
| `SuccessiveAssignment` | abstract specification: members of the smaller side are taken in one by one, each round the best assignment of its size |
| `MaxCostMatchingRefinement` | the mapping from the first to the second |
| `MaxCostMatchingProofs` | theorems about the steps of `MaxCostMatching`: the flow, the potentials, the value of the flow |
| `MaxCostMatchingOptimality` | theorems about what `MaxCostMatching` delivers: the best matching but for rounding, the refinement, the size of the potentials |
| `CycleCanceling` | `compute_max_cost_matching` with `CycleCanceling`, into Boost |
| `CycleCancelingProofs` | theorems about `CycleCanceling` |
| `NodeLoader` | `init_from_json` up to `create_edges`, with the vectors' buffers |
| `NodeLoaderProofs` | theorems about `NodeLoader` |
| `EdgeCosts` | the rest of `init_from_json`: components, balancing, caching |
| `EdgeCostsProofs` | theorems about `EdgeCosts` |
| `Statistics` | `test_matching_valid` and the subject counters of `dump_stats` |
| `StatisticsProofs` | theorems about `Statistics` |
| `Pipeline` | a run from its arguments to its output files, with the file system around it |
| `PipelineProofs` | theorems about `Pipeline` |
| `FiniteSums` | lemmas that the proofs share: induction, remainders, sums over finite sets |
| `MC*` | values of the constants for TLC |

The components run one after the other and share nothing but what one leaves to the
next. Each module therefore starts from every value that its predecessor may leave,
within the bounds of its instance: `EdgeCosts` from any data of the nodes and any
edges between nodes with a common subject, `MaxCostMatching` from any graph with any
costs, `Statistics` from any list of edges, valid or not. What one module shows of
its results is what the next one relies on. `Pipeline` puts the phases in their order,
with the computation as a single step.

Definitions that no action uses and whose name says what is wrong with them
(`DummyArcsOfLargerSide`, `ReserveNothing`, ...) are mutated forms of the definition
that follows them. For each property `PROJECT.json` names one which the property
detects, to show that it would notice a bug of this kind in the code.

### MaxCostMatching

An arc is the pair of its ends; there are no parallel arcs, so that Boost's edge
descriptors and the map from pairs to descriptors are not needed. All capacities are
1, so `residual_capacity` is the set of arcs that have some left. A cost is an integer
number of units of `1/Scale`; `ToInt` truncates like `static_cast<int>`.

| Action | Code |
|---|---|
| `Init` | the network of `matching.h:117-157` with its dummy arcs; residual capacities and potentials set at the head of the Boost function |
| `StartSearch` | predecessors reset, Dijkstra's initialisation |
| `ExamineVertex(u)` | one vertex taken from the heap and all its arcs, with colours (`queue`: gray, `examined`: black) and relaxation, or the `negative_edge` exception of `examine_edge`, which ends the program. Among vertices of equal distance the heap's choice is left open |
| `StopSearching` | `t` has no predecessor: the loop ends |
| `UpdatePotentials` | the potentials grow by the distances, with `INT_MAX` for unreached vertices; each signed overflow yields any of `OverflowOutcomes`, for each vertex its own |
| `PushFlow` | one arc of the walk back in `augment`; its first loop computes delta, which is 1 |
| `Extract` | saturated arcs become matching edges, the flow cost becomes the returned cost |

### CycleCanceling

`TakeEdge` is one accepted edge of the sorted list (the order of ties is open, as
`std::sort` leaves it), `AdaptFlow` the capacities set by hand and the arc from `s` to
`t`, `RelaxArc` and `EndRound` the loops of Bellman-Ford in the order in which the graph
lists its arcs, `FindCycle` the walk in `edge_not_minimized`, `Augment` the flow around
the cycle with the reset of distances and predecessors, `Extract` the result. Residual
capacities are numbers here, as the arc from `s` to `t` may carry several units.

### NodeLoader

A file is a sequence of entries. `ReserveForFile` starts a loop, `SkipOld`,
`SkipUnlisted` and `Load` are the three ways through its body, `EndOfFile` and
`CreateEdges` follow. A vector is its capacity and the number of its current buffer; a
node records the buffer in which it was constructed, which is the address its callback
captured. A callback of a node that was moved may answer anything. `parse_subject`
returns nothing for an unknown name: any of `UnknownOutcomes`.
`EdgesAreTheAcceptablePairs` goes by the files: the known subjects of an entry count
whatever else it names, and an edge that the files do not explain needs an unknown name.
The position in a vector is the id, counted from 1. The uuid lists are parameters of
`init_from_json`; the two callers in the repository pass none.

A range of grades is read as two `unsigned` numbers, so that a -1 in the file is the
greatest of them, and the loop over an inclusive range that ends there never ends:
`RunOutOfMemory` is the `bad_alloc` that follows, which nobody catches.
`StopsAtEndlessRanges` says whose range it takes: that of a listed student of the window,
for the others are never looked at. A pupil's grade
is narrowed to the 8 bits of `Grade`. `UnsignedModulus` and `GradeModulus` stand for the
two widths.

### EdgeCosts

`AddComponents`, then `Collect(type)` for each type in the file (the loop over all
edges), `EndCollection` with the early return, `Adapt(type)`, `EndAdaption`,
`CacheCosts`. Doubles are exact fractions, so that rounding of floating point is left
out here, unlike the truncation in the network. Waiting days are a `double`
(`types.h:116`); they are integers here because what a unit of time is does not matter.

Waiting days may be negative: a `createdAt` lies in the future, or is read in another time
zone. A type whose total then runs against the total of all types is *turned* (`IsTurned`):
its coefficient is negative, and what was a bonus is a malus. `BetterStaysBetter` says
that this happens to the turned types and to no other.

### Statistics

`VerifyEdge` is one round of the loop in `test_matching_valid`, with the `break` at the
first error, `EndVerification` its regular end. `CollectRequestsAndOffers` is
`collect_subject_requests_offers`, `CountEdge` one round of the loop over the matching
in `dump_stats`, `CountUnmatched` the loop over the pupils without a match.
`get_same_subject_number` counts every offer of the student that the pupil requests,
once (the `break` in its inner loop), and an offer counts twice that is in the file
twice. All counters are `unsigned`, numbers modulo `UintModulus`. The matching to be
reported is any list of edges, so that the verification has something to find.

### Pipeline

| Action | Code |
|---|---|
| `CheckArguments`, `CheckInput`, `CheckOutput` | the tests in `Match` of `index.cpp`: number and type of the arguments, then one file at a time. `exists` throws when it cannot tell (`out_of_reach`), which nobody catches. `main` looks at the number of its arguments only and goes on to `OpenInputs` |
| `OpenInputs` | the three `ifstream`s of `algo.h:13-16`: each stream has the state its file has now, or fails without a word |
| `ReadInput` | one of the three places where json is parsed, with its uncaught exception (`terminated`) |
| `Compute` | everything between reading and writing |
| `OpenOutput`, `WriteOutput`, `CloseOutput` | one `ofstream`, which empties the file when it opens, and whose failures go unnoticed |
| `ChangeInput` | somebody else changes an input that has not been opened yet; `changed` holds those that were changed after their check |
| `RewriteInput` | somebody else writes over an input that is open and not yet read |
| `ChangePlace` | somebody else changes the folder of an output, at any time |
| `Kill` | the process ends at any point |

## Runs

| Run | Bounds | Shows |
|---|---|---|
| `ssp_fewer_pupils` | 2 pupils, 3 students, costs 0.5, 1, 1.5, with fairness | `TypeOK`, `FlowIsMatching`, `FlowIsMaximum`, `CostWithinRounding`, `Termination` |
| `ssp_fewer_students` | 3, 2, costs -0.5, 1.5 | `NeverNegativeEdge`, `ReachedPotentialsFit`, `CoveredForever`, `ImplementsRounds` |
| `ssp_maximum_cost` | 2, 2, costs in halves | violated: what `matching.h:112` says |
| `cycles` | subgraphs of a path of 3 pupils and 3 students with a cycle of four in it, costs -1, 0.5, 2, with fairness | `TypeOK`, `FoundCycleIsNegative`, `FlowKeepsItsValue`, `BestFromHeuristicSize`, `Termination` |
| `cycles_maximum_cost` | subgraphs of the path, costs 1, 4, 5 | violated: what `matching.h:112` says |
| `loader` | files of up to 3 of 3 pupils and of 4 students, window 2, three uuid lists, 16 grades, 32 unsigned numbers | `TypeOK`, `NoDanglingCapture`, `LoadsNewestListed`, `EdgesAreTheAcceptablePairs`, `StopsAtEndlessRanges` |
| `loader_constructs_all` | the same | violated: what `graph_creator.h:28` says |
| `costs` | 2 pupils and 2 students with data from sets of 3, 6 share files | `TypeOK`, `CostsAreBalanced`, `BalancingNeverInflates`, `BetterStaysBetter` |
| `costs_shares` | the same | violated: what `graph_creator.h:81` says |
| `stats` | 2 pupils and 2 students with 3 lists of subjects each, all edges, all lists of up to 2 edges, `unsigned` of 4 bits | `TypeOK`, `ErrorIffInvalid`, `SubjectsAddUp`, `UncoveredIsExact`, `FulfilledFitsOffered`, `WrapsOnlyByRepeatedOffers` |
| `pipeline` | two output paths, equal or not, all kinds of arguments, everything that can be the state of a file | `TypeOK`, `OutputsNeedReadInputs`, `MissingInputIsRefused`, `StatsAfterMatching`, `WrittenUnlessFailed` |
| `pipeline_written` | the same | violated: what `cli/index.ts:31` prints |

All graphs on the given nodes (in `cycles`, all subgraphs of the given one) and all
assignments of the listed costs are initial states. Two pupils and three students, and
the reverse, exercise both kinds of dummy arcs; the second search of three already
reroutes earlier flow, meets arcs of negative weight and leaves vertices out of reach,
whose potentials then overflow (`IntMax` is 31, above every path length of the
instance). Three nodes a side are needed for two things only: two units of flow on the
arc from `s` to `t`, and the path on which the heuristic's matching is larger than the
best one; a path of five edges has both. Files of 0 to 3 entries lie below, at and
above a window of 2. `size_t` has 4 bits in the model: any length minus the window that
is negative is far above every count. One of the students offers a range that ends at
-1, one of the pupils is in a grade that does not fit, one pupil and two students name
unknown subjects. One of the students waits for -4 days, which outweighs all the
rest in some instances and not in others.
Two edges are enough for a pupil or a student to be covered twice, for an error at the
first or the second edge, and for `num_uncov_sub` to wrap around and back. Two paths
are enough for the two outputs, which may share one.

None of the systems waits for anything: after the last action they stop, so that
deadlock is not an error (`CHECK_DEADLOCK FALSE`). `Termination` assumes weak fairness
of `Next`: a single thread computes without waiting. No fairness is assumed of
`Pipeline`, where the process may be killed, nor of `NodeLoader` and `EdgeCosts`, whose
loops go over finite files.

### What the runs say about the code

* The flow part does what it should: no negative edge, no harmful overflow (a vertex
  whose potential has overflowed is never reached again), maximum flow, and each round
  the best assignment of its size for the truncated costs.
* The truncation is the one source of error: the matching can miss the optimum, and the
  returned cost can exceed it, by less than 1 per member of the smaller side
  (`CostWithinRounding`), and the documentation promises neither.
* `CycleCanceling` finds the best matching that is at least as large as the heuristic's
  (`BestFromHeuristicSize`), which need not be the best one even for whole costs.
* The window of 1000 entries is silent: shorter files load nobody.
* A subject whose name the program does not know is reported and then used all the same,
  whatever it happens to be: it can bring a pupil together with a student who offers
  nothing that the pupil asks for.
* A range of grades that ends at the greatest `unsigned` (-1 in the file) brings the
  program down, if its student is in the window.
* The shares of the balanced costs are the shares of the file times the part of the
  edges on which the type costs something.
* `costs.h:105` speaks of the product of two preference values where 115 adds them: 2
  for every matching subject, as all preference values are 1. The model adds.
* `NoDanglingCapture` hangs on one line, the `reserve` for the whole file.
* `num_uncov_sub` wraps around when a student offers a subject twice, and gets into the
  file like this when more is covered in all than is requested. That is the only way
  (`WrapsOnlyByRepeatedOffers`): otherwise it and `num_cov_subjects` add up to the
  requests. Modulo 2^w they always do (`SubjectsAddUp`, which compares modulo
  `UintModulus`), and each of them is right when no list names a subject twice
  (`UncoveredIsExact`). What is fulfilled of a subject is compared with what is offered of
  it as long as all offers together fit in an `unsigned` (`FulfilledFitsOffered`).
* A better edge costs at least as much only when no share is negative
  (`BetterStaysBetter`), and what is better is turned around for a type whose total
  negative waiting days have brought to the other side of the total of all types.
* Outputs are touched after all inputs were read, in the order matching, statistics. But
  nobody looks at the state of the output streams: an unwritable folder, a full disk, or
  one path for both outputs end in a message of success. An output that fails leaves the
  other one whole (`WrittenUnlessFailed`).
* The addon refuses an output path without a folder (its `parent_path` is empty, and
  `exists` of it is false), which `main` accepts and could write. `CheckOutput` does the
  same; there is no property about it, as it would only repeat this guard.

## Proofs

Proved with TLAPS: each safety invariant and action property that a passing run checks,
and the refinement, for all values of the constants under the assumptions named in the
modules. What they require is what the types of the code give, and exact arithmetic:

* sizes are natural numbers (`SizeAssumption`), units and moduli positive
  (`ScaleAssumption`, `IntAssumption`, `UintAssumption`, `WindowAssumption`);
* costs, shares and waiting days are integers (`CostAssumption`, `DataAssumption`,
  `ShareAssumption`). In the code they are `double`s: this is not given by their types but
  a choice of units, of which any finite set of `double`s has a common one, so that sums,
  products and quotients are exact;
* files are sequences of entries and offers have at most one range of grades
  (`FileAssumption`, `OfferAssumption`); an overflow and an unknown subject have some
  outcome (`IntAssumption`, `SubjectAssumption` of `NodeLoader`); the edges are pairs of
  nodes (`CandidateAssumption`, `MatchingAssumption`);
* a vector has fewer entries than a `size_t` counts, and the window of 1000 is one of its
  values (`SizeAssumption` of `NodeLoader`); the greatest grade fits in a `Grade`,
  which is narrower than an `unsigned` (`GradeAssumption`); `Subject` is an enum, hence
  finite (`SubjectAssumption` of `Statistics`).

The theorems about the potentials, the value of the flow, its optimality and the
refinement have one premise more, named below.

`FiniteSums`. The proofs speak of sums over edges, arcs and lists, and those of the
community modules are defined by recursion over sets. The module first derives induction
over numbers and over finite sets from the well-foundedness of `<`, in a form that
quantifies over sets instead of predicates. It then shows that the recursive definition
has one value, and what this value does when an element is added, sets are joined,
summands are exchanged or compared, or the order of two sums is swapped. A count is a sum
of ones.

`MaxCostMatchingProofs`, part 1. The inductive invariant `FlowInvariant` adds to `TypeOK`:

* the residual capacities: of an arc and its reverse exactly one has capacity left;
* balance: no pupil passes on, and no student gets, more than one unit, except at the
  end of the walk that is under way in `augment`;
* the predecessors: each vertex with a predecessor was examined later than it (the
  variable `examined` numbers them), so that the walk back from `t` follows arcs with
  residual capacity, meets no vertex twice and ends at `s`.

The last part is needed because `PushFlow` is not checked by the code: nothing but the
order of the examinations keeps the walk from going round in a circle. From it follow
`TypeCorrect`, `FlowStaysMatching` (at most one arc with flow at every node) and, as an
action property, `PlacesAreKept` (a walk from `t` never runs backwards through a source
or a sink arc).

Part 2. `NoNegativeEdgeIsMet` says that Boost never throws
`negative_edge`, for all graphs whose costs lie between `-C` and `C`, under the premise
`PathsFit(ToInt(3 * C))`: the number of vertices times the largest weight is below
`IntMax`. No arc weighs more than `ToInt(3 * C)`, so the premise says that the weight of a
path fits in an `int`; it is satisfied by the instance of `ssp_fewer_students` (7 times 4 is
less than 31) and by any realistic input. What has to be shown is that the overflows of
unreached vertices, on whose outcome nothing is assumed, do no harm. The invariant
`PotentialInvariant` therefore speaks of a set of *live* vertices that contains `s` and
is closed under arcs with residual capacity: in it the potentials are not negative and
no reduced weight is. A search stays in this set. Its distances, taken with the
potentials, are weights of paths, bounded by the number of vertices examined before, so
that relaxation never overflows and vertices are examined in the order of their
distances; the examined ones are the live set of the next search, since they
alone are reachable. Pushing flow reverses arcs of reduced weight 0, which are harmless
in either direction.

Part 3. `FlowReachesMaximum` shows, under the same premise, that the
flow has the value which the returned cost assumes. `ConservationOK` adds to the balance
the other half of conservation: what a pupil gets from `s`, and what a student passes on
to `t`, is there on the other side. When a search ends without `t`, the examined vertices
are a cut without residual arcs out of it. If the pupils are fewer, a pupil without its unit
would be in the cut, and its dummy arc would carry flow out of it that the pupil does not get;
likewise for the students. So every member of the smaller side has its unit, and a
bijection from it to the arcs with flow out of `s` gives the value.

`MaxCostMatchingOptimality`, under the same premise.

* Part 1: `OptimalityHolds` is the inductive invariant that at all times there are
  *prices* of the vertices that fit every residual arc, live or not, and agree with the
  potentials on the live ones. They are what the potentials would be in integers without
  bounds, so the overflows do not enter. Prices that fit prove a flow the cheapest of its
  value: along the path of an assigned member they cancel out. `CostIsWithinRounding`
  follows by comparing matchings with assignments of the smaller side and adding up what
  each rounded weight drops, less than 1 per member.
* Part 2: `SearchesImplementRounds`, the refinement of `SuccessiveAssignment`. The mapping
  reads the flow *before* the walk that is under way, so that every step stutters but
  `PushFlow` at `s`, which takes one more member in, and `Extract`. That what this
  leaves is the best assignment of its size is the optimality of part 1 again, and that
  the others keep their places is that of the walk.
* Part 3: `ReachedPotentialsStayShort`. With the sides {`s`, pupils} and {students, `t`},
  only edges and dummy arcs cross over and weigh something, and to cross twice a
  path must come back over the reverse of one with flow. `ReachInvariant` counts the
  vertices of the search tree that were reached in this way; each has an arc with flow of
  its own, and there are at most as many of these as members of the smaller side.

`CycleCancelingProofs`. The walk back along predecessors is sound only if it ends on a
cycle, and nothing in the code says so. `CyclesInvariant` gives the account of the rounds:
a predecessor is the tail of an arc that was relaxed and may have come nearer since; an
arc can be relaxed in round `n` only when its tail can be walked back from for `n` steps;
a closed circle of predecessors has shrunk a distance that its next arc was relaxed for.
So after as many rounds as there are vertices the walk from any arc left repeats a
vertex, and the weights around the circle it ends on sum to less than zero
(`FoundCyclesAreNegative`). A unit pushed around a circle
enters and leaves every vertex, hence `FlowValueIsKept`. When no arc can be relaxed, the
distances are prices as above, and `CyclesEndWithTheBest` compares the result with any
matching at least as large as the heuristic's. `CyclesTypeCorrect` bounds the residual
capacities.

`NodeLoaderProofs`. `LoaderInvariant` adds `RoomOK` to `TypeOK` and `NoDanglingCapture`:
the side that is being loaded has room for its whole file and no more nodes than entries
it has passed, hence `create_pupils` never finds the vector full and never moves it.
`LoaderTypeCorrect` and `CapturesStayValid` follow. For `EdgesAreExact` the invariant
`EdgesInvariant` adds where a node comes from: its data is that of an entry of its file.
As no callback dangles, the answers are those of the data. An offer is accepted when its
name and a requested one parse to the same (`AcceptedIffOffered`), which for known names
means that they are the same, whatever the unknown ones parse to (`AcceptedIffCanHelp`).
For `NewestListedAreLoaded` the invariant
`LoadingInvariant` follows the counter: it is the position until the window is reached and
may fall behind after that, when unlisted entries are passed, but not to before the
window; the nodes are the listed entries of the window passed so far, the n-th node the
n-th of them. `size() - 1000` of a shorter file is a number past its end. With this
invariant `OnlyEndlessRangesStop` needs no more than `EndlessOK`: none of the students
passed in the window has an endless range.

`EdgeCostsProofs`. A fraction *stands for* the quotient of any two integers in its ratio,
whatever it was reduced to. `BalancingIsInvariant`: as long as totals are collected all
coefficients are 1, so that the totals are the raw ones and whole numbers; each adapted
coefficient is that of the closed form, and the cached cost is the weighted sum. It gives
`CostsTypeCorrect` and `CachedCostsAreBalanced`. For the next two the three balanced
coefficients are brought to a common denominator, over which the cost of an edge is an
integer combination of its raw costs. The sign of a balanced coefficient is never opposite to
that of the product of the total of its type and the total of all, so that each component
of a better edge contributes no less (`BetterEdgesStayBetter`). The sum over all edges is, type by
type, at most the type's share of the raw total (`BalancedCostsAreNotInflated`).

`StatisticsProofs`. `VerdictIsRight`: while no error has been met, exactly the ends of the
edges passed are marked and these edges are a matching; so an edge that is covered, or
that should not exist, makes the whole list invalid, and a list gone over to its end is
valid. The two marks that an edge sets although it should not exist are never read, since
the loop ends there. `CountersAreSums` is the invariant of `dump_stats`: each counter is,
modulo 2^w, the sum over the edges the loop has passed, with what an edge leaves uncovered
an integer that may be negative. `StatisticsTypeCorrect`, `CoveredAndUncoveredAddUp`,
`UncoveredSubjectsAreExact` and `FulfilledSubjectsFitOffered` follow by rearranging these
sums: over pupils instead of edges, as a valid matching has each once, and over subjects
instead of lists. For `UncoveredWrapsOnlyByRepetition` the integer sum behind
`num_uncov_sub` is compared with 0: when no offer outruns its requests, no edge takes off
more than it adds.

`PipelineProofs`. `PipelineInvariant` says for each phase how far the run has come: what
was checked exists or was changed by somebody else since its check, what was read was
readable, the matching was dealt with before the statistics. It yields
`PipelineTypeCorrect`, `OutputsTouchedAfterReading`, `MissingInputsAreRefused`,
`StatsComeAfterMatching` and `ReportedRunsWrote` for any set of output paths.

Model-checked only: liveness, that is `Termination` of both algorithms. The provers have no
rule for weak fairness of a whole next-state relation, which speaks of `ENABLED`. For
the first algorithm, what its argument would count is proved: every walk takes one more
member in (`SearchesImplementRounds`), and their number is bounded. The properties of
the `violation` runs are not theorems, as they do not hold.

## Not modelled

* The syntax of the json files: a missing field or a wrong type ends the program with an
  exception, which `Pipeline` knows as a malformed input. Unknown keys in the share file
  are undefined behaviour in `parse_cost_type`; the file is part of the program's own
  configuration and is taken to hold known keys.
* In `dump_stats`, what is summed up and written as it is: waiting days, pairs in one
  bundesland, costs by type. The average of no matches is 0/0, and an empty matching is
  written as `null` rather than as an empty list; the layout of the files is left out.
* Floating point rounding; dates, except that waiting days may be negative; the lists of
  names in `parse_bundesland` and `parse_subject`; costs too large for an `int`.
* `main.cpp` also has functions that read lists of uuids, which nobody calls.
* Boost's containers and heap, and nlohmann json.

## What could follow

1. Done: all components of the inventory except the vendored ones, the refinement of
   `MaxCostMatching`, and proofs of all safety properties that the runs check.
2. A weaker premise for the theorems about the potentials: `ReachedPotentialsStayShort`
   bounds them by the smaller side instead of the number of vertices, and the same count
   could take the place of `PathsFit` in part 2 of `MaxCostMatchingProofs`.
3. The composition of `NodeLoader`, `EdgeCosts` and `MaxCostMatching` in one state machine.
   As each starts from everything the one before can leave, it would show no new
   behaviour on instances that TLC can check; proofs across it would state what is now
   said in words above.
4. The decrease that `Termination` rests on as an action property of its own: the cost of
   the flow falls with every cycle that `CycleCanceling` cancels.
