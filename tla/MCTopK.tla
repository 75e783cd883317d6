------------------------------- MODULE MCTopK ------------------------------
(***************************************************************************)
(* ParallelTopKMiner over a small database, with supports that tie: all of *)
(* three events, however they are combined, occur twice or more, those     *)
(* seven episodes are the answer, and the fourth event is found first.     *)
(* And, by itself, CompositeTopKMiner over three parallel episodes, in     *)
(* descending order of support as ParallelTopKMiner returns them: five     *)
(* episodes, of up to three blocks, occur twice or more, and none of them  *)
(* may be missing.  Then TKE on every sequence of a few event sets; and,   *)
(* by itself, the composite episodes of up to three blocks over four       *)
(* timestamps, extended by every parallel episode with every support.      *)
(* And the validators of dependencies in graphs, on every graph of some    *)
(* shapes.                                                                 *)
(***************************************************************************)
EXTENDS TopKMiner, Tke, CompositeEpisode

CONSTANTS Database, EventsNum, BlockEpisodes, Window, EventNumbers, Length

FourEvents == <<{0, 1, 2}, {2}, {0, 1, 2}, {2}, {0}, {3}>>
Lists == BuildLocationLists(Database, EventsNum)

(* The search sees the events of an episode.                               *)
EpisodeSet == (SUBSET (0 .. EventsNum - 1)) \ {{}}
LocationsOf[es \in EpisodeSet] ==
  IF Cardinality(es) = 1 THEN Lists[Max(es)]
  ELSE ParallelExtension([events |-> es \ {Max(es)}, locations |-> LocationsOf[es \ {Max(es)}]],
                         Max(es), Lists).locations
EventsOf(eps) == [i \in DOMAIN eps |-> eps[i].events]
SeedsTable == EventsOf(ParallelSeeds(Lists, EventsNum))
ChildrenTable ==
  [es \in EpisodeSet |->
     EventsOf(ParallelExtensions([events |-> es, locations |-> LocationsOf[es]],
                                 Lists, EventsNum))]
ExtendsTable ==
  {p \in EpisodeSet \X EpisodeSet : p[1] = {x \in p[2] : x <= Max(p[1])}}
SupportTable == [es \in EpisodeSet |-> Cardinality(LocationsOf[es])]

-----------------------------------------------------------------------------
ThreeParallelEpisodes ==
  << [events |-> {0}, locations |-> {2, 3, 4, 5}],
     [events |-> {1}, locations |-> {4, 9}],
     [events |-> {2}, locations |-> {10}] >>

(* No occurrence is longer than the window, and an episode that does not   *)
(* occur is not extended.                                                  *)
BoundsOf[blocks \in Seq(DOMAIN BlockEpisodes)] ==
  IF Len(blocks) = 1 THEN BoundListOf(BlockEpisodes[blocks[1]].locations)
  ELSE LET whole == [blocks |-> Front(blocks), bounds |-> BoundsOf[Front(blocks)]]
       IN CompositeExtensions(whole, BlockEpisodes, 1, Window)[Last(blocks)].bounds
Extended(blocks) ==
  IF BoundsOf[blocks] = <<>> THEN <<>>
  ELSE [i \in DOMAIN BlockEpisodes |-> Append(blocks, i)]
Reached[n \in 1 .. Window + 1] ==
  IF n = 1 THEN {<<i>> : i \in DOMAIN BlockEpisodes}
  ELSE UNION {ToSet(Extended(e)) : e \in Reached[n - 1]}

(* The search sees the indices of an episode's blocks.                     *)
BlockEpisodeSet == UNION {Reached[n] : n \in 1 .. Window + 1}
BlockSeedsTable == [i \in DOMAIN BlockEpisodes |-> <<i>>]
BlockChildrenTable == [e \in BlockEpisodeSet |-> Extended(e)]
BlockExtendsTable == {p \in BlockEpisodeSet \X BlockEpisodeSet : IsPrefix(p[1], p[2])}
BlockSupportTable == [e \in BlockEpisodeSet |-> Len(BoundsOf[e])]
SupportOfBlock(b) == Cardinality(BlockEpisodes[b].locations)
BlockExtensionSupport == [e \in BlockEpisodeSet |-> SupportOfBlock(Last(e))]
BlockLeastSupport ==
  [e \in BlockEpisodeSet |->
     Min({BlockSupportTable[e]} \cup {SupportOfBlock(b) : b \in ToSet(e)})]

-----------------------------------------------------------------------------
(* TLC evaluates a constant's definition at every use, any other once.    *)
MCEpisode == EpisodeSet
MCSeeds == SeedsTable
MCChildren == ChildrenTable
MCExtends == ExtendsTable
MCSupport == SupportTable

VARIABLES
  part,
  c_top_k, c_explore, c_current_minsup, c_stored, c_tasks, c_processed, c_tasks_sem,
  c_tasks_in_flight, c_terminate_flag, c_pc, c_todo, c_got_any, c_worker
compositeVars ==
  <<c_top_k, c_explore, c_current_minsup, c_stored, c_tasks, c_processed, c_tasks_sem,
    c_tasks_in_flight, c_terminate_flag, c_pc, c_todo, c_got_any, c_worker>>

Composite ==
  INSTANCE TopKMiner WITH
    Episode <- BlockEpisodeSet, NoEpisode <- <<>>, Seeds <- BlockSeedsTable, Children <- BlockChildrenTable,
    Extends <- BlockExtendsTable, Support <- BlockSupportTable, ExtensionSupport <- BlockExtensionSupport,
    LeastSupport <- BlockLeastSupport, CutsExtensions <- TRUE, K <- 5,
    top_k <- c_top_k, explore <- c_explore, current_minsup <- c_current_minsup, stored <- c_stored,
    tasks <- c_tasks, processed <- c_processed, tasks_sem <- c_tasks_sem,
    tasks_in_flight <- c_tasks_in_flight, terminate_flag <- c_terminate_flag,
    pc <- c_pc, todo <- c_todo, got_any <- c_got_any, worker <- c_worker

(* These episodes form a search tree too.                                  *)
ASSUME CompositeAssumption == Composite!TopKMinerAssumption /\ Composite!SearchTreeAssumption

MCDatabases == [1 .. Length -> (SUBSET EventNumbers) \ {{}}]

(* Patterns, and graphs for them: a label for every vertex, edges where    *)
(* the labels are those of an edge of the pattern, of which some are       *)
(* there in any case, and the value "1" or at some vertices also "0".      *)
Graphs == INSTANCE Gfds
VARIABLES shape, graph
graphVars == <<shape, graph>>

NumberedFrom0(s) == [v \in 0 .. Len(s) - 1 |-> s[v + 1]]
PatternOf(labels, edges) ==
  [size |-> Len(labels), label |-> NumberedFrom0(labels), edges |-> [e \in edges |-> "e"],
   attributes |-> [v \in 0 .. Len(labels) - 1 |-> <<>>]]
Value(v, c) == << <<v, "x">>, <<-1, c>> >>
Same(u, v) == << <<u, "x">>, <<v, "x">> >>
Shape(pattern, premises, conclusion, labels, fixed, valued) ==
  [gfd |-> [pattern |-> pattern, premises |-> premises, conclusion |-> conclusion],
   labels |-> labels, fixed |-> fixed, valued |-> valued]
Shapes == <<
  Shape(PatternOf(<<"A", "B">>, {{0, 1}}), <<>>, <<Same(0, 1)>>, <<"A", "B", "A", "B">>, {}, 0 .. 3),
  Shape(PatternOf(<<"B", "A", "B">>, {{0, 1}, {1, 2}}), <<Value(0, "1")>>, <<Value(2, "0")>>,
        <<"A", "B", "B", "A">>, {}, {1, 2}),
  Shape(PatternOf(<<"A", "B", "C", "D">>, {{0, 1}, {1, 2}, {2, 3}}), <<>>, <<Value(0, "1")>>,
        <<"A", "B", "C", "D", "B", "C", "A">>, {{0, 1}, {1, 2}, {2, 3}}, {6}),
  Shape(PatternOf(<<"A", "B", "C">>, {{0, 1}, {1, 2}, {0, 2}}), <<Value(1, "0")>>, <<Value(1, "1"), Value(2, "1")>>,
        <<"A", "B", "C", "A", "B", "C">>, {{0, 1}, {1, 2}, {2, 3}, {3, 4}, {4, 5}, {0, 5}}, {1, 4}),
  Shape(PatternOf(<<"A", "B", "C", "D", "E">>, {{0, 1}, {1, 2}, {0, 2}, {0, 3}, {3, 4}}), <<>>, <<Value(0, "1")>>,
        <<"A", "B", "C", "D", "E", "D", "A">>, {{0, 1}, {1, 2}, {0, 2}, {0, 3}, {3, 4}}, {6}),
  Shape(PatternOf(<<"A", "B", "C", "D">>, {{0, 1}, {1, 2}, {2, 3}}), <<>>, <<Value(1, "1")>>,
        <<"A", "B", "C", "D", "C", "B", "C">>, {{0, 1}, {1, 2}, {2, 3}, {0, 5}}, {5}) >>
Possible(s) ==
  {e \in kSubset(2, 0 .. Len(s.labels) - 1) :
     /\ Cardinality({s.labels[v + 1] : v \in e}) = 2
     /\ \E d \in DOMAIN s.gfd.pattern.edges : {s.labels[v + 1] : v \in e} = {s.gfd.pattern.label[v] : v \in d}}
GraphWith(s, edges, zeros) ==
  [size |-> Len(s.labels), label |-> NumberedFrom0(s.labels), edges |-> [e \in edges |-> "e"],
   attributes |-> [v \in 0 .. Len(s.labels) - 1 |-> [x \in {"x"} |-> IF v \in zeros THEN "0" ELSE "1"]]]
NoGraph == shape = 1 /\ graph = None
Draw ==
  /\ graph = None
  /\ \E edges \in SUBSET (Possible(Shapes[shape]) \ Shapes[shape].fixed), zeros \in SUBSET Shapes[shape].valued :
       graph' = GraphWith(Shapes[shape], edges \cup Shapes[shape].fixed, zeros)
  /\ UNCHANGED shape

TkeIdle ==
  /\ loaded = CHOOSE d \in Databases : TRUE
  /\ event_sequence_ = loaded /\ reverse_mapping_ = <<>> /\ top_k_frequent_episodes_ = {}
  /\ executes = MaxExecutes /\ asked = None
NotExtended == sequence_ = <<{1}>> /\ bound_list_ = BoundListOf({1}) /\ refused = None

MCInit ==
  /\ TopKMinerInit /\ Composite!TopKMinerInit
  /\ \/ part \in {"parallel", "composite"} /\ TkeIdle /\ NotExtended /\ NoGraph
     \/ part = "episodes" /\ TkeIdle /\ EpisodeInit /\ NoGraph
     \/ part = "tke" /\ TkeInit /\ NotExtended /\ NoGraph
     \/ part = "graphs" /\ TkeIdle /\ NotExtended /\ shape \in DOMAIN Shapes /\ graph = None
MCNext ==
  /\ UNCHANGED part
  /\ \/ part = "parallel" /\ Next /\ UNCHANGED <<compositeVars, tkeVars, episodeVars, graphVars>>
     \/ part = "composite" /\ Composite!Next /\ UNCHANGED <<vars, tkeVars, episodeVars, graphVars>>
     \/ part = "tke" /\ TkeNext /\ UNCHANGED <<vars, compositeVars, episodeVars, graphVars>>
     \/ part = "episodes" /\ EpisodeNext /\ UNCHANGED <<vars, compositeVars, tkeVars, graphVars>>
     \/ part = "graphs" /\ Draw /\ UNCHANGED <<vars, compositeVars, tkeVars, episodeVars>>
     \/ part \in {"tke", "episodes", "graphs"} /\ UNCHANGED <<vars, compositeVars, tkeVars, episodeVars, graphVars>>
MCFairness ==
  /\ WF_vars(part = "parallel" /\ CallerStep)
  /\ \A w \in Workers : WF_vars(part = "parallel" /\ WorkerStep(w))
MCSpec == MCInit /\ [][MCNext]_<<part, vars, compositeVars, tkeVars, episodeVars, graphVars>> /\ MCFairness
-----------------------------------------------------------------------------
(* The search ends, whichever of its threads the scheduler favours.        *)
SearchEnds == part = "parallel" => Terminates

(* Cutting the extensions at the first that is too rare loses none of the  *)
(* episodes of the answer.                                                 *)
CompositesAreRight == part = "composite" => Composite!NothingIsLost /\ Composite!TopKIsRight

(* Each validator of dependencies in graphs tells whether one holds, as    *)
(* far as it does (see the named conditions in Gfds), that with an index   *)
(* where it erases nothing from a list that it is going through; and the   *)
(* balancer hands out all work once.                                       *)
GraphsAreRight ==
  part = "graphs" =>
    IF graph = None
    THEN \A weights \in SUBSET (1 .. 9), n \in 1 .. 3 : Graphs!BalanceIsRight(Graphs!Ascending(weights), n)
    ELSE /\ Graphs!NaiveIsRight(graph, Shapes[shape].gfd)
         /\ Graphs!GfdValidatorIsRight(graph, <<Shapes[shape].gfd>>, 2)
         /\ Graphs!EgfdIsRight(graph, Shapes[shape].gfd)
=============================================================================
