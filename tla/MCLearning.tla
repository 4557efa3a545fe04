----------------------------- MODULE MCLearning -----------------------------
(***************************************************************************)
(* Small instances for TLC of the three components through which one run   *)
(* reaches another: the registry of media, the memory of runs and the life *)
(* of prompt proposals.  They share no state, so that each of them runs    *)
(* while the two others rest.                                              *)
(***************************************************************************)
EXTENDS PromptLifecycle, MemoryPipeline, AssetRegistry

CONSTANTS atlas, borealis, film, talk

VARIABLE part  \* the component that runs

MCRuns == 1..5
MCJobs == 1..3
MCProjectOf == <<atlas, atlas, borealis>>
MCMediumOf == <<film, film, talk>>

\* A job followed by another and by evaluations of their medium, one in a
\* rerun; runs of two projects that end at a human; runs that overlap.
Load(jobs, evaluates, ends, verdicts, live) ==
    [jobs |-> jobs, evaluates |-> evaluates, ends |-> ends, verdicts |-> verdicts,
     live |-> live, racing |-> live > 1]
MCWorkloads ==
    {Load(<<1, 2, 1, 2, 2>>, {3, 4, 5}, {"low", "medium", "elsewhere"}, {}, 1),
     Load(<<1, 3, 1>>, {}, {"low", "human", "elsewhere"}, Verdicts, 1),
     Load(<<1, 3, 1, 1>>, {}, {"human"}, {"best"}, 1),
     Load(<<1, 2, 1>>, {2, 3}, {"low", "medium"}, {}, 2)}

\* Reruns of a job; evaluations of one medium, one after the other and at a
\* time; two projects whose jobs have one id; two runs of a job at a time.
Task(jobs, ends, evaluates, live) ==
    [jobs |-> jobs, names |-> <<"a", "b", "c">>, ends |-> ends, evaluates |-> evaluates,
     live |-> live, overlap |-> live > 1]
MCMemoryWorkloads ==
    {Task(<<1, 1>>, {"kestrel", "merlin", NoWinner}, {}, 1),
     Task(<<1, 1, 1>>, {"kestrel", "merlin"}, {}, 1),
     Task(<<1, 2>>, {}, {1, 2}, 1),
     Task(<<1, 2>>, {}, {1, 2}, 2),
     [Task(<<1, 3>>, {"kestrel", "merlin"}, {}, 1) EXCEPT !.names = <<"a", "b", "a">>],
     Task(<<1, 1>>, {"kestrel", "merlin"}, {}, 2)}

MCRequesters == 1..3
Asks(asset, print, wanted, name) == [asset |-> asset, print |-> print, series |-> wanted, name |-> name]
MCAssetRequests ==
    {[of |-> of, overlap |-> FALSE] :
        of \in [1..3 -> {Asks("reel", None, None, "saga"), Asks(None, "sha", None, None),
                         Asks("reel", "sha", "saga", None), Asks("tape", "sha", None, "saga")}]}
    \cup
    {[of |-> of, overlap |-> TRUE] :
        of \in {<<Asks("reel", "sha", "saga", None), Asks("reel", "crc", None, "saga"),
                  Asks(None, "sha", None, "saga")>>,
                <<Asks("reel", None, None, "saga"), Asks("tape", None, "saga", None)>>}}

PromptsRest == Init /\ workload = CHOOSE w \in Workloads : TRUE
MemoryRests == MemoryInit /\ task = CHOOSE t \in MemoryWorkloads : TRUE
AssetsRest == AssetInit /\ request = CHOOSE q \in AssetRequests : TRUE

LearningInit ==
    \/ part = "prompts" /\ Init /\ MemoryRests /\ AssetsRest
    \/ part = "memory" /\ MemoryInit /\ PromptsRest /\ AssetsRest
    \/ part = "assets" /\ AssetInit /\ PromptsRest /\ MemoryRests

LearningNext ==
    \/ part = "prompts" /\ Next /\ UNCHANGED <<memoryVars, assetVars, part>>
    \/ part = "memory" /\ MemoryNext /\ UNCHANGED <<vars, assetVars, part>>
    \/ part = "assets" /\ AssetNext /\ UNCHANGED <<vars, memoryVars, part>>

LearningSpec == LearningInit /\ [][LearningNext]_<<vars, memoryVars, assetVars, part>>

============================================================================
