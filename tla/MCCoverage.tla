----------------------------- MODULE MCCoverage -----------------------------
(* The two ways to run a coverage provider: by itself, on three items in     *)
(* batches of two, in four kinds of circumstances; and by a pool of two      *)
(* threads, with a job for each item.  A behaviour is the story of one of    *)
(* them, and the other stays as it was.                                      *)
EXTENDS CoverageProvider, ThreadedCoverage, TLC

MCSettings ==
  {[ordered |-> FALSE, registered_only |-> FALSE, poison |-> {}],
   [ordered |-> TRUE,  registered_only |-> FALSE, poison |-> {}],
   [ordered |-> TRUE,  registered_only |-> TRUE,  poison |-> {3}],
   [ordered |-> FALSE, registered_only |-> TRUE,  poison |-> {3}]}

VARIABLE story

theThreads == <<poolVars, threadVars>>
allVars == <<story, coverageVars, theThreads>>

CoverageInit ==
  /\ story \in {"provider", "threads"}
  /\ Init
  /\ story # "provider" => /\ \A i \in Items : status[i] = "none"
                            /\ setting = CHOOSE s \in Settings : TRUE
  /\ ThreadedInit

CoverageNext ==
  /\ UNCHANGED story
  /\ \/ story = "provider" /\ Next /\ UNCHANGED theThreads
     \/ story = "threads" /\ ThreadedNext /\ UNCHANGED coverageVars

\* The fairness of FairSpec and of ThreadedSpec, each in its own story.
CoverageSpec ==
  /\ CoverageInit /\ [][CoverageNext]_allVars
  /\ WF_coverageVars(story = "provider" /\ Step)
  /\ WF_coverageVars(story = "provider" /\ StartRun)
  /\ \A w \in Workers : WF_theThreads(story = "threads" /\ WorkerStep(w))
  /\ WF_theThreads(story = "threads" /\ MainStep)
=============================================================================
