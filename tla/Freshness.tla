----------------------------- MODULE Freshness -----------------------------
(***************************************************************************)
(* What a cache of something that changes promises: every answer was true  *)
(* at some time within the bound the answer comes with.  How the answers   *)
(* are kept, refreshed and shared is nobody's business here.               *)
(***************************************************************************)
EXTENDS Integers

CONSTANTS
  Contents,   \* what there may be to see
  Horizon,    \* a time no bound reaches: what was last true longer ago is all alike
  NoAnswer    \* stands for no answer

VARIABLES
  world,      \* what can be seen now
  unseen,     \* for how long each content has not been seen, up to the horizon
  answer      \* the answer being given, if any: its content and its bound

freshnessVars == <<world, unseen, answer>>

Answers == [content : Contents, bound : 0..Horizon - 1]

FreshnessInit ==
  /\ world \in Contents
  /\ unseen = [c \in Contents |-> IF c = world THEN 0 ELSE Horizon]
  /\ answer = NoAnswer

TimePasses ==
  /\ unseen' = [c \in Contents |->
       IF c = world THEN 0 ELSE IF unseen[c] < Horizon THEN unseen[c] + 1 ELSE Horizon]
  /\ answer' = NoAnswer
  /\ UNCHANGED world

WorldChanges ==
  /\ world' \in Contents
  /\ unseen' = [unseen EXCEPT ![world'] = 0]
  /\ answer' = NoAnswer

Answer ==
  /\ answer' \in Answers
  /\ unseen[answer'.content] <= answer'.bound
  /\ UNCHANGED <<world, unseen>>

Silence == answer' = NoAnswer /\ UNCHANGED <<world, unseen>>

FreshnessNext == TimePasses \/ WorldChanges \/ Answer \/ Silence

FreshnessSpec == FreshnessInit /\ [][FreshnessNext]_freshnessVars
=============================================================================
