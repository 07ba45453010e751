---------------------------- MODULE GroupedFeed ----------------------------
(***************************************************************************)
(* The grouped feed of a lane: a few featured works for each of its        *)
(* sublanes (lane.py groups, _groups_for_lanes, opds.py _generate_groups). *)
(* The search index is asked for the works of all sublanes in one go; the  *)
(* loop over the answers tries not to show a work twice and fills up with  *)
(* repetitions where it has to.  A sublane that does not inherit the       *)
(* restrictions of its parent is asked for separately.                     *)
(***************************************************************************)
EXTENDS Integers, Sequences, FiniteSets, SequencesExt

CONSTANTS
  Titles,        \* the works
  Groups,        \* how many sublanes there are, the lane itself included
  TargetSizes    \* the library's featured_lane_size

ASSUME GroupedFeedAssumption ==
  /\ IsFiniteSet(Titles) /\ Groups \in Nat /\ TargetSizes \subseteq Nat \ {0}

Sublanes == 1 .. Groups

VARIABLES
  target,       \* target_size
  answers,      \* what the search index finds in each sublane, most relevant first, and
                \* works_for_resultsets still gets from the database
  separate,     \* the sublanes that do not inherit their parent's restrictions
  selfless,     \* those among them without include_self_in_grouped_feed
  upTo,         \* the sublane and the answer the loop is at
  by_lane,      \* what each sublane shows
  used_works, used_works_this_lane, might_need_to_reuse

groupsVars == <<target, answers, separate, selfless, upTo,
                by_lane, used_works, used_works_this_lane, might_need_to_reuse>>

-----------------------------------------------------------------------------
\* max(target_size + 1, int(target_size * 1.10))
AskForSize(size) == IF (size * 11) \div 10 > size + 1 THEN (size * 11) \div 10 ELSE size + 1

\* What the one query of the search index finds: a separate sublane has no
\* part in it.
Queried(l) == IF l \in separate THEN <<>> ELSE answers[l]

\* The pagination made for this feed is passed on to the separate query, which
\* takes the number that was asked for as the number to show.
Separately(l) == IF l \in selfless THEN <<>> ELSE answers[l]

Extended(shown) ==
  LET missing == target - Len(shown) IN
  IF missing <= 0 THEN shown
  ELSE shown \o SubSeq(might_need_to_reuse, 1, Min({missing, Len(might_need_to_reuse)}))

GroupsInit ==
  /\ target \in TargetSizes
  /\ answers \in [Sublanes -> UNION {{s \in [1 .. n -> Titles] : IsInjective(s)} : n \in 0 .. AskForSize(target)}]
  /\ separate \in SUBSET {Groups - 1}
  /\ selfless \in SUBSET separate
  /\ upTo = [lane |-> 1, answer |-> 1]
  /\ by_lane = [l \in Sublanes |-> <<>>]
  /\ used_works = {} /\ used_works_this_lane = {}
  /\ might_need_to_reuse = <<>>

InHand == Queried(upTo.lane)
Unfinished == upTo.lane <= Groups /\ upTo.answer <= Len(InHand)

\* The lane has enough already, or the work has been used in this lane.
PassOver ==
  /\ Unfinished
  /\ ~(Len(by_lane[upTo.lane]) < target /\ InHand[upTo.answer] \notin used_works_this_lane)
  /\ upTo' = [upTo EXCEPT !.answer = @ + 1]
  /\ UNCHANGED <<target, answers, separate, selfless, by_lane,
                 used_works, used_works_this_lane, might_need_to_reuse>>

SetAside ==
  /\ Unfinished
  /\ Len(by_lane[upTo.lane]) < target
  /\ InHand[upTo.answer] \in used_works \ used_works_this_lane
  /\ might_need_to_reuse' = Append(might_need_to_reuse, InHand[upTo.answer])
  /\ upTo' = [upTo EXCEPT !.answer = @ + 1]
  /\ UNCHANGED <<target, answers, separate, selfless, by_lane,
                 used_works, used_works_this_lane>>

Show ==
  /\ Unfinished
  /\ Len(by_lane[upTo.lane]) < target
  /\ InHand[upTo.answer] \notin used_works
  /\ by_lane' = [by_lane EXCEPT ![upTo.lane] = Append(@, InHand[upTo.answer])]
  /\ used_works' = used_works \cup {InHand[upTo.answer]}
  /\ used_works_this_lane' = used_works_this_lane \cup {InHand[upTo.answer]}
  /\ upTo' = [upTo EXCEPT !.answer = @ + 1]
  /\ UNCHANGED <<target, answers, separate, selfless, might_need_to_reuse>>

\* Mutant of DoneWithLane: what was set aside for one lane is kept for the next.
DoneWithoutReset ==
  /\ upTo.lane <= Groups /\ upTo.answer > Len(InHand)
  /\ by_lane' = [by_lane EXCEPT ![upTo.lane] = IF upTo.lane \in separate THEN Separately(upTo.lane) ELSE Extended(@)]
  /\ used_works_this_lane' = {}
  /\ upTo' = [lane |-> upTo.lane + 1, answer |-> 1]
  /\ UNCHANGED <<target, answers, separate, selfless, used_works, might_need_to_reuse>>

\* _done_with_lane, and the change to the next lane; a separate one is asked
\* for when it is its turn to be shown.
DoneWithLane ==
  /\ upTo.lane <= Groups /\ upTo.answer > Len(InHand)
  /\ by_lane' = [by_lane EXCEPT ![upTo.lane] = IF upTo.lane \in separate THEN Separately(upTo.lane) ELSE Extended(@)]
  /\ used_works_this_lane' = {}
  /\ might_need_to_reuse' = <<>>
  /\ upTo' = [lane |-> upTo.lane + 1, answer |-> 1]
  /\ UNCHANGED <<target, answers, separate, selfless, used_works>>

GroupsNext == PassOver \/ SetAside \/ Show \/ DoneWithLane

GroupsSpec == GroupsInit /\ [][GroupsNext]_groupsVars

-----------------------------------------------------------------------------
ShownBefore(l) == UNION {ToSet(by_lane[m]) : m \in (1 .. l - 1) \ separate}

\* A finished feed shows in each sublane that is filled with the others as many
\* different works as there are, up to the target, and repeats a work of another
\* such sublane only when the works of this one that nobody has shown are all shown,
\* before it.  (A separate sublane is asked for by itself: it may show one work
\* more, and repeat what is shown elsewhere.)
GroupsAreFullAndFresh ==
  upTo.lane > Groups =>
    \A l \in Sublanes \ separate :
      LET own == answers[l]
          shown == by_lane[l]
      IN  /\ IsInjective(shown)
          /\ ToSet(shown) \subseteq ToSet(own)
          /\ Len(shown) = IF Len(own) < target THEN Len(own) ELSE target
          /\ \A i \in DOMAIN shown : shown[i] \in ShownBefore(l) =>
               ToSet(own) \ ShownBefore(l) \subseteq ToSet(SubSeq(shown, 1, i - 1))
=============================================================================
