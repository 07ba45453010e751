--------------------------- MODULE Monitors_proofs --------------------------
(***************************************************************************)
(* Theorems about TimelineMonitor, Representations, MARCExport,            *)
(* OpdsEntries and Migrations, for every overlap, delay, set of books, of  *)
(* works, of files and of bounds.                                          *)
(***************************************************************************)
EXTENDS TimelineMonitor, Representations, MARCExport, OpdsEntries, Migrations,
        FiniteSetTheorems, TLAPS

(***************************************************************************)
(* The monitors that follow a timeline.                                    *)
(***************************************************************************)
(* Every date the monitor remembers is past, in the order it came about.   *)
InOrder ==
  /\ \A e \in events : e.date <= now
  /\ finish # None => origin # None /\ finish <= now
  /\ pc = "running" =>
       /\ cutoff <= now
       /\ finish = None => origin = start
       /\ finish # None => start = finish - Overlap /\ finish <= cutoff

LEMMA TypesStep ==
  ASSUME TimelineTypeOK, [TimelineNext]_timelineVars
  PROVE  TimelineTypeOK'
<1> USE TimelineAssumption DEF TimelineTypeOK
<1>1. CASE Happen
  <2>1. PICK delay \in Delays, id \in 1..MaxEvents :
          events' = events \cup {[id |-> id, date |-> now, visible |-> now + delay]}
    BY <1>1 DEF Happen
  <2>2. [id |-> id, date |-> now, visible |-> now + delay] \in Event
    BY DEF Event
  <2>3. events' \subseteq Event /\ events \subseteq events'
    BY <2>1, <2>2
  <2> QED
    BY <1>1, <2>3 DEF Happen
<1>2. CASE Tick
  BY <1>2 DEF Tick
<1>3. CASE StartRun
  <2>1. StartTime \in Int
    BY DEF StartTime
  <2> HIDE DEF StartTime
  <2> QED
    BY <1>3, <2>1 DEF StartRun
<1>4. CASE CatchUp
  BY <1>4 DEF CatchUp
<1>5. CASE Finish
  BY <1>5 DEF Finish
<1>6. CASE Fail \/ Die
  BY <1>6 DEF Fail, Die
<1>7. CASE UNCHANGED timelineVars
  BY <1>7 DEF timelineVars
<1> QED
  BY <1>1, <1>2, <1>3, <1>4, <1>5, <1>6, <1>7 DEF TimelineNext

(* The monitor's variables are times and sets of events.                   *)
THEOREM TypeCorrect == TimelineSpec => []TimelineTypeOK
<1>1. ASSUME TimelineInit
      PROVE  TimelineTypeOK
  <2>1. /\ now \in Int /\ start \in Int /\ cutoff \in Int /\ slice \in Int
        /\ finish \in Int \cup {None} /\ origin \in Int \cup {None}
    BY <1>1, TimelineAssumption DEF TimelineInit
  <2>2. events \subseteq Event /\ handled \subseteq events /\ before \subseteq events
    BY <1>1 DEF TimelineInit
  <2>3. exception \in BOOLEAN /\ pc \in {"idle", "running"}
    BY <1>1 DEF TimelineInit
  <2> QED
    BY <2>1, <2>2, <2>3 DEF TimelineTypeOK
<1> QED
  BY <1>1, TypesStep, PTL DEF TimelineSpec

LEMMA OrderStep ==
  ASSUME TimelineTypeOK, InOrder, [TimelineNext]_timelineVars
  PROVE  InOrder'
<1> USE TimelineAssumption DEF TimelineTypeOK, InOrder
<1>1. CASE Happen
  <2>1. PICK delay \in Delays, id \in 1..MaxEvents :
          events' = events \cup {[id |-> id, date |-> now, visible |-> now + delay]}
    BY <1>1 DEF Happen
  <2>2. \A e \in events' : e.date <= now
    BY <2>1
  <2> QED
    BY <1>1, <2>2 DEF Happen
<1>2. CASE Tick
  <2>1. \A e \in events : e.date \in Int
    BY DEF Event
  <2> QED
    BY <1>2, <2>1 DEF Tick
<1>3. CASE StartRun
  BY <1>3 DEF StartRun, StartTime
<1>4. CASE CatchUp \/ Fail \/ Die \/ UNCHANGED timelineVars
  BY <1>4 DEF CatchUp, Fail, Die, timelineVars
<1>5. CASE Finish
  BY <1>5 DEF Finish
<1> QED
  BY <1>1, <1>2, <1>3, <1>4, <1>5 DEF TimelineNext

THEOREM TimesAreInOrder == TimelineSpec => []InOrder
<1>1. TimelineInit => InOrder
  BY DEF TimelineInit, InOrder
<1> QED
  BY <1>1, OrderStep, TypeCorrect, PTL DEF TimelineSpec

(* The end of what was covered never moves back.                           *)
THEOREM CoverageOnlyGrows == TimelineSpec => NeverStartsOver
<1>1. ASSUME TimelineTypeOK, InOrder, [TimelineNext]_timelineVars
      PROVE  finish # None => finish' # None /\ finish' >= finish
  <2> USE <1>1, TimelineAssumption DEF TimelineTypeOK, InOrder
  <2>1. CASE Finish
    BY <2>1 DEF Finish
  <2>2. CASE Happen \/ Tick \/ StartRun \/ CatchUp \/ Fail \/ Die \/ UNCHANGED timelineVars
    BY <2>2 DEF Happen, Tick, StartRun, CatchUp, Fail, Die, timelineVars
  <2> QED
    BY <2>1, <2>2 DEF TimelineNext
<1> QED
  BY <1>1, TypeCorrect, TimesAreInOrder, PTL DEF TimelineSpec, NeverStartsOver

-----------------------------------------------------------------------------
(* The inductive invariant for NothingIsMissed.  `Prompt` is what the      *)
(* vendor has to promise; `CaughtUp` is what a run has achieved so far;    *)
(* and what earlier runs have achieved is committed, so that the death of  *)
(* the process does not undo it.                                           *)
Prompt   == \A e \in events : e.visible <= e.date + Overlap
CaughtUp == pc = "running" =>
              \A e \in events :
                (start <= e.date /\ e.date < slice /\ e.date < cutoff - Overlap) => e \in handled
Covered(set) == finish # None =>
                  \A e \in events :
                    (origin <= e.date /\ e.date < finish - Overlap) => e \in set
IInv == Prompt /\ CaughtUp /\ Covered(handled) /\ (pc = "running" => Covered(before))

LEMMA IInvStep ==
  ASSUME \A d \in Delays : d <= Overlap,
         TimelineTypeOK, InOrder, IInv, [TimelineNext]_timelineVars
  PROVE  IInv'
<1> USE TimelineAssumption DEF TimelineTypeOK, InOrder
<1>0. \A e \in events : e.date \in Int /\ e.visible \in Int
  BY DEF Event
<1>1. CASE Happen
  <2>1. PICK delay \in Delays, id \in 1..MaxEvents :
          events' = events \cup {[id |-> id, date |-> now, visible |-> now + delay]}
    BY <1>1 DEF Happen
  <2>2. UNCHANGED <<now, handled, finish, pc, start, cutoff, slice, before, origin>>
    BY <1>1 DEF Happen
  <2>3. \A e \in events' : e \in events \/ (e.date = now /\ e.visible = now + delay)
    BY <2>1
  <2>4. delay \in Nat /\ delay <= Overlap
    OBVIOUS
  <2>5. Prompt'
    BY <2>2, <2>3, <2>4, <1>0 DEF Prompt, IInv
  <2>6. CaughtUp'
    BY <2>2, <2>3, <1>0 DEF CaughtUp, IInv
  <2>7. Covered(handled)' /\ (pc' = "running" => Covered(before)')
    BY <2>2, <2>3, <1>0 DEF Covered, IInv
  <2> QED
    BY <2>5, <2>6, <2>7 DEF IInv
<1>2. CASE Tick \/ UNCHANGED timelineVars
  BY <1>2 DEF Tick, timelineVars, IInv, Prompt, CaughtUp, Covered
<1>3. CASE StartRun
  <2>1. CaughtUp'
    BY <1>3, <1>0 DEF StartRun, StartTime, CaughtUp
  <2>2. Covered(handled)' /\ Covered(before)'
    BY <1>3 DEF StartRun, Covered, IInv
  <2> QED
    BY <1>3, <2>1, <2>2 DEF StartRun, IInv, Prompt
<1>4. CASE CatchUp
  <2>1. ASSUME NEW e \in events, start <= e.date, e.date < slice', e.date < cutoff - Overlap
        PROVE  e \in handled'
    <3>1. CASE e.date < slice
      BY <3>1, <2>1, <1>4, <1>0 DEF CatchUp, CaughtUp, IInv
    <3>2. CASE slice <= e.date
      <4>1. e.visible <= now
        BY <2>1, <1>4, <1>0 DEF CatchUp, Prompt, IInv
      <4>2. e.date <= SliceCutoff
        BY <2>1, <1>4, <1>0 DEF CatchUp, SliceCutoff
      <4> QED
        BY <3>2, <4>1, <4>2, <1>4 DEF CatchUp
    <3> QED
      BY <3>1, <3>2, <1>0
  <2>2. UNCHANGED <<now, events, finish, pc, start, cutoff, before, origin>>
        /\ handled \subseteq handled'
    BY <1>4 DEF CatchUp
  <2> QED
    BY <2>1, <2>2 DEF IInv, Prompt, CaughtUp, Covered
<1>5. CASE Finish
  <2>1. ASSUME NEW e \in events, origin <= e.date, e.date < cutoff - Overlap
        PROVE  e \in handled
    <3>1. CASE finish # None /\ e.date < finish - Overlap
      BY <3>1, <2>1 DEF IInv, Covered
    <3>2. CASE finish = None \/ e.date >= finish - Overlap
      <4>1. start <= e.date /\ e.date < slice
        BY <3>2, <2>1, <1>5, <1>0 DEF Finish
      <4> QED
        BY <4>1, <2>1, <1>5 DEF Finish, IInv, CaughtUp
    <3> QED
      BY <3>1, <3>2, <1>0
  <2>2. UNCHANGED <<now, events, handled, origin>> /\ finish' = cutoff /\ pc' = "idle"
    BY <1>5 DEF Finish
  <2> QED
    BY <2>1, <2>2 DEF IInv, Prompt, CaughtUp, Covered
<1>6. CASE Fail
  BY <1>6 DEF Fail, IInv, Prompt, CaughtUp, Covered
<1>7. CASE Die
  BY <1>7 DEF Die, IInv, Prompt, CaughtUp, Covered
<1> QED
  BY <1>1, <1>2, <1>3, <1>4, <1>5, <1>6, <1>7 DEF TimelineNext

(* If every event becomes visible within OVERLAP, no run misses any.       *)
THEOREM CatchesUp == (\A d \in Delays : d <= Overlap) /\ TimelineSpec => []NothingIsMissed
<1> DEFINE PromptVendor == \A d \in Delays : d <= Overlap
<1>1. TimelineInit => IInv
  BY DEF TimelineInit, IInv, Prompt, CaughtUp, Covered
<1>2. PromptVendor /\ TimelineTypeOK /\ InOrder /\ IInv /\ [TimelineNext]_timelineVars => IInv'
  BY IInvStep
<1>3. IInv => NothingIsMissed
  BY DEF IInv, Covered, NothingIsMissed
<1> HIDE DEF PromptVendor
<1>4. CASE PromptVendor
  BY <1>1, <1>2, <1>3, <1>4, TypeCorrect, TimesAreInOrder, PTL DEF TimelineSpec
<1>5. CASE ~PromptVendor
  BY <1>5 DEF PromptVendor
<1> QED
  BY <1>4, <1>5

-----------------------------------------------------------------------------
(***************************************************************************)
(* What has been mirrored.                                                 *)
(***************************************************************************)
Version == {"nothing", "new", "old", "error page"}
Row ==
  [content : Version, etag : Version, status : {"none", "good", "gone", "unchanged", "error"},
   failed : BOOLEAN, mirrored : BOOLEAN]

WebTypeOK ==
  /\ rel \in Rels
  /\ web \in [type : Types, gone : BOOLEAN]
  /\ row \in [AllTypes -> Row \cup {NoRow}]
  /\ linked \in AllTypes
  /\ hosted \in [Types \cup {"thumbnail"} -> Version]
  /\ suppressed \in BOOLEAN
  /\ outcome \in {"none", "not fetched", "refused", "not there", "up to date", "tried"}

\* May a later import be told that this representation has not changed?
IsCurrent(r) == r # NoRow /\ ~r.failed /\ r.etag = "new"

\* Such a representation is of the newest version, or of nothing any more, and if it
\* says that it is mirrored then it is that version that is on the mirror.
CurrentIsNewest ==
  \A t \in AllTypes : IsCurrent(row[t]) =>
    /\ t = web.type
    /\ row[t].content \in {"new", "nothing"}
    /\ row[t].mirrored => hosted[t] = "new" /\ hosted["thumbnail"] # "old"

MirrorInv ==
  /\ WebTypeOK /\ CurrentIsNewest
  /\ Book => hosted["thumbnail"] = "nothing"
  /\ MirroredVersionIsFine

\* Somebody is told that nothing has changed only about the type there is now.
LEMMA ResponsesFit ==
  ASSUME MirrorInv, NamesType, NEW have \in Interchangeable, NEW response \in Responses(have)
  PROVE  /\ response.type \in AllTypes
         /\ response.got \in {"exception", "error", "gone", "good", "unchanged"}
         /\ response.got \in {"good", "unchanged"} => response.type = web.type /\ response.type \in Types
         /\ response.got = "unchanged" => IsCurrent(row[response.type])
         /\ have = NoRow \/ \E t \in AllTypes : have = row[t]
<1> USE DEF MirrorInv
<1>1. have = NoRow \/ \E t \in AllTypes : have = row[t]
  BY DEF Interchangeable
<1>2. web.type \in Types /\ "presumed" \in Types
  BY DEF WebTypeOK, Types
<1>3. /\ response.type \in AllTypes
      /\ response.got \in {"exception", "error", "gone", "good", "unchanged"}
      /\ response.got \in {"good", "unchanged"} => response.type = web.type
      /\ response.got = "unchanged" => IsUsable(have) /\ have.etag = "new"
  BY <1>2 DEF Responses, AllTypes, Types
<1>4. ASSUME response.got = "unchanged" PROVE IsCurrent(row[response.type])
  <2>1. PICK t \in AllTypes : have = row[t]
    BY <1>1, <1>3, <1>4 DEF IsUsable
  <2>2. IsCurrent(row[t])
    BY <1>3, <1>4, <2>1 DEF IsCurrent, IsUsable
  <2> QED BY <1>3, <1>4, <2>2 DEF CurrentIsNewest
<1> QED BY <1>1, <1>2, <1>3, <1>4

\* What comes of a response: if a later import might be told that it has not changed,
\* it is of the newest version.
LEMMA ReceivedFits ==
  ASSUME MirrorInv, NamesType, NEW have \in Interchangeable, NEW response \in Responses(have)
  PROVE  LET r == Received(response, have) IN
         /\ r \in Row
         /\ response.got = "good" => r.content = "new"
         /\ response.got = "unchanged" =>
              /\ r.failed = row[response.type].failed /\ r.mirrored = row[response.type].mirrored
              /\ r.content = row[response.type].content /\ r.etag = "new"
         /\ ~r.failed => response.got \in {"good", "gone", "unchanged"}
         /\ response.got = "gone" => r.etag = "nothing"
<1> DEFINE q == RowFor(response)
<1>1. q \in Row
  BY ResponsesFit DEF RowFor, MirrorInv, WebTypeOK, EmptyRow, Row, Version
<1>2. response.got = "unchanged" => q = row[response.type] /\ q.etag = "new"
  BY ResponsesFit DEF RowFor, IsCurrent
<1>3. response.got \in {"exception", "error", "gone", "good", "unchanged"}
  BY ResponsesFit
<1> HIDE DEF q
<1>4. CASE response.got = "good"
  <2>1. Received(response, have) = [q EXCEPT !.status = "good", !.content = "new", !.etag = "new"]
    BY <1>4 DEF Received, q
  <2> QED BY <1>1, <1>4, <2>1 DEF Row, Version
<1>5. CASE response.got = "gone"
  <2>1. Received(response, have) = [q EXCEPT !.status = "gone", !.content = "error page", !.etag = "nothing"]
    BY <1>5 DEF Received, q
  <2> QED BY <1>1, <1>5, <2>1 DEF Row, Version
<1>6. CASE response.got = "unchanged"
  <2>1. Received(response, have) = [q EXCEPT !.status = "unchanged"]
    BY <1>6 DEF Received, q
  <2> QED BY <1>1, <1>2, <1>6, <2>1 DEF Row, Version
<1>7. CASE response.got \in {"exception", "error"}
  <2>1. \/ Received(response, have) = [q EXCEPT !.failed = TRUE]
        \/ Received(response, have) = [q EXCEPT !.failed = TRUE, !.status = "error", !.content = "error page"]
        \/ Received(response, have) = [q EXCEPT !.failed = TRUE, !.status = "none", !.content = "nothing"]
    BY <1>7 DEF Received, q
  <2> QED BY <1>1, <1>7, <2>1 DEF Row, Version
<1> QED BY <1>3, <1>4, <1>5, <1>6, <1>7

\* An import that keeps what it got in its row, and leaves the mirror alone or puts
\* things there.
LEMMA KeptRow ==
  ASSUME MirrorInv, NEW t \in AllTypes, NEW r \in Row,
         row' = [row EXCEPT ![t] = r],
         hosted' \in [Types \cup {"thumbnail"} -> Version],
         \A u \in AllTypes : u # t /\ IsCurrent(row[u]) /\ row[u].mirrored => hosted'[u] = "new" /\ hosted'["thumbnail"] # "old",
         IsCurrent(r) => /\ t = web.type /\ r.content \in {"new", "nothing"}
                         /\ r.mirrored => hosted'[t] = "new" /\ hosted'["thumbnail"] # "old",
         Book => hosted'["thumbnail"] = "nothing",
         linked' = t,
         outcome' \in {"none", "not fetched", "refused", "not there", "up to date", "tried"},
         outcome' = "up to date" => hosted'[t] = "new" /\ hosted'["thumbnail"] # "old",
         suppressed' \in BOOLEAN, UNCHANGED <<rel, web>>
  PROVE  MirrorInv'
<1> USE DEF MirrorInv
<1>1. \A u \in AllTypes : row'[u] = IF u = t THEN r ELSE row[u]
  BY DEF WebTypeOK
<1>2. WebTypeOK'
  <2>1. row' \in [AllTypes -> Row \cup {NoRow}]
    <3>1. row \in [AllTypes -> Row \cup {NoRow}]
      BY DEF WebTypeOK
    <3> QED BY <3>1
  <2>2. rel' \in Rels /\ web' \in [type : Types, gone : BOOLEAN] /\ linked' \in AllTypes
    BY Zenon DEF WebTypeOK
  <2> QED BY <2>1, <2>2, Zenon DEF WebTypeOK
<1>3. CurrentIsNewest'
  <2>1. ASSUME NEW u \in AllTypes, IsCurrent(row'[u])
        PROVE  /\ u = web.type /\ row'[u].content \in {"new", "nothing"}
               /\ row'[u].mirrored => hosted'[u] = "new" /\ hosted'["thumbnail"] # "old"
    <3>1. CASE u = t
      BY <1>1, <2>1, <3>1
    <3>2. CASE u # t
      BY <1>1, <2>1, <3>2, Zenon DEF CurrentIsNewest
    <3> QED BY <3>1, <3>2
  <2>2. web' = web
    OBVIOUS
  <2> QED BY <2>1, <2>2, Zenon DEF CurrentIsNewest, IsCurrent
<1>4. (Book => hosted["thumbnail"] = "nothing")' /\ MirroredVersionIsFine'
  BY DEF Book, MirroredVersionIsFine
<1> QED BY <1>2, <1>3, <1>4


LEMMA ImportsKeepInv ==
  ASSUME MirrorInv, NamesType, Uploads = {"done"},
         NEW have \in Interchangeable, NEW response \in Responses(have),
         \/ DoNotMirror(response, have) \/ NotThere(response, have) \/ UpToDate(response, have)
         \/ MirrorBook(response, have) \/ MirrorImage(response, have) \/ Abandon(response, have)
  PROVE  MirrorInv'
<1> USE DEF MirrorInv
<1> DEFINE t == response.type
           r == Received(response, have)
<1>1. /\ t \in AllTypes
      /\ response.got \in {"good", "unchanged"} => t = web.type /\ t \in Types
      /\ response.got = "unchanged" => IsCurrent(row[t])
  BY ResponsesFit
<1>2. /\ r \in Row
      /\ response.got = "good" => r.content = "new"
      /\ response.got = "unchanged" => /\ r.failed = row[t].failed /\ r.mirrored = row[t].mirrored
                                       /\ r.content = row[t].content /\ r.etag = "new"
      /\ ~r.failed => response.got \in {"good", "gone", "unchanged"}
      /\ response.got = "gone" => r.etag = "nothing"
  BY ReceivedFits
<1>3. /\ hosted \in [Types \cup {"thumbnail"} -> Version]
      /\ \A u \in AllTypes : IsCurrent(row[u]) /\ row[u].mirrored => hosted[u] = "new" /\ hosted["thumbnail"] # "old"
      /\ Book => hosted["thumbnail"] = "nothing"
      /\ suppressed \in BOOLEAN
  BY DEF WebTypeOK, CurrentIsNewest
<1>4. "thumbnail" \notin AllTypes /\ Types \subseteq AllTypes
  BY DEF AllTypes, Types
<1> HIDE DEF r, t
<1>5. CASE DoNotMirror(response, have)
  <2>1. /\ r.failed /\ row' = [row EXCEPT ![t] = r] /\ linked' = t /\ UNCHANGED <<rel, web, hosted>>
        /\ outcome' \in {"not fetched", "refused"} /\ suppressed' \in BOOLEAN
    BY <1>3, <1>5 DEF DoNotMirror, r, t
  <2> QED BY <1>1, <1>2, <1>3, <2>1, KeptRow DEF IsCurrent
<1>6. CASE NotThere(response, have)
  <2>1. /\ response.got = "gone" /\ row' = [row EXCEPT ![t] = r] /\ linked' = t
        /\ UNCHANGED <<rel, web, hosted, suppressed>> /\ outcome' = "not there"
    BY <1>6 DEF NotThere, r, t
  <2> QED BY <1>1, <1>2, <1>3, <2>1, KeptRow DEF IsCurrent
<1>7. CASE UpToDate(response, have)
  <2>1. /\ response.got = "unchanged" /\ ~r.failed /\ r.mirrored /\ row' = [row EXCEPT ![t] = r] /\ linked' = t
        /\ UNCHANGED <<rel, web, hosted, suppressed>> /\ outcome' = "up to date"
    BY <1>7 DEF UpToDate, r, t
  <2>2. hosted[t] = "new" /\ hosted["thumbnail"] # "old" /\ r.content \in {"new", "nothing"} /\ t = web.type
    BY <1>1, <1>2, <1>3, <2>1 DEF CurrentIsNewest
  <2> QED BY <1>1, <1>2, <1>3, <2>1, <2>2, KeptRow
<1>8. ASSUME MayMirror(response, r), r.content # "nothing"
      PROVE  ~r.failed /\ t = web.type /\ t \in Types /\ t # "thumbnail" /\ r.content = "new"
  BY <1>1, <1>2, <1>4, <1>8 DEF MayMirror, CurrentIsNewest
<1>9. CASE MirrorBook(response, have)
  <2> DEFINE kept == [[r EXCEPT !.mirrored = TRUE] EXCEPT !.content = "nothing"]
             h == [hosted EXCEPT ![t] = r.content]
  <2>1. /\ Book /\ MayMirror(response, r) /\ r.content # "nothing"
        /\ row' = [row EXCEPT ![t] = kept] /\ hosted' = h /\ linked' = t
        /\ UNCHANGED <<rel, web, suppressed>> /\ outcome' = "tried"
    <3>1. PICK upload \in Uploads :
            LET after == [r EXCEPT !.mirrored = @ \/ upload = "done"] IN
            /\ hosted' = IF upload = "done" THEN [hosted EXCEPT ![t] = r.content] ELSE hosted
            /\ row' = [row EXCEPT ![t] = IF after.mirrored THEN [after EXCEPT !.content = "nothing"] ELSE after]
      BY <1>9 DEF MirrorBook, r, t
    <3>2. upload = "done" /\ [r EXCEPT !.mirrored = @ \/ upload = "done"] = [r EXCEPT !.mirrored = TRUE]
      BY <3>1
    <3>3. [r EXCEPT !.mirrored = TRUE].mirrored
      BY <1>2 DEF Row
    <3> QED BY <1>9, <3>1, <3>2, <3>3 DEF MirrorBook, r, t
  <2>2. kept \in Row /\ kept.content = "nothing"
    BY <1>2 DEF Row, Version
  <2>3. h \in [Types \cup {"thumbnail"} -> Version] /\ h[t] = "new" /\ h["thumbnail"] = "nothing"
    BY <1>2, <1>3, <1>4, <1>8, <2>1 DEF Version
  <2>4. t = web.type /\ \A u \in AllTypes : u # t => ~IsCurrent(row[u])
    BY <1>8, <2>1 DEF CurrentIsNewest
  <2> HIDE DEF kept, h
  <2> QED BY <1>1, <1>3, <2>1, <2>2, <2>3, <2>4, KeptRow
<1>10. CASE MirrorImage(response, have)
  <2>1. PICK image \in {"large", "small", "broken"} :
          /\ hosted' = [hosted EXCEPT
               ![t] = r.content,
               !["thumbnail"] = CASE image = "small" -> "nothing" [] image = "large" -> r.content [] OTHER -> @]
          /\ row' = [row EXCEPT ![t] = [r EXCEPT !.mirrored = TRUE, !.failed = FetchAgain(image)]]
    <3>1. PICK upload \in Uploads, thumbnail \in Uploads, image \in {"large", "small", "broken"} :
            /\ hosted' = [hosted EXCEPT
                 ![t] = IF upload = "done" THEN r.content ELSE @,
                 !["thumbnail"] = CASE image = "small" -> "nothing"
                                    [] image = "large" /\ thumbnail = "done" -> r.content
                                    [] OTHER -> @]
            /\ row' = [row EXCEPT ![t] = [r EXCEPT !.mirrored = @ \/ upload = "done", !.failed = FetchAgain(image)]]
      BY <1>10 DEF MirrorImage, r, t
    <3>2. upload = "done" /\ thumbnail = "done"
      BY <3>1
    <3> QED BY <3>1, <3>2
  <2>2. /\ ~Book /\ MayMirror(response, r) /\ r.content # "nothing" /\ linked' = t
        /\ UNCHANGED <<rel, web, suppressed>> /\ outcome' = "tried"
    BY <1>10 DEF MirrorImage, r, t
  <2> DEFINE kept == [r EXCEPT !.mirrored = TRUE, !.failed = FetchAgain(image)]
  <2>3. kept \in Row /\ kept.content = "new" /\ kept.failed = (image = "broken")
    BY <1>2, <1>8, <2>2 DEF Row, FetchAgain
  <2>4. /\ hosted' \in [Types \cup {"thumbnail"} -> Version] /\ hosted'[t] = "new"
        /\ image # "broken" => hosted'["thumbnail"] \in {"nothing", "new"}
    BY <1>3, <1>4, <1>8, <2>1, <2>2 DEF Version
  <2>5. \A u \in AllTypes : u # t => ~IsCurrent(row[u])
    BY <1>8, <2>2 DEF CurrentIsNewest
  <2>6. t = web.type
    BY <1>8, <2>2
  <2>7. row' = [row EXCEPT ![t] = kept]
    BY <2>1
  <2> HIDE DEF kept
  <2> QED BY <1>1, <1>3, <2>2, <2>3, <2>4, <2>5, <2>6, <2>7, KeptRow DEF IsCurrent
<1>11. CASE Abandon(response, have)
  <2>1. outcome' = "none" /\ UNCHANGED <<rel, web, row, linked, suppressed>>
    BY <1>11 DEF Abandon
  <2>2. CASE UNCHANGED hosted
    BY <2>1, <2>2 DEF WebTypeOK, CurrentIsNewest, Book, MirroredVersionIsFine
  <2>3. CASE MayMirror(response, r) /\ r.content # "nothing" /\ hosted' = [hosted EXCEPT ![t] = r.content]
    <3>1. t \in Types /\ t # "thumbnail" /\ r.content = "new"
      BY <1>8, <2>3
    <3>2. hosted' \in [Types \cup {"thumbnail"} -> Version] /\ hosted'["thumbnail"] = hosted["thumbnail"]
          /\ \A u \in Types : hosted[u] = "new" => hosted'[u] = "new"
      BY <1>3, <1>4, <2>3, <3>1 DEF Version
    <3> QED BY <2>1, <3>2 DEF WebTypeOK, CurrentIsNewest, Book, MirroredVersionIsFine
  <2> QED BY <1>11, <2>2, <2>3 DEF Abandon, r, t
<1> QED BY <1>5, <1>6, <1>7, <1>9, <1>10, <1>11

\* A new version on the web makes all that is kept old.
LEMMA NewVersionKeepsInv ==
  ASSUME MirrorInv, NEW type \in Types, NewVersion(type)
  PROVE  MirrorInv'
<1> USE DEF MirrorInv
<1>1. /\ web' = [type |-> type, gone |-> FALSE]
      /\ row' = [t \in AllTypes |-> IF row[t] = NoRow THEN NoRow
                   ELSE [row[t] EXCEPT !.content = Aged(@), !.etag = Aged(@)]]
      /\ hosted' = [h \in DOMAIN hosted |-> Aged(hosted[h])]
      /\ outcome' = "none" /\ UNCHANGED <<rel, linked, suppressed>>
  BY DEF NewVersion
<1>2. \A v \in Version : Aged(v) \in Version /\ Aged(v) # "new" /\ (v = "nothing" => Aged(v) = "nothing")
  BY DEF Aged, Version
<1>3. ASSUME NEW t \in AllTypes, row[t] # NoRow
      PROVE  row'[t] \in Row /\ row'[t].etag # "new"
  <2>1. row[t] \in Row
    BY <1>3 DEF WebTypeOK
  <2>2. row'[t] = [row[t] EXCEPT !.content = Aged(@), !.etag = Aged(@)]
    BY <1>1, <1>3
  <2> HIDE DEF MirrorInv
  <2> QED BY <1>2, <2>1, <2>2 DEF Row
<1>4. \A t \in AllTypes : row[t] = NoRow => row'[t] = NoRow
  BY <1>1
<1>5. WebTypeOK'
  <2>1. row' \in [AllTypes -> Row \cup {NoRow}]
    BY <1>1, <1>3, <1>4
  <2>2. hosted' \in [Types \cup {"thumbnail"} -> Version]
    BY <1>1, <1>2 DEF WebTypeOK
  <2> QED BY <1>1, <2>1, <2>2 DEF WebTypeOK
<1>6. CurrentIsNewest'
  BY <1>3, <1>4 DEF CurrentIsNewest, IsCurrent
<1>7. (Book => hosted["thumbnail"] = "nothing")' /\ MirroredVersionIsFine'
  BY <1>1, <1>2 DEF Book, MirroredVersionIsFine, WebTypeOK
<1> QED BY <1>5, <1>6, <1>7

LEMMA MirrorInvIsInductive ==
  ASSUME NamesType, Uploads = {"done"}
  PROVE  /\ RepresentationsInit => MirrorInv
         /\ MirrorInv /\ [RepresentationsNext]_webVars => MirrorInv'
<1>1. ASSUME RepresentationsInit PROVE MirrorInv
  <2> USE <1>1 DEF RepresentationsInit
  <2>1. WebTypeOK
    BY DEF WebTypeOK, Types, AllTypes, Version
  <2>2. CurrentIsNewest
    BY DEF CurrentIsNewest, IsCurrent
  <2>3. hosted["thumbnail"] = "nothing" /\ MirroredVersionIsFine
    BY DEF MirroredVersionIsFine
  <2> QED BY <2>1, <2>2, <2>3 DEF MirrorInv
<1>2. ASSUME MirrorInv, [RepresentationsNext]_webVars PROVE MirrorInv'
  <2>1. CASE Vanish \/ Unsuppress
    <3>1. web' \in [type : Types, gone : BOOLEAN] /\ web'.type = web.type
      BY <1>2, <2>1 DEF Vanish, Unsuppress, MirrorInv, WebTypeOK
    <3>2. outcome' = "none" /\ suppressed' \in BOOLEAN /\ UNCHANGED <<rel, row, linked, hosted>>
      BY <1>2, <2>1 DEF Vanish, Unsuppress, MirrorInv, WebTypeOK
    <3> QED BY <1>2, <3>1, <3>2 DEF MirrorInv, WebTypeOK, CurrentIsNewest, Book, MirroredVersionIsFine
  <2>2. CASE UNCHANGED webVars
    BY <1>2, <2>2 DEF webVars, MirrorInv, WebTypeOK, CurrentIsNewest, Book, MirroredVersionIsFine
  <2> QED BY <1>2, <2>1, <2>2, ImportsKeepInv, NewVersionKeepsInv DEF RepresentationsNext
<1> QED BY <1>1, <1>2

\* metadata_layer.py, mirror_link: for every relation, if uploads succeed and a 304
\* names the type of what has not changed, an import stops at "hasn't changed" only
\* when the mirror has the version that is on the web.
THEOREM MirrorIsUpToDate ==
  ASSUME NamesType, Uploads = {"done"}
  PROVE  RepresentationsSpec => []MirroredVersionIsFine
<1>1. MirrorInv => MirroredVersionIsFine
  BY DEF MirrorInv
<1> QED BY <1>1, MirrorInvIsInductive, PTL DEF RepresentationsSpec

-----------------------------------------------------------------------------
(***************************************************************************)
(* The export of MARC records.                                             *)
(***************************************************************************)
MARCTypeOK ==
  /\ clock \in Nat
  /\ state \in [Books -> [number : Nat, date : Nat]]
  /\ marc_record \in [Books -> Nat \cup {NoRecord}]
  /\ document \in [Books -> Nat]
  /\ exporting \in BOOLEAN /\ broken \in BOOLEAN /\ forced \in BOOLEAN
  /\ startTime \in Int /\ endTime \in Int /\ exportedTo \in Int
  /\ startTime # NoTime => startTime >= 0
  /\ reached \in Int \X Nat
  /\ file \subseteq Books \X Nat /\ delivered \subseteq Books \X Nat

\* What the export could see from the start it still can: the index shows the book as it
\* is, the book has its license pool, and the record to be had is of its present state.
WhatIsShownIsThere ==
  /\ \A b \in Books : b \notin behind => document[b] = state[b].date
  /\ \A b \in inSight : b \in Books /\ b \notin behind /\ b \notin unpooled /\ Record(b) = state[b].number

\* Of that, what is in the range of the export is still to come or in the file.
NothingIsPassedOver ==
  exporting =>
    /\ endTime <= clock
    /\ \A b \in inSight : state[b].date >= startTime => Precedes(reached, SortKey(b)) \/ <<b, state[b].number>> \in file

MARCInv ==
  /\ MARCTypeOK /\ WhatIsShownIsThere /\ NothingIsPassedOver
  /\ exportedTo <= clock /\ ChangesAreExported

-----------------------------------------------------------------------------
LEMMA StartKeepsInv ==
  ASSUME MARCInv, StartExport
  PROVE  MARCInv'
<1> USE MARCAssumption DEF MARCInv, StartExport
<1>1. MARCTypeOK'
  <2>1. startTime' \in Int /\ endTime' \in Int /\ reached' \in Int \X Nat /\ (startTime' # NoTime => startTime' >= 0)
    BY DEF MARCTypeOK, NoKey
  <2> QED BY <2>1 DEF MARCTypeOK
<1>2. WhatIsShownIsThere'
  <2>1. ASSUME NEW b \in inSight' PROVE b \in Books /\ b \notin behind' /\ b \notin unpooled' /\ Record(b)' = state'[b].number
    BY <2>1 DEF Record, IsCached
  <2> QED BY <2>1 DEF WhatIsShownIsThere
<1>3. (exportedTo <= clock)' /\ ChangesAreExported'
  BY DEF ChangesAreExported
<1>4. NothingIsPassedOver'
  <2>1. \A b \in Books : Precedes(NoKey, SortKey(b)')
    BY DEF MARCTypeOK, Precedes, NoKey, SortKey
  <2> QED BY <1>2, <2>1 DEF NothingIsPassedOver, MARCTypeOK, WhatIsShownIsThere
<1> QED BY <1>1, <1>2, <1>3, <1>4

LEMMA PageKeepsInv ==
  ASSUME MARCInv, ExportPage
  PROVE  MARCInv'
<1> USE MARCAssumption DEF MARCInv
<1>1. PICK page \in SUBSET Ahead :
        /\ IsPage(page) /\ \E last \in page : reached' = SortKey(last)
        /\ file' = file \cup {<<b, Record(b)>> : b \in page \ unpooled}
        /\ marc_record' = [b \in Books |-> IF b \in page \ unpooled THEN Record(b) ELSE marc_record[b]]
  BY DEF ExportPage
<1>2. PICK last \in page : reached' = SortKey(last)
  BY <1>1
<1>3. UNCHANGED <<clock, state, unpooled, behind, document, edits, exporting, forced, startTime, endTime, broken,
                  exportedTo, delivered, inSight, hidden>>
  BY DEF ExportPage
<1>4. page \subseteq Books /\ last \in Books
  BY <1>2 DEF Ahead
<1>5. \A b \in Books : Record(b) \in Nat
  BY DEF Record, IsCached, MARCTypeOK
<1>6. MARCTypeOK'
  <2>1. reached' \in Int \X Nat
    BY <1>2, <1>4 DEF SortKey, MARCTypeOK
  <2>2. file' \subseteq Books \X Nat
    BY <1>1, <1>4, <1>5 DEF MARCTypeOK
  <2>3. marc_record' \in [Books -> Nat \cup {NoRecord}]
    BY <1>1, <1>5 DEF MARCTypeOK
  <2> QED BY <1>3, <2>1, <2>2, <2>3 DEF MARCTypeOK
<1>7. WhatIsShownIsThere'
  <2>1. \A b \in Books : Record(b)' = Record(b)
    BY <1>1, <1>3 DEF Record, IsCached
  <2> QED BY <1>3, <2>1 DEF WhatIsShownIsThere
<1>8. (exportedTo <= clock)' /\ ChangesAreExported'
  BY <1>3 DEF ChangesAreExported
<1>9. NothingIsPassedOver'
  <2> SUFFICES ASSUME exporting, NEW b \in inSight, state[b].date >= startTime
               PROVE  Precedes(SortKey(last), SortKey(b)) \/ <<b, state[b].number>> \in file'
    BY <1>1, <1>2, <1>3 DEF NothingIsPassedOver, SortKey
  <2>1. b \in Books /\ b \notin unpooled /\ Record(b) = state[b].number /\ document[b] = state[b].date
    BY DEF WhatIsShownIsThere
  <2>2. CASE b \in page
    BY <1>1, <2>1, <2>2
  <2>3. CASE b \in Ahead \ page
    BY <1>1, <1>2, <2>3 DEF IsPage
  <2>4. CASE b \notin Ahead
    BY <1>1, <1>2, <2>1, <2>4 DEF NothingIsPassedOver, Ahead
  <2> QED BY <2>2, <2>3, <2>4
<1> QED BY <1>6, <1>7, <1>8, <1>9

\* A complete file has all that the export could see from the start, in its range.
LEMMA CompleteFileHoldsAll ==
  ASSUME MARCInv, exporting, Ahead = {}, NEW b \in inSight, state[b].date >= startTime
  PROVE  <<b, state[b].number>> \in file
<1>1. b \in Books /\ document[b] = state[b].date
  BY DEF MARCInv, WhatIsShownIsThere
<1>2. ~Precedes(reached, SortKey(b))
  BY <1>1 DEF Ahead
<1> QED BY <1>2 DEF MARCInv, NothingIsPassedOver

\* However an export ends: what it has delivered only grows.
LEMMA OverKeepsInv ==
  ASSUME MARCInv, NEW uploaded \in SUBSET (Books \X Nat), Over(uploaded),
         exportedTo' \in Int, exportedTo' <= clock, ChangesAreExported'
  PROVE  MARCInv'
<1> USE MARCAssumption DEF MARCInv, Over
<1>1. MARCTypeOK'
  BY DEF MARCTypeOK, NoKey
<1>2. WhatIsShownIsThere'
  BY DEF WhatIsShownIsThere
<1>3. NothingIsPassedOver'
  BY DEF NothingIsPassedOver
<1> QED BY <1>1, <1>2, <1>3

\* A recorded file continues those before it: a state of before its start time is theirs,
\* another one its own, and what is in neither is hidden.
LEMMA RecordedKeepsInv ==
  ASSUME MARCInv, exporting, Ahead = {}, Over(file), Recorded(endTime)
  PROVE  MARCInv'
<1>1. endTime \in Int /\ endTime <= clock /\ exportedTo \in Int /\ startTime \in Int /\ clock' = clock
      /\ file \in SUBSET (Books \X Nat) /\ state' = state /\ delivered' = delivered \cup file
      /\ (startTime # NoTime => startTime >= 0)
  BY DEF MARCInv, NothingIsPassedOver, MARCTypeOK, Over
<1>2. CASE ~(startTime = NoTime \/ startTime <= exportedTo)
  <2>1. exportedTo' = exportedTo /\ hidden' = hidden
    BY <1>2 DEF Recorded, Unrecorded
  <2>2. ChangesAreExported'
    BY <1>1, <2>1 DEF MARCInv, ChangesAreExported
  <2>3. exportedTo' \in Int /\ exportedTo' <= clock
    BY <1>1, <2>1 DEF MARCInv
  <2> QED BY <1>1, <2>2, <2>3, OverKeepsInv
<1>3. CASE startTime = NoTime \/ startTime <= exportedTo
  <2>1. exportedTo' = endTime
        /\ hidden' = {b \in hidden : state[b].date < startTime}
             \cup {b \in Books \ inSight : startTime <= state[b].date /\ state[b].date < endTime}
    BY <1>3 DEF Recorded
  <2>2. ASSUME NEW b \in Books, state[b].date < endTime, b \notin hidden'
        PROVE  <<b, state[b].number>> \in delivered \cup file
    <3>1. state[b].date \in Nat
      BY DEF MARCInv, MARCTypeOK
    <3>2. CASE state[b].date >= startTime
      <4>1. b \in inSight
        BY <1>1, <2>1, <2>2, <3>1, <3>2
      <4> QED BY <3>2, <4>1, CompleteFileHoldsAll
    <3>3. CASE ~(state[b].date >= startTime)
      <4>1. startTime <= exportedTo /\ state[b].date < startTime
        BY <1>1, <1>3, <3>1, <3>3, MARCAssumption
      <4>2. state[b].date < exportedTo /\ b \notin hidden
        BY <1>1, <2>1, <2>2, <3>1, <4>1
      <4> QED BY <4>2 DEF MARCInv, ChangesAreExported
    <3> QED BY <3>2, <3>3
  <2>3. ChangesAreExported'
    BY <1>1, <2>1, <2>2 DEF ChangesAreExported
  <2>4. exportedTo' \in Int /\ exportedTo' <= clock
    BY <1>1, <2>1
  <2> QED BY <1>1, <2>3, <2>4, OverKeepsInv
<1> QED BY <1>2, <1>3

LEMMA EndsKeepInv ==
  ASSUME MARCInv, FinishExport \/ ExporterDies
  PROVE  MARCInv'
<1>1. CASE (Over({}) \/ Over(file)) /\ Unrecorded
  <2>1. exportedTo \in Int /\ exportedTo <= clock /\ {} \in SUBSET (Books \X Nat) /\ file \in SUBSET (Books \X Nat)
    BY DEF MARCInv, MARCTypeOK
  <2>2. exportedTo' = exportedTo /\ hidden' = hidden /\ state' = state /\ delivered \subseteq delivered'
    BY <1>1 DEF Over, Unrecorded
  <2>3. ChangesAreExported'
    BY <2>2 DEF MARCInv, ChangesAreExported
  <2> QED BY <1>1, <2>1, <2>2, <2>3, OverKeepsInv
<1>2. CASE exporting /\ Ahead = {} /\ Over(file) /\ Recorded(endTime)
  BY <1>2, RecordedKeepsInv
<1> QED BY <1>1, <1>2 DEF FinishExport, ExporterDies

\* A book with a new date is one that the export in progress could not see from the
\* start, and behind the exports only if it is hidden.
LEMMA DatedKeeps ==
  ASSUME MARCInv, NEW b \in Books, NEW number \in Nat, NEW date \in Nat, Dated(b, number, date),
         marc_record' \in [Books -> Nat \cup {NoRecord}],
         \A c \in Books \ {b} : marc_record'[c] = marc_record[c] /\ (c \in unpooled' <=> c \in unpooled)
  PROVE  MARCInv'
<1> USE MARCAssumption DEF MARCInv
<1>1. /\ state' = [state EXCEPT ![b] = [number |-> number, date |-> date]]
      /\ behind' = behind \cup {b} /\ inSight' = inSight \ {b}
      /\ hidden' = IF date < exportedTo THEN hidden \cup {b} ELSE hidden \ {b}
      /\ UNCHANGED <<clock, document, exporting, forced, startTime, endTime, reached, file, broken, exportedTo, delivered>>
  BY DEF Dated, exportVars
<1>2. MARCTypeOK'
  BY <1>1 DEF MARCTypeOK
<1>3. \A c \in Books \ {b} : state'[c] = state[c] /\ Record(c)' = (IF marc_record'[c] # NoRecord /\ ~forced THEN marc_record'[c] ELSE state[c].number)
  BY <1>1 DEF MARCTypeOK, Record, IsCached
<1>4. WhatIsShownIsThere'
  <2>1. \A c \in Books : c \notin behind' => document'[c] = state'[c].date
    BY <1>1, <1>3 DEF WhatIsShownIsThere
  <2>2. ASSUME NEW c \in inSight'
        PROVE  c \in Books /\ c \notin behind' /\ c \notin unpooled' /\ Record(c)' = state'[c].number
    <3>1. c \in inSight /\ c # b /\ c \in Books
      BY <1>1, <2>2 DEF WhatIsShownIsThere
    <3>2. Record(c) = state[c].number /\ c \notin behind /\ c \notin unpooled
      BY <3>1 DEF WhatIsShownIsThere
    <3>3. Record(c)' = Record(c)
      BY <1>3, <3>1 DEF Record, IsCached
    <3> QED BY <1>1, <1>3, <3>1, <3>2, <3>3
  <2> QED BY <2>1, <2>2 DEF WhatIsShownIsThere
<1>5. ChangesAreExported'
  BY <1>1, <1>3 DEF ChangesAreExported, MARCTypeOK
<1>6. NothingIsPassedOver'
  <2>1. \A c \in inSight' : c \in inSight /\ c \in Books /\ state'[c] = state[c] /\ SortKey(c)' = SortKey(c)
    BY <1>1, <1>3 DEF WhatIsShownIsThere, SortKey
  <2> QED BY <1>1, <2>1 DEF NothingIsPassedOver
<1> QED BY <1>1, <1>2, <1>4, <1>5, <1>6

LEMMA RecalculateKeepsInv ==
  ASSUME MARCInv, NEW b \in Books, ChangePresentation(b)
  PROVE  MARCInv'
<1>1. state[b].number + 1 \in Nat /\ clock \in Nat
  BY DEF MARCInv, MARCTypeOK
<1>2. /\ Dated(b, state[b].number + 1, clock) /\ unpooled' = unpooled
      /\ marc_record' = IF b \in unpooled THEN marc_record ELSE [marc_record EXCEPT ![b] = state[b].number + 1]
  BY DEF ChangePresentation
<1>3. marc_record' \in [Books -> Nat \cup {NoRecord}] /\ \A c \in Books \ {b} : marc_record'[c] = marc_record[c]
  BY <1>1, <1>2 DEF MARCInv, MARCTypeOK
<1> QED BY <1>1, <1>2, <1>3, DatedKeeps

LEMMA AvailabilityKeepsInv ==
  ASSUME MARCInv, NEW b \in Books, UpdateAvailability(b)
  PROVE  MARCInv'
<1>1. PICK as_of \in 0..clock : Dated(b, state[b].number, as_of)
  BY DEF UpdateAvailability
<1>2. state[b].number \in Nat /\ as_of \in Nat /\ marc_record \in [Books -> Nat \cup {NoRecord}]
  BY DEF MARCInv, MARCTypeOK
<1>3. marc_record' = marc_record /\ \A c \in Books \ {b} : c \in unpooled' <=> c \in unpooled
  BY DEF UpdateAvailability
<1> QED BY <1>1, <1>2, <1>3, DatedKeeps

\* A new record is that of the present state.
LEMMA RefreshKeepsInv ==
  ASSUME MARCInv, NEW b \in Books, RefreshRecord(b)
  PROVE  MARCInv'
<1> USE MARCAssumption DEF MARCInv
<1>1. /\ marc_record' = [marc_record EXCEPT ![b] = state[b].number]
      /\ UNCHANGED <<clock, state, unpooled, behind, document, exporting, forced, startTime, endTime, reached, file,
                     broken, exportedTo, delivered, inSight, hidden>>
  BY DEF RefreshRecord, exportVars
<1>2. MARCTypeOK'
  BY <1>1 DEF MARCTypeOK
<1>3. WhatIsShownIsThere'
  <2>1. ASSUME NEW c \in inSight PROVE Record(c)' = state[c].number
    <3>1. c \in Books /\ Record(c) = state[c].number
      BY <2>1 DEF WhatIsShownIsThere
    <3>2. CASE c = b
      BY <1>1, <3>1, <3>2 DEF Record, IsCached, MARCTypeOK
    <3>3. CASE c # b
      BY <1>1, <3>1, <3>3 DEF Record, IsCached, MARCTypeOK
    <3> QED BY <3>2, <3>3
  <2> QED BY <1>1, <2>1 DEF WhatIsShownIsThere
<1>4. ChangesAreExported' /\ (exportedTo <= clock)'
  BY <1>1 DEF ChangesAreExported
<1>5. NothingIsPassedOver'
  BY <1>1 DEF NothingIsPassedOver, SortKey
<1> QED BY <1>2, <1>3, <1>4, <1>5

\* A book whose place in the index changes is none the export could see from the start.
LEMMA ReindexKeepsInv ==
  ASSUME MARCInv, NEW b \in Books, Reindex(b)
  PROVE  MARCInv'
<1> USE MARCAssumption DEF MARCInv
<1>1. /\ b \in behind /\ document' = [document EXCEPT ![b] = state[b].date] /\ behind' = behind \ {b}
      /\ UNCHANGED <<clock, state, marc_record, unpooled, exporting, forced, startTime, endTime, reached, file,
                     broken, exportedTo, delivered, inSight, hidden>>
  BY DEF Reindex, exportVars
<1>2. MARCTypeOK'
  BY <1>1 DEF MARCTypeOK
<1>3. WhatIsShownIsThere'
  BY <1>1 DEF WhatIsShownIsThere, MARCTypeOK, Record, IsCached
<1>4. ChangesAreExported' /\ (exportedTo <= clock)'
  BY <1>1 DEF ChangesAreExported
<1>5. NothingIsPassedOver'
  <2>1. \A c \in inSight : c # b /\ c \in Books /\ SortKey(c)' = SortKey(c)
    BY <1>1 DEF WhatIsShownIsThere, SortKey, MARCTypeOK
  <2> QED BY <1>1, <2>1 DEF NothingIsPassedOver
<1> QED BY <1>2, <1>3, <1>4, <1>5

LEMMA RestKeepsInv ==
  ASSUME MARCInv, MARCTick \/ BreakUpload \/ UNCHANGED marcVars
  PROVE  MARCInv'
<1> USE MARCAssumption DEF MARCInv
<1>1. /\ UNCHANGED <<state, marc_record, unpooled, behind, document, exporting, forced, startTime, endTime, reached,
                     file, exportedTo, delivered, inSight, hidden>>
      /\ clock' = clock \/ clock' = clock + 1
      /\ broken' = broken \/ broken' = TRUE
  BY DEF MARCTick, BreakUpload, marcVars, exportVars
<1>2. MARCTypeOK'
  <2>1. clock' \in Nat
    BY <1>1 DEF MARCTypeOK
  <2>2. broken' \in BOOLEAN
    BY <1>1, Zenon DEF MARCTypeOK
  <2> QED BY <1>1, <2>1, <2>2, Zenon DEF MARCTypeOK
<1>5. (exportedTo <= clock)'
  BY <1>1 DEF MARCTypeOK
<1>3. WhatIsShownIsThere' /\ ChangesAreExported'
  BY <1>1 DEF WhatIsShownIsThere, ChangesAreExported, Record, IsCached
<1>4. NothingIsPassedOver'
  BY <1>1 DEF NothingIsPassedOver, SortKey, MARCTypeOK
<1> QED BY <1>2, <1>5, <1>3, <1>4

LEMMA MARCInvIsInductive ==
  /\ MARCInit => MARCInv
  /\ MARCInv /\ [MARCNext]_marcVars => MARCInv'
<1>1. ASSUME MARCInit PROVE MARCInv
  <2> USE <1>1, MARCAssumption DEF MARCInit
  <2>1. MARCTypeOK
    <3>1. marc_record \in [Books -> Nat \cup {NoRecord}]
      OBVIOUS
    <3>2. file \subseteq Books \X Nat /\ delivered \subseteq Books \X Nat /\ reached \in Int \X Nat
      BY DEF NoKey
    <3> QED BY <3>1, <3>2 DEF MARCTypeOK
  <2>2. WhatIsShownIsThere /\ NothingIsPassedOver /\ ChangesAreExported /\ exportedTo <= clock
    BY DEF WhatIsShownIsThere, NothingIsPassedOver, ChangesAreExported
  <2> QED BY <2>1, <2>2 DEF MARCInv
<1>2. ASSUME MARCInv, [MARCNext]_marcVars PROVE MARCInv'
  <2>1. CASE StartExport \/ ExportPage \/ FinishExport \/ ExporterDies
    BY <1>2, <2>1, StartKeepsInv, PageKeepsInv, EndsKeepInv
  <2>2. CASE MARCTick \/ BreakUpload \/ UNCHANGED marcVars
    BY <1>2, <2>2, RestKeepsInv
  <2>3. ASSUME NEW b \in Books, ChangePresentation(b) \/ UpdateAvailability(b) \/ RefreshRecord(b) \/ Reindex(b) PROVE MARCInv'
    BY <1>2, <2>3, RecalculateKeepsInv, AvailabilityKeepsInv, RefreshKeepsInv, ReindexKeepsInv
  <2> QED BY <1>2, <2>1, <2>2, <2>3 DEF MARCNext
<1> QED BY <1>1, <1>2

\* marc.py, records: for any number of books, page size, start times and delay of the
\* index, a state from before the time to which the recorded exports lead is in a file
\* that was completely uploaded, unless the export that was to have it could not see it
\* when it began.
THEOREM ExportsMissNothing == MARCSpec => []ChangesAreExported
<1>1. MARCInv => ChangesAreExported
  BY DEF MARCInv
<1> QED BY <1>1, MARCInvIsInductive, PTL DEF MARCSpec

-----------------------------------------------------------------------------
(***************************************************************************)
(* The entries of works.                                                   *)
(***************************************************************************)
Entry == [edition : WorkPools \cup {NoPool}, at : Nat, lookup : BOOLEAN, sole : BOOLEAN]
Occupation ==
  [kind : {"work", "lookup", "recalculation"}, content : Entry, writes : BOOLEAN, late : BOOLEAN,
   failed : BOOLEAN, began : Nat]

EntriesTypeOK ==
  /\ pools \in [WorkPools -> PoolStates]
  /\ main \in WorkPools \cup {NoPool}
  /\ changes \in Nat /\ moved \in Nat /\ promised \in Nat
  /\ field \in Entry
  /\ writing \in [EntryClients -> Occupation \cup {Unoccupied}]
  /\ answer \in [pool : WorkPools \cup {NoPool}, content : Entry]

\* Nothing is of a time that is still to come.
NothingFromTheFuture ==
  /\ moved <= changes /\ promised <= changes /\ field.at <= changes
  /\ \A c \in EntryClients :
       writing[c] # Unoccupied => writing[c].content.at <= changes /\ writing[c].began <= changes

\* An entry written down when there was one pool to choose is of that pool's edition
\* for as long as no pool changes.
FitsThePools(entry) ==
  \/ entry = NoEntry \/ entry.lookup \/ ~entry.sole \/ entry.at < moved
  \/ ActivePools = {NoPool} \/ ActivePools = {entry.edition}

EntriesFit ==
  /\ FitsThePools(field)
  /\ \A c \in EntryClients : writing[c] # Unoccupied => FitsThePools(writing[c].content)

\* What a process has made since the last recalculation ended may be written without
\* loss; a recalculation writes what it has found since it began, or fails.
WritersKeepUp ==
  \A c \in EntryClients :
    writing[c] # Unoccupied =>
      /\ writing[c].writes => writing[c].late \/ writing[c].content.at >= promised
      /\ writing[c].kind = "recalculation" =>
           IF writing[c].writes THEN writing[c].content.at >= writing[c].began ELSE writing[c].failed

EntriesInv ==
  /\ EntriesTypeOK /\ NothingFromTheFuture /\ EntriesFit
  /\ lapse = "none" => field.at >= promised
  /\ WritersKeepUp
  /\ AnswersFit

\* What a request may answer and write: an entry it has made, of now, or the cached one.
SoundOutcome(o) ==
  /\ o.kind \in {"work", "lookup", "recalculation"} /\ o.writes \in BOOLEAN
  /\ o.pool \in WorkPools \cup {NoPool} /\ o.content \in Entry
  /\ o.content.at <= changes /\ FitsThePools(o.content)
  /\ o.writes => o.content.at = changes
  /\ o.kind = "recalculation" => (o.writes <=> o.status = "entry")
  /\ o.kind = "work" /\ o.status = "entry" /\ o.pool \notin {NoPool, o.content.edition} =>
       o.content.lookup \/ ~o.content.sole \/ o.content.at < moved

LEMMA ActivePoolsAreFinite == IsFiniteSet(ActivePools) /\ ActivePools \subseteq WorkPools \cup {NoPool} /\ ActivePools # {}
<1>1. IsFiniteSet({p \in WorkPools : pools[p] = "open"}) /\ IsFiniteSet({p \in WorkPools : pools[p] = "licensed"})
  BY EntriesAssumption, FS_Subset
<1>2. IsFiniteSet({NoPool})
  BY FS_Singleton
<1> QED BY <1>1, <1>2 DEF ActivePools

\* When there is one pool to choose from, what has been chosen is it.
LEMMA SoleChoice ==
  ASSUME NEW pool \in ActivePools, Cardinality(ActivePools) = 1
  PROVE  ActivePools = {pool}
<1>1. PICK x : ActivePools = {x}
  BY ActivePoolsAreFinite, FS_Singleton
<1> QED BY <1>1

LEMMA OutcomesAreSound ==
  ASSUME EntriesInv,
         NEW kind \in {"work", "lookup", "recalculation"}, NEW edition \in WorkPools,
         NEW pool \in WorkPools \cup {NoPool}, NEW force \in BOOLEAN, NEW caching \in BOOLEAN,
         kind = "lookup" \/ (pool \in ActivePools /\ pool \in {NoPool, edition}),
         kind = "recalculation" => force /\ caching
  PROVE  SoundOutcome(Outcome(kind, pool, edition, force, caching))
<1> DEFINE found == ~force /\ caching /\ field # NoEntry
           made == [edition |-> edition, at |-> changes, lookup |-> kind = "lookup", sole |-> Cardinality(ActivePools) = 1]
           o == Outcome(kind, pool, edition, force, caching)
<1> USE DEF EntriesInv, EntriesTypeOK, NothingFromTheFuture
<1>1. made \in Entry /\ NoEntry \in Entry
  BY DEF Entry, NoEntry
<1>2. FitsThePools(made)
  <2>1. CASE made.lookup \/ ~made.sole
    BY <2>1 DEF FitsThePools
  <2>2. CASE ~made.lookup /\ made.sole
    <3>1. ActivePools = {pool}
      BY <2>2, SoleChoice
    <3> QED BY <3>1, <2>2 DEF FitsThePools
  <2> QED BY <2>1, <2>2
<1>3. FitsThePools(NoEntry)
  BY DEF FitsThePools, NoEntry
<1>4. FitsThePools(field)
  BY DEF EntriesFit
<1>5. CASE found
  <2>1. o.content = field /\ o.writes = FALSE /\ o.pool = pool /\ o.kind = kind /\ o.status = "entry"
    BY <1>5 DEF Outcome
  <2>2. ASSUME kind = "work", pool \notin {NoPool, field.edition}
        PROVE  field.lookup \/ ~field.sole \/ field.at < moved
    BY <2>2, <1>4, <1>5 DEF FitsThePools
  <2>3. kind # "recalculation"
    BY <1>5
  <2>4. o.content \in Entry /\ o.content.at <= changes
    BY <2>1
  <2> QED BY <2>1, <2>2, <2>3, <2>4, <1>4 DEF SoundOutcome
<1>6. CASE ~found /\ edition \notin printable
  <2>1. o.content = NoEntry /\ o.writes = FALSE /\ o.pool = pool /\ o.kind = kind /\ o.status = "nothing"
    BY <1>6 DEF Outcome
  <2>2. o.content.at <= changes
    BY <2>1 DEF NoEntry
  <2> QED BY <2>1, <2>2, <1>1, <1>3 DEF SoundOutcome
<1>7. CASE ~found /\ edition \in printable
  <2>1. o.content = made /\ o.writes = caching /\ o.pool = pool /\ o.kind = kind /\ o.status = "entry"
    BY <1>7 DEF Outcome
  <2> QED BY <2>1, <1>1, <1>2 DEF SoundOutcome
<1> QED BY <1>5, <1>6, <1>7

LEMMA CreateEntryIsSound ==
  ASSUME EntriesInv, NEW kind \in {"work", "recalculation"}, NEW evenIfNoPool \in BOOLEAN,
         NEW force \in BOOLEAN, NEW caching \in BOOLEAN, kind = "recalculation" => force /\ caching,
         NEW o \in CreateEntry(kind, evenIfNoPool, force, caching)
  PROVE  SoundOutcome(o)
<1> USE DEF EntriesInv, EntriesTypeOK
<1>1. PICK pool \in ActivePools :
        o = LET edition == IF pool = NoPool THEN main ELSE pool
            IN IF edition = NoPool THEN Message(kind, "nothing")
               ELSE IF pool = NoPool /\ ~evenIfNoPool THEN Message(kind, "403")
               ELSE Outcome(kind, pool, edition, force, caching)
  BY DEF CreateEntry
<1>2. SoundOutcome(Message(kind, "nothing")) /\ SoundOutcome(Message(kind, "403"))
  BY DEF Message, SoundOutcome, FitsThePools, Entry, NoEntry
<1> DEFINE edition == IF pool = NoPool THEN main ELSE pool
<1>3. ASSUME edition # NoPool PROVE SoundOutcome(Outcome(kind, pool, edition, force, caching))
  <2>1. edition \in WorkPools /\ pool \in WorkPools \cup {NoPool} /\ pool \in {NoPool, edition}
    BY <1>3, ActivePoolsAreFinite
  <2> HIDE DEF edition
  <2> QED BY <2>1, OutcomesAreSound
<1> QED BY <1>1, <1>2, <1>3

LEMMA SingleEntryIsSound ==
  ASSUME EntriesInv, NEW kind \in {"work", "recalculation"},
         NEW force \in BOOLEAN, NEW caching \in BOOLEAN, kind = "recalculation" => force /\ caching,
         NEW o \in SingleEntry(kind, force, caching)
  PROVE  SoundOutcome(o)
<1>1. SoundOutcome(Message(kind, "nothing"))
  BY DEF Message, SoundOutcome, FitsThePools, Entry, NoEntry, EntriesInv, EntriesTypeOK
<1> QED BY <1>1, CreateEntryIsSound DEF SingleEntry

LEMMA LookUpIsSound ==
  ASSUME EntriesInv, NEW p \in WorkPools
  PROVE  SoundOutcome(LookUp(p))
<1>1. SoundOutcome(Message("lookup", "202"))
  BY DEF Message, SoundOutcome, FitsThePools, Entry, NoEntry, EntriesInv, EntriesTypeOK
<1>2. SoundOutcome(Outcome("lookup", p, p, FALSE, TRUE))
  BY OutcomesAreSound
<1> QED BY <1>1, <1>2 DEF LookUp

\* The invariant is kept by whoever has asked for one of these.
LEMMA ConsiderKeepsInv ==
  ASSUME EntriesInv, NEW c \in EntryClients, NEW outcomes, \A o \in outcomes : SoundOutcome(o),
         Consider(c, outcomes)
  PROVE  EntriesInv'
<1> USE DEF EntriesInv
<1>1. PICK o \in outcomes :
        /\ answer' = IF o.kind = "work" /\ o.status = "entry" THEN [pool |-> o.pool, content |-> o.content] ELSE NoAnswer
        /\ writing' = IF ~o.writes /\ o.kind # "recalculation" THEN writing
                      ELSE [writing EXCEPT ![c] = [kind |-> o.kind, content |-> o.content, writes |-> o.writes, late |-> FALSE,
                                                   failed |-> o.status # "entry", began |-> IF o.kind = "recalculation" THEN changes ELSE 0]]
  BY DEF Consider
<1>2. UNCHANGED <<pools, main, printable, changes, moved, field, promised, lapse>>
  BY DEF Consider
<1> DEFINE r == [kind |-> o.kind, content |-> o.content, writes |-> o.writes, late |-> FALSE,
                 failed |-> o.status # "entry", began |-> IF o.kind = "recalculation" THEN changes ELSE 0]
<1>3. o.kind \in {"work", "lookup", "recalculation"} /\ o.writes \in BOOLEAN /\ o.content \in Entry /\ o.pool \in WorkPools \cup {NoPool}
  BY DEF SoundOutcome
<1>4. r \in Occupation
  BY <1>3 DEF Occupation, EntriesTypeOK
<1>5. \A d \in EntryClients : writing'[d] = writing[d] \/ (d = c /\ writing'[d] = r)
  BY <1>1 DEF EntriesTypeOK
<1>6. writing' \in [EntryClients -> Occupation \cup {Unoccupied}]
  <2>1. CASE writing' = writing
    BY <2>1 DEF EntriesTypeOK
  <2>2. CASE writing' = [writing EXCEPT ![c] = r]
    <3> HIDE DEF r
    <3> QED BY <2>2, <1>4 DEF EntriesTypeOK
  <2> QED BY <2>1, <2>2, <1>1
<1>7. answer' \in [pool : WorkPools \cup {NoPool}, content : Entry]
  BY <1>1, <1>3 DEF NoAnswer, NoEntry, Entry
<1>8. EntriesTypeOK'
  BY <1>2, <1>6, <1>7 DEF EntriesTypeOK
<1>10. NothingFromTheFuture'
  <2>1. r.content.at <= changes /\ r.began <= changes
    BY DEF SoundOutcome, EntriesTypeOK
  <2> HIDE DEF r
  <2> QED BY <1>2, <1>5, <2>1 DEF NothingFromTheFuture, EntriesTypeOK
<1>11. EntriesFit'
  <2>1. FitsThePools(r.content)
    BY DEF SoundOutcome
  <2>2. FitsThePools(field)'
    BY <1>2 DEF FitsThePools, ActivePools, EntriesFit
  <2>3. ASSUME NEW d \in EntryClients, (writing[d] # Unoccupied)' PROVE FitsThePools(writing[d].content)'
    <3>1. FitsThePools(writing'[d].content)
      BY <2>1, <2>3, <1>5 DEF EntriesFit
    <3> QED BY <3>1, <1>2 DEF FitsThePools, ActivePools
  <2> QED BY <2>2, <2>3 DEF EntriesFit
<1>12. (lapse = "none" => field.at >= promised)'
  BY <1>2
<1>13. WritersKeepUp'
  <2>1. /\ r.writes => r.late \/ r.content.at >= promised
        /\ r.kind = "recalculation" => IF r.writes THEN r.content.at >= r.began ELSE r.failed
    BY DEF SoundOutcome, NothingFromTheFuture, EntriesTypeOK
  <2> HIDE DEF r
  <2> QED BY <1>2, <1>5, <2>1 DEF WritersKeepUp
<1>14. AnswersFit'
  BY <1>1, <1>2 DEF AnswersFit, SoundOutcome, NoAnswer
<1> QED BY <1>8, <1>10, <1>11, <1>12, <1>13, <1>14

LEMMA FinishKeepsInv ==
  ASSUME EntriesInv, NEW c \in EntryClients, FinishEntry(c)
  PROVE  EntriesInv'
<1> USE DEF EntriesInv
<1> DEFINE r == writing[c]
           recalculated == r.kind = "recalculation"
<1>1. /\ r # Unoccupied /\ r \in Occupation
      /\ field' = IF r.writes THEN r.content ELSE field
      /\ promised' = IF recalculated /\ r.began > promised THEN r.began ELSE promised
      /\ lapse' = IF r.writes THEN IF r.late THEN "overtaken" ELSE "none"
                  ELSE IF recalculated /\ r.failed THEN "failed"
                  ELSE lapse
      /\ answer' = NoAnswer
      /\ UNCHANGED <<pools, main, printable, changes, moved>>
  BY DEF FinishEntry, EntriesTypeOK
<1>2. writing' = [d \in EntryClients |->
                    IF d = c THEN Unoccupied
                    ELSE IF recalculated /\ writing[d] # Unoccupied THEN [writing[d] EXCEPT !.late = TRUE]
                    ELSE writing[d]]
  BY DEF FinishEntry
<1>3. ASSUME NEW d \in EntryClients, writing'[d] # Unoccupied
      PROVE  /\ writing[d] # Unoccupied /\ writing[d] \in Occupation /\ writing'[d] \in Occupation
             /\ writing'[d].content = writing[d].content /\ writing'[d].writes = writing[d].writes
             /\ writing'[d].failed = writing[d].failed /\ writing'[d].began = writing[d].began
             /\ writing'[d].kind = writing[d].kind
             /\ IF recalculated THEN writing'[d].late ELSE writing'[d].late = writing[d].late
  <2>1. d # c /\ writing[d] # Unoccupied /\ writing[d] \in Occupation
    BY <1>2, <1>3 DEF EntriesTypeOK
  <2> QED BY <1>2, <2>1 DEF Occupation
<1>4. EntriesTypeOK'
  <2>1. writing' \in [EntryClients -> Occupation \cup {Unoccupied}]
    BY <1>2, <1>3
  <2>2. field' \in Entry /\ promised' \in Nat /\ answer' \in [pool : WorkPools \cup {NoPool}, content : Entry]
    BY <1>1 DEF EntriesTypeOK, Occupation, NoAnswer, NoEntry, Entry
  <2> QED BY <1>1, <2>1, <2>2 DEF EntriesTypeOK
<1>5. NothingFromTheFuture'
  BY <1>1, <1>3 DEF NothingFromTheFuture
<1>6. EntriesFit'
  <2>1. FitsThePools(field)'
    BY <1>1 DEF FitsThePools, ActivePools, EntriesFit
  <2>2. ASSUME NEW d \in EntryClients, (writing[d] # Unoccupied)' PROVE FitsThePools(writing[d].content)'
    BY <1>1, <1>3, <2>2 DEF FitsThePools, ActivePools, EntriesFit
  <2> QED BY <2>1, <2>2 DEF EntriesFit
<1>7. (lapse = "none" => field.at >= promised)'
  BY <1>1 DEF WritersKeepUp, Occupation, Entry, EntriesTypeOK
<1>8. WritersKeepUp'
  <2> SUFFICES ASSUME NEW d \in EntryClients, writing'[d] # Unoccupied
               PROVE  /\ writing'[d].writes => writing'[d].late \/ writing'[d].content.at >= promised'
                      /\ writing'[d].kind = "recalculation" =>
                           IF writing'[d].writes THEN writing'[d].content.at >= writing'[d].began ELSE writing'[d].failed
    BY DEF WritersKeepUp
  <2> QED BY <1>1, <1>3 DEF WritersKeepUp
<1>9. AnswersFit'
  BY <1>1 DEF AnswersFit, NoAnswer
<1> QED BY <1>4, <1>5, <1>6, <1>7, <1>8, <1>9

LEMMA ChangesKeepInv ==
  ASSUME EntriesInv, NEW p \in WorkPools, ChangeEdition(p) \/ ChangePool(p)
  PROVE  EntriesInv'
<1> USE DEF EntriesInv
<1>1. /\ changes' = changes + 1 /\ changes' \in Nat
      /\ answer' = NoAnswer
      /\ UNCHANGED <<field, writing, promised, lapse>>
      /\ (moved' = moved /\ pools' = pools) \/ moved' = changes + 1
  BY DEF ChangeEdition, ChangePool, EntriesTypeOK
<1>2. EntriesTypeOK'
  <2>1. pools' \in [WorkPools -> PoolStates] /\ main' \in WorkPools \cup {NoPool} /\ moved' \in Nat
    BY DEF ChangeEdition, ChangePool, EntriesTypeOK
  <2>2. answer' \in [pool : WorkPools \cup {NoPool}, content : Entry]
    BY <1>1 DEF NoAnswer, NoEntry, Entry
  <2> QED BY <1>1, <2>1, <2>2 DEF EntriesTypeOK
<1>3. NothingFromTheFuture'
  <2>1. \A c \in EntryClients : writing[c] # Unoccupied => writing[c].content.at \in Nat /\ writing[c].began \in Nat
    BY DEF EntriesTypeOK, Occupation, Entry
  <2>2. field.at \in Nat
    BY DEF EntriesTypeOK, Entry
  <2> QED BY <1>1, <2>1, <2>2 DEF NothingFromTheFuture, EntriesTypeOK
<1>4. EntriesFit'
  <2>2. FitsThePools(field)'
    <3>1. FitsThePools(field)
      BY DEF EntriesFit
    <3>2. CASE moved' = moved /\ pools' = pools
      BY <1>1, <3>1, <3>2 DEF FitsThePools, ActivePools
    <3>3. CASE moved' = changes + 1
      BY <1>1, <3>3 DEF FitsThePools, Entry, EntriesTypeOK, NothingFromTheFuture
    <3> QED BY <1>1, <3>2, <3>3
  <2>3. ASSUME NEW c \in EntryClients, (writing[c] # Unoccupied)' PROVE FitsThePools(writing[c].content)'
    <3>1. FitsThePools(writing[c].content) /\ writing[c].content \in Entry /\ writing[c].content.at <= changes
      BY <1>1, <2>3 DEF EntriesFit, EntriesTypeOK, Occupation, NothingFromTheFuture
    <3>2. CASE moved' = moved /\ pools' = pools
      BY <1>1, <3>1, <3>2 DEF FitsThePools, ActivePools
    <3>3. CASE moved' = changes + 1
      BY <1>1, <3>1, <3>3 DEF FitsThePools, Entry, EntriesTypeOK
    <3> QED BY <1>1, <3>2, <3>3
  <2> QED BY <2>2, <2>3 DEF EntriesFit
<1>5. (lapse = "none" => field.at >= promised)' /\ WritersKeepUp'
  BY <1>1 DEF WritersKeepUp
<1>6. AnswersFit'
  BY <1>1 DEF AnswersFit, NoAnswer
<1> QED BY <1>2, <1>3, <1>4, <1>5, <1>6

\* Whatever is asked, written and changed, in whatever order.
LEMMA EntriesInvIsInductive ==
  /\ EntriesInit => EntriesInv
  /\ EntriesInv /\ [EntriesNext]_entriesVars => EntriesInv'
<1>1. ASSUME EntriesInit PROVE EntriesInv
  <2> USE <1>1 DEF EntriesInit
  <2>1. EntriesTypeOK
    BY DEF EntriesTypeOK, NoEntry, NoAnswer, Entry
  <2>2. NothingFromTheFuture /\ EntriesFit /\ WritersKeepUp /\ AnswersFit /\ field.at >= promised
    BY DEF NothingFromTheFuture, EntriesFit, FitsThePools, WritersKeepUp, AnswersFit, NoEntry, NoAnswer
  <2> QED BY <2>1, <2>2 DEF EntriesInv
<1>2. ASSUME EntriesInv, [EntriesNext]_entriesVars PROVE EntriesInv'
  <2>1. ASSUME NEW c \in EntryClients, ServePage(c) PROVE EntriesInv'
    <3>1. \A o \in CreateEntry("work", FALSE, FALSE, TRUE) : SoundOutcome(o)
      BY <1>2, CreateEntryIsSound
    <3> QED BY <1>2, <2>1, <3>1, ConsiderKeepsInv DEF ServePage
  <2>2. ASSUME NEW c \in EntryClients, ServeAlone(c) PROVE EntriesInv'
    <3>1. PICK caching \in BOOLEAN : Consider(c, SingleEntry("work", FALSE, caching))
      BY <2>2 DEF ServeAlone
    <3>2. \A o \in SingleEntry("work", FALSE, caching) : SoundOutcome(o)
      BY <1>2, SingleEntryIsSound
    <3> QED BY <1>2, <3>1, <3>2, ConsiderKeepsInv
  <2>3. ASSUME NEW c \in EntryClients, ServeLookup(c) PROVE EntriesInv'
    <3>1. PICK p \in WorkPools : Consider(c, {LookUp(p)})
      BY <2>3 DEF ServeLookup
    <3>2. \A o \in {LookUp(p)} : SoundOutcome(o)
      BY <1>2, LookUpIsSound
    <3> QED BY <1>2, <3>1, <3>2, ConsiderKeepsInv
  <2>4. ASSUME NEW c \in EntryClients, RecalculateEntry(c) PROVE EntriesInv'
    <3>1. \A o \in SingleEntry("recalculation", TRUE, TRUE) : SoundOutcome(o)
      BY <1>2, SingleEntryIsSound
    <3> QED BY <1>2, <2>4, <3>1, ConsiderKeepsInv DEF RecalculateEntry
  <2>5. CASE UNCHANGED entriesVars
    BY <1>2, <2>5 DEF entriesVars, EntriesInv, EntriesTypeOK, NothingFromTheFuture, EntriesFit, FitsThePools,
                      ActivePools, WritersKeepUp, AnswersFit
  <2> QED BY <1>2, <2>1, <2>2, <2>3, <2>4, <2>5, FinishKeepsInv, ChangesKeepInv DEF EntriesNext
<1> QED BY <1>1, <1>2

\* A patron who waits is one of those who wait, whatever the numbers of copies and
\* holds that the license tags of an entry are made of.
LEMMA TagsOfAnyNumbers ==
  ASSUME NEW waiting \in Nat, NEW owned \in Nat, NEW available \in Nat,
         NEW unlimited \in BOOLEAN, NEW loan \in BOOLEAN, NEW hold \in {NoHold, Unplaced} \cup Nat
  PROVE  LET tags == LicenseTags([waiting |-> waiting, owned |-> owned, available |-> available, unlimited |-> unlimited], loan, hold)
         IN /\ hold # NoHold => tags.total > 0 /\ tags.position <= tags.total
            /\ tags.status = "available" /\ ~loan /\ tags.counted => available > 0 /\ owned > 0
BY DEF LicenseTags, NoHold, Unplaced

LEMMA TagsAlwaysAddUp == TagsAddUp
<1> SUFFICES ASSUME NEW waiting \in 0..2, NEW owned \in 0..2, NEW available \in 0..2,
                    NEW unlimited \in BOOLEAN, NEW loan \in BOOLEAN, NEW hold \in NoHold..3
             PROVE  LET tags == LicenseTags([waiting |-> waiting, owned |-> owned, available |-> available, unlimited |-> unlimited], loan, hold)
                    IN /\ hold # NoHold => tags.total > 0 /\ tags.position <= tags.total
                       /\ tags.status = "available" /\ ~loan /\ tags.counted => available > 0 /\ owned > 0
  BY DEF TagsAddUp
<1>1. waiting \in Nat /\ owned \in Nat /\ available \in Nat /\ hold \in {NoHold, Unplaced} \cup Nat
  BY DEF NoHold, Unplaced
<1> QED BY <1>1, TagsOfAnyNumbers

\* opds.py, create_entry and calculate_opds_entries: for any number of pools, editions
\* and processes, the cached entry keeps up with the recalculations that have ended
\* unless one that was overtaken wrote or one that failed went unnoticed, and what is
\* answered about a book is of the edition offered.
THEOREM EntriesAreFollowed == EntriesSpec => []EntriesFollowTheWork
<1>1. EntriesInv => EntriesFollowTheWork
  BY TagsAlwaysAddUp DEF EntriesInv, EntriesKeepUp, EntriesFollowTheWork
<1> QED BY <1>1, EntriesInvIsInductive, PTL DEF EntriesSpec

-----------------------------------------------------------------------------
(***************************************************************************)
(* The migration script.                                                   *)
(***************************************************************************)
\* The three ways in which a file may be lost; an overtaken one may yet be run.
Overtaken(f) == f.kind = "py" /\ \E g \in ran : g.kind = "sql" /\ g.date >= f.date
Excused(f) ==
  \/ f \in passedOver
  \/ interrupted /\ Overtaken(f)
  \/ f.kind = "sql" /\ \E g \in outOfTurn : g.date >= f.date

\* What a run started now would come to.
NewOverall(f) == f \in NewMigrations(overall, released)
NewInPython(f) == f \in NewMigrations(python, OfKind("py", released))

MigrationsTypeOK ==
  /\ released \subseteq Files /\ pending \subseteq released /\ unstamped \subseteq pending
  /\ overall.date \in Nat /\ overall.counter \in Nat /\ python.date \in Nat /\ python.counter \in Nat
  /\ running \in BOOLEAN /\ pythonOnly \in BOOLEAN
  /\ ~running => pending = {}
  /\ pythonOnly => \A f \in pending : f.kind = "py"

\* Releases are whole, and no timestamp is ahead of the latest of them.
ReleasesAreWhole ==
  /\ \A f \in Files \ released, g \in released : f.date > g.date
  /\ (\E g \in released : overall.date <= g.date) /\ (\E g \in released : python.date <= g.date)

\* The file in hand is the first of what is left, and has been run if it is an SQL file.
InHandIsFirst ==
  \A f \in unstamped :
    /\ IsFirst(f, pending)
    /\ f.kind = "sql" => f \in ran
    /\ pythonOnly => f \in outOfTurn

\* What is missing will be found by the next run, of either kind, or it is lost in one of
\* the known ways, or the run in progress still has it, and has overtaken it at worst.
MissingIsNew ==
  \A f \in Missing :
    \/ Excused(f)
    \/ f.kind = "sql" /\ NewOverall(f)
    \/ f.kind = "py" /\ NewOverall(f) /\ NewInPython(f)
    \/ running /\ ~pythonOnly /\ f \in pending /\ Overtaken(f)

\* What is missing is in the run in progress, if it is of the kind that would find it.
MissingIsPending ==
  running => \A f \in Missing : Excused(f) \/ f \in pending \/ (pythonOnly /\ f.kind = "sql")

MigrationsInv ==
  MigrationsTypeOK /\ ReleasesAreWhole /\ InHandIsFirst /\ MissingIsNew /\ MissingIsPending

-----------------------------------------------------------------------------
\* What sorts after a file is new to a timestamp of that file.
LEMMA LaterIsNew ==
  ASSUME NEW files, NEW g \in files, NEW f \in files, f.date \in Nat, g.date \in Nat, f.date >= g.date, SortsBefore(g, f)
  PROVE  f \in NewMigrations(Stamp(g), files)
<1>1. Stamp(g).date = g.date /\ Stamp(g).counter = g.counter
  BY DEF Stamp
<1>2. IsMatch(g, Stamp(g))
  BY <1>1 DEF IsMatch
<1>3. g.date >= Stamp(g).date /\ f.date >= Stamp(g).date
  BY <1>1
<1> QED BY <1>2, <1>3 DEF NewMigrations

\* So is what is dated later.
LEMMA LaterDateIsNew ==
  ASSUME NEW files, NEW stamp, NEW f \in files, f.date \in Nat, stamp.date \in Nat, f.date > stamp.date
  PROVE  f \in NewMigrations(stamp, files)
<1>1. IsAfter(f, stamp) /\ f.date >= stamp.date
  BY DEF IsAfter
<1> QED BY <1>1 DEF NewMigrations

\* More files make nothing old.
LEMMA NewStaysNew ==
  ASSUME NEW files, NEW more, files \subseteq more, NEW stamp, NEW f \in NewMigrations(stamp, files)
  PROVE  f \in NewMigrations(stamp, more)
BY DEF NewMigrations

LEMMA FilesAreDated ==
  \A f \in Files : f.kind \in Kinds /\ f.date \in Nat /\ f.counter \in Nat
BY MigrationsAssumption

\* Of two files that sort in this order, both SQL or both Python, the dates do too.
LEMMA SortedByDate ==
  ASSUME NEW f \in Files, NEW g \in Files, f.kind = g.kind, SortsBefore(f, g)
  PROVE  f.date <= g.date
BY FilesAreDated DEF SortsBefore, Kinds

LEMMA OverallIs ==
  ASSUME NEW stamp, NEW f, stamp.date \in Nat, stamp.counter \in Nat, f.date \in Nat, f.counter \in Nat
  PROVE  /\ Overall(stamp, f) = stamp \/ Overall(stamp, f) = Stamp(f)
         /\ Overall(stamp, f).date \in Nat /\ Overall(stamp, f).counter \in Nat
BY DEF Overall, Stamp

-----------------------------------------------------------------------------
LEMMA MigrationsStart ==
  ASSUME MigrationsInit
  PROVE  MigrationsInv
<1>1. PICK first \in Files : released = {f \in Files : f.date <= first.date}
  BY DEF MigrationsInit
<1>2. PICK s \in released, p \in released :
        overall = Overall(Overall(Never, s), p) /\ python = Stamp(p)
  BY Zenon DEF MigrationsInit
<1>3. pending = {} /\ running = FALSE /\ pythonOnly = FALSE /\ unstamped = {} /\ ran = released
  BY DEF MigrationsInit
<1>4. /\ s.date \in Nat /\ s.counter \in Nat /\ p.date \in Nat /\ p.counter \in Nat /\ first.date \in Nat
      /\ released \subseteq Files
  BY <1>1, <1>2, FilesAreDated
<1>5. Never.date = 0 /\ Never.counter = 0
  BY DEF Never
<1>6. /\ Overall(Never, s) = Never \/ Overall(Never, s) = Stamp(s)
      /\ Overall(Never, s).date \in Nat /\ Overall(Never, s).counter \in Nat
  BY <1>4, <1>5, OverallIs
<1>7. /\ overall = Overall(Never, s) \/ overall = Stamp(p)
      /\ overall.date \in Nat /\ overall.counter \in Nat
  BY <1>2, <1>4, <1>6, OverallIs
<1>8. Stamp(s).date = s.date /\ Stamp(p).date = p.date /\ Stamp(p).counter = p.counter
  BY DEF Stamp
<1>9. MigrationsTypeOK
  BY <1>2, <1>3, <1>4, <1>7, <1>8 DEF MigrationsTypeOK
<1>10. ReleasesAreWhole
  <2>1. \A f \in Files \ released, g \in released : f.date > g.date
    BY <1>1, <1>4, FilesAreDated
  <2>2. CASE overall = Stamp(p)
    BY <1>2, <1>4, <1>8, <2>1, <2>2 DEF ReleasesAreWhole
  <2>3. CASE overall = Stamp(s)
    BY <1>2, <1>4, <1>8, <2>1, <2>3 DEF ReleasesAreWhole
  <2>4. CASE overall = Never
    BY <1>2, <1>4, <1>5, <1>8, <2>1, <2>4 DEF ReleasesAreWhole
  <2> QED BY <1>6, <1>7, <2>2, <2>3, <2>4
<1>11. Missing = {}
  BY <1>3 DEF Missing
<1> QED BY <1>3, <1>9, <1>10, <1>11 DEF MigrationsInv, InHandIsFirst, MissingIsNew, MissingIsPending

LEMMA ReleaseKeeps ==
  ASSUME MigrationsInv, Release
  PROVE  MigrationsInv'
<1>1. PICK date \in {f.date : f \in Files \ released} : released' = {f \in Files : f.date <= date}
  BY DEF Release
<1>2. /\ ~running /\ UNCHANGED <<overall, python, pending, running, pythonOnly, unstamped>>
      /\ UNCHANGED <<ran, passedOver, outOfTurn, interrupted>>
  BY DEF Release, history
<1>3. MigrationsTypeOK /\ ReleasesAreWhole /\ MissingIsNew
  BY DEF MigrationsInv
<1>4. date \in Nat /\ \A g \in released : g.date <= date /\ g.date \in Nat
  BY <1>1, <1>3, FilesAreDated DEF ReleasesAreWhole, MigrationsTypeOK
<1>5. released \subseteq released' /\ released' \subseteq Files
  BY <1>1, <1>3, <1>4 DEF MigrationsTypeOK
<1>6. pending = {} /\ unstamped = {} /\ running = FALSE
  BY <1>2, <1>3 DEF MigrationsTypeOK
<1>7. MigrationsTypeOK'
  BY <1>2, <1>3, <1>5, <1>6 DEF MigrationsTypeOK
<1>8. ReleasesAreWhole'
  <2>1. \A f \in Files \ released', g \in released' : f.date > g.date
    BY <1>1, <1>4, FilesAreDated
  <2> QED BY <1>2, <1>3, <1>5, <2>1 DEF ReleasesAreWhole
<1>9. ASSUME NEW f \in Missing' PROVE Excused(f)' \/ (NewOverall(f)' /\ (f.kind = "py" => NewInPython(f)'))
  <2>1. CASE f \in released
    <3>1. f \in Missing
      BY <1>2, <1>9, <2>1 DEF Missing
    <3>2. Excused(f)' <=> Excused(f)
      BY <1>2 DEF Excused, Overtaken
    <3>3. NewOverall(f) => NewOverall(f)'
      BY <1>2, <1>5, NewStaysNew DEF NewOverall
    <3>4. NewInPython(f) => NewInPython(f)'
      <4>1. OfKind("py", released) \subseteq OfKind("py", released')
        BY <1>5 DEF OfKind
      <4> QED BY <1>2, <4>1, NewStaysNew DEF NewInPython, OfKind
    <3>5. Excused(f) \/ (f.kind = "sql" /\ NewOverall(f)) \/ (f.kind = "py" /\ NewOverall(f) /\ NewInPython(f))
      BY <1>3, <1>6, <3>1 DEF MissingIsNew
    <3> QED BY <3>2, <3>3, <3>4, <3>5
  <2>2. CASE f \notin released
    <3>1. f \in released' /\ f \in Files /\ f.date \in Nat
      BY <1>5, <1>9, FilesAreDated DEF Missing
    <3>2. \A g \in released : f.date > g.date
      BY <1>3, <2>2, <3>1 DEF ReleasesAreWhole
    <3>3. f.date > overall.date /\ f.date > python.date /\ overall.date \in Nat /\ python.date \in Nat
      BY <1>3, <1>4, <3>1, <3>2 DEF ReleasesAreWhole, MigrationsTypeOK
    <3>4. NewOverall(f)'
      BY <1>2, <3>1, <3>3, LaterDateIsNew DEF NewOverall
    <3>5. f.kind = "py" => NewInPython(f)'
      <4>1. f.kind = "py" => f \in OfKind("py", released')
        BY <3>1 DEF OfKind
      <4> QED BY <1>2, <3>1, <3>3, <4>1, LaterDateIsNew DEF NewInPython, OfKind
    <3> QED BY <3>4, <3>5
  <2> QED BY <2>1, <2>2
<1>10. MissingIsNew'
  <2>1. \A f \in Missing' : f.kind \in {"sql", "py"}
    BY <1>5, FilesAreDated DEF Missing, Kinds
  <2> QED BY <1>9, <2>1 DEF MissingIsNew
<1> QED BY <1>2, <1>6, <1>7, <1>8, <1>10 DEF MigrationsInv, InHandIsFirst, MissingIsPending

LEMMA StartKeeps ==
  ASSUME MigrationsInv, StartMigrating
  PROVE  MigrationsInv'
<1>1. /\ ~running /\ running' = TRUE /\ pythonOnly' \in BOOLEAN
      /\ pending' = (IF pythonOnly' THEN NewMigrations(python, OfKind("py", released)) ELSE NewMigrations(overall, released))
      /\ UNCHANGED <<released, overall, python, unstamped, ran, passedOver, outOfTurn, interrupted>>
  BY DEF StartMigrating
<1>2. MigrationsTypeOK /\ ReleasesAreWhole /\ MissingIsNew
  BY DEF MigrationsInv
<1>3. pending = {} /\ unstamped = {}
  BY <1>1, <1>2 DEF MigrationsTypeOK
<1>4. pending' \subseteq released /\ (pythonOnly' => \A f \in pending' : f.kind = "py")
  <2>1. CASE pythonOnly'
    BY <1>1, <2>1 DEF NewMigrations, OfKind
  <2>2. CASE ~pythonOnly'
    BY <1>1, <2>2 DEF NewMigrations
  <2> QED BY <2>1, <2>2
<1>5. MigrationsTypeOK'
  BY <1>1, <1>2, <1>3, <1>4 DEF MigrationsTypeOK
<1>6. ReleasesAreWhole'
  BY <1>1, <1>2 DEF ReleasesAreWhole
<1>7. ASSUME NEW f \in Missing'
      PROVE  /\ f \in Missing
             /\ Excused(f)' <=> Excused(f)
             /\ NewOverall(f)' <=> NewOverall(f)
             /\ NewInPython(f)' <=> NewInPython(f)
             /\ Excused(f) \/ (f.kind = "sql" /\ NewOverall(f)) \/ (f.kind = "py" /\ NewOverall(f) /\ NewInPython(f))
  <2>1. f \in Missing
    BY <1>1, <1>7 DEF Missing
  <2>2. Excused(f)' <=> Excused(f)
    BY <1>1 DEF Excused, Overtaken
  <2>3. (NewOverall(f)' <=> NewOverall(f)) /\ (NewInPython(f)' <=> NewInPython(f))
    BY <1>1 DEF NewOverall, NewInPython
  <2>4. Excused(f) \/ (f.kind = "sql" /\ NewOverall(f)) \/ (f.kind = "py" /\ NewOverall(f) /\ NewInPython(f))
    BY <1>2, <1>3, <2>1 DEF MissingIsNew
  <2> QED BY <2>1, <2>2, <2>3, <2>4
<1>8. MissingIsNew'
  BY <1>7 DEF MissingIsNew
<1>9. MissingIsPending'
  <2>1. ASSUME NEW f \in Missing' PROVE Excused(f)' \/ f \in pending' \/ (pythonOnly' /\ f.kind = "sql")
    <3>1. CASE pythonOnly'
      BY <1>1, <1>7, <2>1, <3>1 DEF NewInPython
    <3>2. CASE ~pythonOnly'
      BY <1>1, <1>7, <2>1, <3>2 DEF NewOverall
    <3> QED BY <3>1, <3>2
  <2> QED BY <2>1 DEF MissingIsPending
<1> QED BY <1>1, <1>3, <1>5, <1>6, <1>8, <1>9 DEF MigrationsInv, InHandIsFirst

\* What is excused stays so.
LEMMA ExcusesStand ==
  ASSUME ran \subseteq ran', passedOver \subseteq passedOver', outOfTurn \subseteq outOfTurn', interrupted => interrupted'
  PROVE  \A f : (Overtaken(f) => Overtaken(f)') /\ (Excused(f) => Excused(f)')
BY DEF Overtaken, Excused

LEMMA RunKeeps ==
  ASSUME MigrationsInv, RunMigration
  PROVE  MigrationsInv'
<1>1. PICK h \in pending :
        /\ running /\ IsFirst(h, pending) /\ unstamped' = {h}
        /\ outOfTurn' = IF pythonOnly THEN outOfTurn \cup {h} ELSE outOfTurn
        /\ ran' = ran \cup {h} \/ (h \in MayGoWrong /\ ran' = ran)
        /\ UNCHANGED <<released, overall, python, pending, running, pythonOnly, passedOver, interrupted>>
  BY DEF RunMigration
<1>2. MigrationsTypeOK /\ ReleasesAreWhole /\ MissingIsNew /\ MissingIsPending
  BY DEF MigrationsInv
<1>3. ran \subseteq ran' /\ outOfTurn \subseteq outOfTurn' /\ passedOver' = passedOver
  BY <1>1
<1>4. h.kind = "sql" => h \in ran'
  BY <1>1, MigrationsAssumption
<1>5. Missing' \subseteq Missing
  BY <1>1, <1>3 DEF Missing
<1>6. \A f : (Overtaken(f) => Overtaken(f)') /\ (Excused(f) => Excused(f)')
  BY <1>1, <1>3, ExcusesStand
<1>7. MigrationsTypeOK'
  BY <1>1, <1>2 DEF MigrationsTypeOK
<1>8. ReleasesAreWhole'
  BY <1>1, <1>2 DEF ReleasesAreWhole
<1>9. InHandIsFirst'
  <2>1. IsFirst(h, pending)'
    BY <1>1 DEF IsFirst
  <2>2. pythonOnly' => h \in outOfTurn'
    BY <1>1
  <2> QED BY <1>1, <1>3, <1>4, <2>1, <2>2 DEF InHandIsFirst, IsFirst
<1>10. MissingIsNew'
  <2>1. \A f : (NewOverall(f)' <=> NewOverall(f)) /\ (NewInPython(f)' <=> NewInPython(f))
    BY <1>1 DEF NewOverall, NewInPython
  <2> QED BY <1>1, <1>2, <1>5, <1>6, <2>1 DEF MissingIsNew
<1>11. MissingIsPending'
  BY <1>1, <1>2, <1>5, <1>6 DEF MissingIsPending
<1> QED BY <1>7, <1>8, <1>9, <1>10, <1>11 DEF MigrationsInv

\* The timestamps move past the file in hand: what is behind them is in the run, or has
\* been overtaken by an SQL file, or the run is out of turn.
LEMMA StampKeeps ==
  ASSUME MigrationsInv, StampMigration
  PROVE  MigrationsInv'
<1>1. PICK h \in unstamped :
        /\ running /\ pending' = pending \ {h} /\ unstamped' = {}
        /\ overall' = Overall(overall, h) /\ python' = Python(python, h)
        /\ passedOver' = passedOver \cup ({h} \ ran)
        /\ UNCHANGED <<released, running, pythonOnly, ran, outOfTurn, interrupted>>
  BY DEF StampMigration, history
<1>2. MigrationsTypeOK /\ ReleasesAreWhole /\ MissingIsNew /\ MissingIsPending /\ InHandIsFirst
  BY DEF MigrationsInv
<1>3. /\ IsFirst(h, pending) /\ (h.kind = "sql" => h \in ran) /\ (pythonOnly => h \in outOfTurn)
      /\ h \in pending /\ h \in released /\ h \in Files
  BY <1>1, <1>2 DEF InHandIsFirst, MigrationsTypeOK
<1>4. h.date \in Nat /\ h.counter \in Nat /\ h.kind \in {"sql", "py"}
  BY <1>3, FilesAreDated DEF Kinds
<1>5. /\ overall' = overall \/ overall' = Stamp(h)
      /\ overall'.date \in Nat /\ overall'.counter \in Nat
  BY <1>1, <1>2, <1>4, OverallIs DEF MigrationsTypeOK
<1>6. /\ python' = python \/ (h.kind = "py" /\ python' = Stamp(h))
      /\ h.kind = "py" => python' = Stamp(h)
  BY <1>1 DEF Python
<1>7. Stamp(h).date = h.date /\ Stamp(h).counter = h.counter
  BY DEF Stamp
<1>8. \A f : (Excused(f) => Excused(f)') /\ (Overtaken(f)' <=> Overtaken(f))
  BY <1>1 DEF Excused, Overtaken
<1>9. Missing' = Missing
  BY <1>1 DEF Missing
<1>10. MigrationsTypeOK'
  BY <1>1, <1>2, <1>4, <1>5, <1>6, <1>7 DEF MigrationsTypeOK
<1>11. ReleasesAreWhole'
  <2>1. \E g \in released : overall'.date <= g.date
    BY <1>2, <1>3, <1>4, <1>5, <1>7 DEF ReleasesAreWhole
  <2>2. \E g \in released : python'.date <= g.date
    BY <1>2, <1>3, <1>4, <1>6, <1>7 DEF ReleasesAreWhole
  <2> QED BY <1>1, <1>2, <2>1, <2>2 DEF ReleasesAreWhole
<1>12. MissingIsPending'
  <2>1. h \in Missing => Excused(h)'
    BY <1>1 DEF Missing, Excused
  <2> QED BY <1>1, <1>2, <1>8, <1>9, <2>1 DEF MissingIsPending
<1>13. ASSUME NEW f \in Missing, ~Excused(f), f # h
       PROVE  \/ f.kind = "sql" /\ NewOverall(f)'
              \/ f.kind = "py" /\ NewOverall(f)' /\ NewInPython(f)'
              \/ ~pythonOnly /\ f \in pending' /\ Overtaken(f)
  <2>1. f # h /\ f \in released /\ f \in Files /\ f.date \in Nat /\ f.kind \in {"sql", "py"}
    BY <1>2, <1>13, FilesAreDated DEF Missing, MigrationsTypeOK, Kinds
  <2>2. \/ f.kind = "sql" /\ NewOverall(f)
        \/ f.kind = "py" /\ NewOverall(f) /\ NewInPython(f)
        \/ ~pythonOnly /\ f \in pending /\ Overtaken(f)
    BY <1>2, <1>13 DEF MissingIsNew
  <2>3. ASSUME f.date > h.date \/ (f.date = h.date /\ SortsBefore(h, f)), NewOverall(f)
        PROVE  NewOverall(f)'
    <3>1. f \in NewMigrations(Stamp(h), released)
      <4>1. CASE f.date > h.date
        BY <1>4, <1>7, <2>1, <4>1, LaterDateIsNew
      <4>2. CASE f.date = h.date /\ SortsBefore(h, f)
        BY <1>3, <1>4, <2>1, <4>2, LaterIsNew
      <4> QED BY <2>3, <4>1, <4>2
    <3> QED BY <1>1, <1>5, <2>3, <3>1 DEF NewOverall
  <2>4. CASE pythonOnly /\ f.kind = "sql"
    <3>1. NewOverall(f)
      BY <2>2, <2>4
    <3>2. f.date > h.date
      BY <1>3, <1>4, <1>13, <2>1, <2>4 DEF Excused
    <3> QED BY <2>3, <2>4, <3>1, <3>2
  <2>5. CASE f \in pending
    <3>1. SortsBefore(h, f) /\ f \in pending'
      BY <1>1, <1>3, <2>1, <2>5 DEF IsFirst
    <3>2. CASE h.kind = "sql" /\ f.kind = "py" /\ f.date <= h.date
      <4>1. ~pythonOnly
        BY <1>2, <1>3, <3>2 DEF MigrationsTypeOK
      <4>2. Overtaken(f)
        BY <1>3, <1>4, <2>1, <3>2 DEF Overtaken
      <4> QED BY <3>1, <4>1, <4>2
    <3>3. CASE ~(h.kind = "sql" /\ f.kind = "py" /\ f.date <= h.date)
      <4>1. f.date > h.date \/ f.date = h.date
        <5>1. CASE f.kind = h.kind
          BY <1>3, <1>4, <2>1, <3>1, <5>1, SortedByDate
        <5>2. CASE f.kind # h.kind
          BY <1>4, <2>1, <3>1, <3>3, <5>2 DEF SortsBefore
        <5> QED BY <5>1, <5>2
      <4>2. NewOverall(f) => NewOverall(f)'
        BY <2>3, <3>1, <4>1
      <4>3. f.kind = "py" /\ NewInPython(f) => NewInPython(f)'
        <5>1. CASE h.kind = "py" /\ f.kind = "py"
          <6>1. h \in OfKind("py", released) /\ f \in OfKind("py", released)
            BY <1>3, <2>1, <5>1 DEF OfKind
          <6>2. f \in NewMigrations(Stamp(h), OfKind("py", released))
            BY <1>4, <2>1, <3>1, <4>1, <6>1, LaterIsNew
          <6> QED BY <1>1, <1>6, <5>1, <6>2 DEF NewInPython
        <5>2. CASE h.kind # "py" \/ f.kind # "py"
          BY <1>1, <1>4, <1>6, <5>2 DEF NewInPython
        <5> QED BY <5>1, <5>2
      <4> QED BY <2>2, <3>1, <4>2, <4>3
    <3> QED BY <3>2, <3>3
  <2> QED BY <1>1, <1>2, <1>13, <2>4, <2>5 DEF MissingIsPending
<1>14. MissingIsNew'
  <2> SUFFICES ASSUME NEW f \in Missing', ~Excused(f)'
               PROVE  \/ f.kind = "sql" /\ NewOverall(f)'
                      \/ f.kind = "py" /\ NewOverall(f)' /\ NewInPython(f)'
                      \/ running' /\ ~pythonOnly' /\ f \in pending' /\ Overtaken(f)'
    BY DEF MissingIsNew
  <2>1. f \in Missing /\ ~Excused(f) /\ f # h /\ running' = TRUE /\ pythonOnly' = pythonOnly /\ (Overtaken(f)' <=> Overtaken(f))
    <3>1. f = h => Excused(f)'
      BY <1>1, <1>9 DEF Missing, Excused
    <3> QED BY <1>1, <1>2, <1>8, <1>9, <3>1 DEF MigrationsTypeOK
  <2> QED BY <1>13, <2>1
<1> QED BY <1>1, <1>10, <1>11, <1>12, <1>14 DEF MigrationsInv, InHandIsFirst

\* A run that is cut off may find less the next time than it has left.
LEMMA CutOffKeeps ==
  ASSUME MigrationsInv, CutOff
  PROVE  MigrationsInv'
<1>1. /\ running /\ running' = FALSE /\ interrupted' = TRUE /\ pending' = {} /\ unstamped' = {}
      /\ UNCHANGED <<released, overall, python, pythonOnly, ran, passedOver, outOfTurn>>
  BY DEF CutOff
<1>2. MigrationsTypeOK /\ ReleasesAreWhole /\ MissingIsNew
  BY DEF MigrationsInv
<1>3. MigrationsTypeOK'
  BY <1>1, <1>2 DEF MigrationsTypeOK
<1>4. ReleasesAreWhole'
  BY <1>1, <1>2 DEF ReleasesAreWhole
<1>5. MissingIsNew'
  <2>1. Missing' = Missing
    BY <1>1 DEF Missing
  <2>2. \A f : (Overtaken(f) => Excused(f)') /\ (Excused(f) => Excused(f)')
    BY <1>1 DEF Excused, Overtaken
  <2>3. \A f : (NewOverall(f)' <=> NewOverall(f)) /\ (NewInPython(f)' <=> NewInPython(f))
    BY <1>1 DEF NewOverall, NewInPython
  <2> QED BY <1>2, <2>1, <2>2, <2>3 DEF MissingIsNew
<1> QED BY <1>1, <1>3, <1>4, <1>5 DEF MigrationsInv, InHandIsFirst, MissingIsPending

LEMMA FinishKeeps ==
  ASSUME MigrationsInv, FinishMigrating
  PROVE  MigrationsInv'
<1>1. /\ running /\ running' = FALSE /\ pending = {}
      /\ UNCHANGED <<released, overall, python, pending, pythonOnly, unstamped, ran, passedOver, outOfTurn, interrupted>>
  BY DEF FinishMigrating, history
<1>2. MigrationsTypeOK /\ ReleasesAreWhole /\ MissingIsNew /\ InHandIsFirst
  BY DEF MigrationsInv
<1>3. MigrationsTypeOK' /\ unstamped = {}
  BY <1>1, <1>2 DEF MigrationsTypeOK
<1>4. ReleasesAreWhole'
  BY <1>1, <1>2 DEF ReleasesAreWhole
<1>5. MissingIsNew'
  <2>1. Missing' = Missing
    BY <1>1 DEF Missing
  <2>2. \A f : Excused(f)' <=> Excused(f)
    BY <1>1 DEF Excused, Overtaken
  <2>3. \A f : (NewOverall(f)' <=> NewOverall(f)) /\ (NewInPython(f)' <=> NewInPython(f))
    BY <1>1 DEF NewOverall, NewInPython
  <2> QED BY <1>1, <1>2, <2>1, <2>2, <2>3 DEF MissingIsNew
<1> QED BY <1>1, <1>3, <1>4, <1>5 DEF MigrationsInv, InHandIsFirst, MissingIsPending

\* The migration script loses a file in three ways only (get_new_migrations,
\* update_timestamps), however often and in whatever way it was run: a Python file that
\* failed was stamped all the same, an interrupted run had overtaken a Python file with an
\* SQL file, or a run of the Python files had overtaken an SQL file.
THEOREM LostFilesAreAccountedFor == MigrationsSpec => OnlyFailedOrOvertakenFilesAreLost
<1> DEFINE Ends == running /\ ~running' /\ pending = {} /\ ~pythonOnly
           Accounted == \A f \in Missing :
             \/ f \in passedOver
             \/ /\ interrupted
                /\ f.kind = "py"
                /\ \E g \in ran : g.kind = "sql" /\ g.date >= f.date
             \/ /\ f.kind = "sql"
                /\ \E g \in outOfTurn : g.date >= f.date
<1>1. MigrationsInit => MigrationsInv
  BY MigrationsStart
<1>2. MigrationsInv /\ [MigrationsNext]_migrationVars => MigrationsInv'
  <2> SUFFICES ASSUME MigrationsInv, [MigrationsNext]_migrationVars PROVE MigrationsInv'
    OBVIOUS
  <2>1. CASE UNCHANGED migrationVars
    <3>1. UNCHANGED <<released, overall, python, pending, running, pythonOnly, unstamped, ran, passedOver, outOfTurn, interrupted>>
      BY <2>1 DEF migrationVars, history
    <3>2. MigrationsTypeOK' /\ ReleasesAreWhole'
      BY <3>1 DEF MigrationsInv, MigrationsTypeOK, ReleasesAreWhole
    <3>3. InHandIsFirst'
      BY <3>1 DEF MigrationsInv, InHandIsFirst, IsFirst
    <3>4. /\ Missing' = Missing
          /\ \A f : /\ Excused(f)' <=> Excused(f)
                    /\ Overtaken(f)' <=> Overtaken(f)
                    /\ NewOverall(f)' <=> NewOverall(f)
                    /\ NewInPython(f)' <=> NewInPython(f)
      BY <3>1 DEF Missing, Excused, Overtaken, NewOverall, NewInPython
    <3>5. MissingIsNew' /\ MissingIsPending'
      BY <3>1, <3>4 DEF MigrationsInv, MissingIsNew, MissingIsPending
    <3> QED BY <3>2, <3>3, <3>5 DEF MigrationsInv
  <2> QED
    BY <2>1, ReleaseKeeps, StartKeeps, RunKeeps, StampKeeps, CutOffKeeps, FinishKeeps, Zenon DEF MigrationsNext
<1>3. MigrationsInv /\ Ends => Accounted
  <2> SUFFICES ASSUME MigrationsInv, Ends, NEW f \in Missing
               PROVE  \/ f \in passedOver
                      \/ interrupted /\ f.kind = "py" /\ \E g \in ran : g.kind = "sql" /\ g.date >= f.date
                      \/ f.kind = "sql" /\ \E g \in outOfTurn : g.date >= f.date
    OBVIOUS
  <2>1. Excused(f)
    BY DEF MigrationsInv, MissingIsPending
  <2> QED BY <2>1 DEF Excused, Overtaken
<1>4. MigrationsInv => [Ends => Accounted]_migrationVars
  BY <1>3
<1> QED BY <1>1, <1>2, <1>4, PTL DEF MigrationsSpec, OnlyFailedOrOvertakenFilesAreLost
=============================================================================
