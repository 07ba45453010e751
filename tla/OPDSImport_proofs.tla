-------------------------- MODULE OPDSImport_proofs --------------------------
(***************************************************************************)
(* Proofs about OPDSImport: what the coverage records and the Works say of *)
(* the Editions, for every set of titles, page size and feed.              *)
(***************************************************************************)
EXTENDS OPDSImport, SequenceTheorems, TLAPS

(* What the import of a page does to each title: nothing, if the title is  *)
(* not on the page; otherwise what its outcome says.                       *)
LEMMA ImportOfOne ==
  ASSUME ImportOneFeed, NEW e \in Entries
  PROVE  \/ /\ edition'[e] = edition[e] /\ attempted'[e] = attempted[e]
            /\ shown'[e] = shown[e] /\ status'[e] = status[e]
            /\ (e \in ready' <=> e \in ready)
            /\ registered \subseteq registered'
            /\ (e \in halfway => e \in halfway')
         \/ \E v, outcome :
              /\ attempted'[e] = v
              /\ status'[e] = ImportStatus(outcome)
              /\ edition'[e] = IF outcome \in {"imported", "no work", "half applied"}
                               THEN v ELSE edition[e]
              /\ (e \in ready' <=> (e \in ready \/ (e \in Offered /\ outcome = "imported")))
              /\ shown'[e] = IF e \in ready' \ ready THEN v ELSE shown[e]
              /\ registered \subseteq registered'
              /\ (outcome \in {"imported", "no work"} /\ e \in ready /\ edition[e] # v)
                   => e \in registered'
              /\ (e \in halfway \/ outcome = "half applied") => e \in halfway' \cup registered'
<1> DEFINE page == feeds[NextFeed]
           titles == {copy.entry : copy \in page}
           copyOf(x) == (CHOOSE copy \in page : copy.entry = x).version
<1>1. PICK result \in [titles -> Outcomes] :
        LET changed == {x \in titles : result[x] \in {"imported", "no work", "half applied"}}
            worked  == {x \in titles \cap Offered : result[x] = "imported"} \ ready
        IN  /\ edition' = [x \in Entries |-> IF x \in changed THEN copyOf(x) ELSE edition[x]]
            /\ ready' = ready \cup worked
            /\ shown' = [x \in Entries |-> IF x \in worked THEN copyOf(x) ELSE shown[x]]
            /\ registered' = registered \cup Flagged(result, page)
            /\ status' = [x \in Entries |-> IF x \in titles THEN ImportStatus(result[x])
                                            ELSE status[x]]
            /\ attempted' = [x \in Entries |-> IF x \in titles THEN copyOf(x)
                                               ELSE attempted[x]]
            /\ halfway' = (halfway \cup {x \in titles : result[x] = "half applied"})
                            \ Flagged(result, page)
  BY DEF ImportOneFeed
<1>2. Flagged(result, page) \subseteq titles
  BY DEF Flagged
<1>3. CASE e \notin titles
  BY <1>1, <1>2, <1>3
<1>4. CASE e \in titles
  <2>1. PICK c \in page : c = (CHOOSE copy \in page : copy.entry = e) /\ c.entry = e
    BY <1>4
  <2>2. copyOf(e) = c.version
    BY <2>1
  <2> HIDE DEF copyOf
  <2>3. (result[e] \in {"imported", "no work"} /\ e \in ready /\ edition[e] # copyOf(e))
          => e \in Flagged(result, page)
    BY <2>1, <2>2 DEF Flagged
  <2> HIDE DEF titles, page
  <2>4. /\ attempted'[e] = copyOf(e)
        /\ status'[e] = ImportStatus(result[e])
        /\ edition'[e] = IF result[e] \in {"imported", "no work", "half applied"}
                         THEN copyOf(e) ELSE edition[e]
        /\ e \in ready' <=> (e \in ready \/ (e \in Offered /\ result[e] = "imported"))
        /\ shown'[e] = IF e \in ready' \ ready THEN copyOf(e) ELSE shown[e]
        /\ registered \subseteq registered'
        /\ (e \in halfway \/ result[e] = "half applied") => e \in halfway' \cup registered'
        /\ Flagged(result, page) \subseteq registered'
    BY <1>1, <1>4
  <2> QED
    BY <2>3, <2>4
<1> QED
  BY <1>3, <1>4

-----------------------------------------------------------------------------
(* The monitor, the server and the catalogue keep to their types.          *)
LEMMA PageIsOfCopies ==
  ASSUME ImportTypeOK, NEW l \in Nat
  PROVE  Page(l) \subseteq Copy
<1> SUFFICES ASSUME NEW i \in OnPage(l)
             PROVE  [entry |-> feed[i], version |-> version[feed[i]]] \in Copy
  BY DEF Page
<1>1. i \in DOMAIN feed
  BY DEF OnPage
<1>2. feed \in Seq(Entries)
  BY DEF ImportTypeOK
<1>3. feed[i] \in Entries
  BY <1>1, <1>2
<1> QED
  BY <1>3 DEF ImportTypeOK, Copy

LEMMA RemoveAtType ==
  ASSUME NEW S, NEW s \in Seq(S), NEW i \in 1..Len(s)
  PROVE  RemoveAt(s, i) \in Seq(S)
<1> DEFINE front == SubSeq(s, 1, i - 1)
           back  == SubSeq(s, i + 1, Len(s))
<1>1. front \in Seq(S)
  BY SubSeqProperties
<1>2. back \in Seq(S)
  BY SubSeqProperties
<1> HIDE DEF front, back
<1>3. front \o back \in Seq(S)
  BY <1>1, <1>2, ConcatProperties
<1> QED
  BY <1>3 DEF RemoveAt, front, back

LEMMA WithoutIsASequence ==
  ASSUME ImportTypeOK, NEW e
  PROVE  Without(e) \in Seq(Entries)
<1>1. CASE e \in Published
  <2>1. Position(e) \in DOMAIN feed
    BY <1>1 DEF Published, Position
  <2>2. feed \in Seq(Entries)
    BY DEF ImportTypeOK
  <2>3. DOMAIN feed = 1..Len(feed)
    BY <2>2, LenProperties
  <2> QED
    BY <1>1, <2>1, <2>2, <2>3, RemoveAtType DEF Without
<1> QED
  BY <1>1 DEF ImportTypeOK, Without

LEMMA RemainingIsASequence ==
  ASSUME ImportTypeOK, feeds # <<>>
  PROVE  Remaining \in Seq(SUBSET Copy) /\ feeds[NextFeed] \in SUBSET Copy
<1>1. feeds \in Seq(SUBSET Copy)
  BY DEF ImportTypeOK
<1>2. NextFeed \in 1..Len(feeds)
  BY <1>1, EmptySeq DEF NextFeed
<1>3. feeds[NextFeed] \in SUBSET Copy
  BY <1>1, <1>2, ElementOfSeq
<1> QED
  BY <1>1, <1>2, <1>3, RemoveAtType DEF Remaining

LEMMA TypeStep ==
  ASSUME ImportTypeOK, [ImportNext]_importVars
  PROVE  ImportTypeOK'
<1> USE ImportAssumption
<1>0. 1 \in Nat \ {0}
  OBVIOUS
<1>1. ASSUME NEW e \in Entries, Publish(e) \/ Withdraw(e)
      PROVE  ImportTypeOK'
  <2>1. Without(e) \in Seq(Entries)
    BY WithoutIsASequence
  <2>2. <<e>> \o Without(e) \in Seq(Entries)
    BY <2>1
  <2>3. raced' \in BOOLEAN
    BY <1>1 DEF ImportTypeOK, Publish, Withdraw
  <2>4. version' \in [Entries -> Version]
    <3>1. version \in [Entries -> Nat]
      BY DEF ImportTypeOK, Version
    <3>2. version' = version \/ version' = [version EXCEPT ![e] = @ + 1]
      BY <1>1 DEF Publish, Withdraw
    <3>3. version[e] + 1 \in Nat
      BY <3>1
    <3> QED
      BY <3>1, <3>2, <3>3 DEF Version
  <2>5. newer' \subseteq Entries
    BY <1>1 DEF ImportTypeOK, Publish, Withdraw, catalog
  <2> QED
    BY <1>1, <2>1, <2>2, <2>3, <2>4, <2>5
    DEF ImportTypeOK, Publish, Withdraw, monitor, catalog
<1>2. ASSUME NEW e \in Entries, Recalculate(e)
      PROVE  ImportTypeOK'
  BY <1>2 DEF ImportTypeOK, Recalculate, server, monitor
<1>3. CASE StartImport
  BY <1>3 DEF ImportTypeOK, StartImport, server, catalog
<1>4. CASE FollowOneLink
  <2>1. Page(link) \subseteq Copy
    BY PageIsOfCopies DEF ImportTypeOK
  <2>2. Append(feeds, Page(link)) \in Seq(SUBSET Copy)
    <3>1. feeds \in Seq(SUBSET Copy)
      BY DEF ImportTypeOK
    <3> QED
      BY <2>1, <3>1, AppendProperties
  <2>3. feeds' \in Seq(SUBSET Copy)
    BY <1>4, <2>2 DEF FollowOneLink, ImportTypeOK
  <2>4. link' \in Nat \ {0} /\ progress' \in {"idle", "fetching", "importing"}
    <3>1. link \in Nat
      BY DEF ImportTypeOK
    <3>2. link' \in {1, link + 1} /\ progress' \in {progress, "importing"}
      BY <1>4 DEF FollowOneLink
    <3>3. link + 1 \in Nat \ {0}
      BY <3>1
    <3>4. progress \in {"idle", "fetching", "importing"}
      BY DEF ImportTypeOK
    <3> QED
      BY <1>0, <3>2, <3>3, <3>4
  <2> QED
    BY <1>4, <2>3, <2>4 DEF ImportTypeOK, FollowOneLink, server, catalog
<1>5. CASE ImportOneFeed
  <2>1. /\ Remaining \in Seq(SUBSET Copy)
        /\ feeds[NextFeed] \in SUBSET Copy
    BY <1>5, RemainingIsASequence DEF ImportOneFeed
  <2>2. feeds' \in Seq(SUBSET Copy)
    BY <1>5, <2>1 DEF ImportOneFeed
  <2>3. server' = server /\ progress' = progress /\ force' = force /\ link' = link /\ raced' = raced
    BY <1>5 DEF ImportOneFeed
  <2> DEFINE page == feeds[NextFeed]
             titles == {copy.entry : copy \in page}
             copyOf(x) == (CHOOSE copy \in page : copy.entry = x).version
  <2>4. PICK result \in [titles -> Outcomes] :
          LET changed == {x \in titles : result[x] \in {"imported", "no work", "half applied"}}
              worked  == {x \in titles \cap Offered : result[x] = "imported"} \ ready
          IN  /\ edition' = [x \in Entries |-> IF x \in changed THEN copyOf(x) ELSE edition[x]]
              /\ ready' = ready \cup worked
              /\ shown' = [x \in Entries |-> IF x \in worked THEN copyOf(x) ELSE shown[x]]
              /\ registered' = registered \cup Flagged(result, page)
              /\ status' = [x \in Entries |-> IF x \in titles THEN ImportStatus(result[x])
                                              ELSE status[x]]
              /\ newer' = newer \ titles
              /\ attempted' = [x \in Entries |-> IF x \in titles THEN copyOf(x)
                                                 ELSE attempted[x]]
              /\ halfway' = (halfway \cup {x \in titles : result[x] = "half applied"})
                              \ Flagged(result, page)
    BY <1>5 DEF ImportOneFeed
  <2>5. titles \subseteq Entries
    BY <2>1 DEF Copy
  <2>6. \A x \in titles : copyOf(x) \in Version
    BY <2>1 DEF Copy
  <2>7. \A x : ImportStatus(x) \in {"success", "transient failure", "persistent failure"}
    BY DEF ImportStatus
  <2> HIDE DEF copyOf, titles, page
  <2>8. edition' \in [Entries -> Version]
    BY <2>4, <2>6 DEF ImportTypeOK
  <2>9. shown' \in [Entries -> Version]
    BY <2>4, <2>6 DEF ImportTypeOK
  <2>10. attempted' \in [Entries -> Version]
    BY <2>4, <2>6 DEF ImportTypeOK
  <2>11. status' \in [Entries -> {"none", "success", "transient failure", "persistent failure"}]
    BY <2>4, <2>7 DEF ImportTypeOK
  <2>12. ready' \subseteq Offered /\ newer' \subseteq Entries
    BY <2>4, <2>5 DEF ImportTypeOK
  <2>13. Flagged(result, page) \subseteq ready
    BY DEF Flagged
  <2>14. registered' \subseteq Entries /\ halfway' \subseteq Entries
    BY <2>4, <2>5, <2>13 DEF ImportTypeOK
  <2>15. /\ feed' \in Seq(Entries) /\ version' \in [Entries -> Version]
         /\ progress' \in {"idle", "fetching", "importing"}
         /\ force' \in BOOLEAN /\ raced' \in BOOLEAN
         /\ link' \in Nat \ {0}
    BY <2>3 DEF ImportTypeOK, server
  <2> QED
    BY <2>2, <2>8, <2>9, <2>10, <2>11, <2>12, <2>14, <2>15 DEF ImportTypeOK
<1>6. CASE EndImport
  BY <1>6 DEF ImportTypeOK, EndImport, server, catalog
<1>7. CASE ImportFails
  <2>1. feeds' \in Seq(SUBSET Copy) /\ link' \in Nat \ {0}
    BY <1>0, <1>7 DEF ImportFails
  <2>2. progress' = "idle" /\ force' = FALSE
    BY <1>7 DEF ImportFails
  <2> QED
    BY <1>7, <2>1, <2>2 DEF ImportTypeOK, ImportFails, server, catalog
<1>8. CASE UNCHANGED importVars
  BY <1>8 DEF ImportTypeOK, importVars, server, monitor, catalog
<1> QED
  BY <1>1, <1>2, <1>3, <1>4, <1>5, <1>6, <1>7, <1>8 DEF ImportNext

LEMMA InitTypes ==
  ASSUME ImportInit
  PROVE  ImportTypeOK
<1> USE ImportAssumption
<1>1. feed \in Seq(Entries) /\ feeds \in Seq(SUBSET Copy)
  BY DEF ImportInit
<1>2. /\ version \in [Entries -> Version] /\ edition \in [Entries -> Version]
      /\ shown \in [Entries -> Version] /\ attempted \in [Entries -> Version]
  BY DEF ImportInit, Version
<1>3. status \in [Entries -> {"none", "success", "transient failure", "persistent failure"}]
  BY DEF ImportInit
<1>4. /\ progress \in {"idle", "fetching", "importing"}
      /\ force \in BOOLEAN /\ raced \in BOOLEAN
      /\ ready \subseteq Offered /\ registered \subseteq Entries
      /\ newer \subseteq Entries /\ halfway \subseteq Entries
  BY DEF ImportInit
<1>5. link \in Nat \ {0}
  BY DEF ImportInit
<1> QED
  BY <1>1, <1>2, <1>3, <1>4, <1>5 DEF ImportTypeOK

THEOREM TypeCorrect == ImportSpec => []ImportTypeOK
  BY InitTypes, TypeStep, PTL DEF ImportSpec

-----------------------------------------------------------------------------
(* A coverage record that says "success" is that of an Edition as it is,   *)
(* with a Work.                                                            *)
THEOREM SuccessIsEarned == ImportSpec => []SuccessMeansImported
<1>1. ImportInit => SuccessMeansImported
  BY DEF ImportInit, SuccessMeansImported
<1>2. ASSUME SuccessMeansImported, [ImportNext]_importVars
      PROVE  SuccessMeansImported'
  <2>1. CASE ImportOneFeed
    <3> SUFFICES ASSUME NEW e \in Entries, status'[e] = "success"
                 PROVE  edition'[e] = attempted'[e] /\ (e \in Offered => e \in ready')
      BY DEF SuccessMeansImported
    <3> QED
      BY <1>2, <2>1, ImportOfOne DEF SuccessMeansImported, ImportStatus
  <2>2. CASE UNCHANGED <<edition, ready, status, attempted>>
    BY <1>2, <2>2 DEF SuccessMeansImported
  <2> QED
    BY <1>2, <2>1, <2>2
    DEF ImportNext, Publish, Withdraw, Recalculate, StartImport, FollowOneLink, EndImport, ImportFails,
        importVars, catalog
<1> QED
  BY <1>1, <1>2, PTL DEF ImportSpec

-----------------------------------------------------------------------------
(* What WorksFollowEditions rests on: the Works are those of titles.       *)
WorksAreOfTitles ==
  /\ ready \subseteq Entries
  /\ shown = [e \in Entries |-> shown[e]]

LEMMA TitlesStep ==
  ASSUME WorksAreOfTitles, [ImportNext]_importVars
  PROVE  WorksAreOfTitles'
<1> USE ImportAssumption DEF WorksAreOfTitles
<1>1. CASE ImportOneFeed
  BY <1>1 DEF ImportOneFeed
<1>2. CASE \E e \in Entries : Recalculate(e)
  BY <1>2 DEF Recalculate, monitor
<1>3. CASE UNCHANGED <<ready, shown>>
  BY <1>3
<1> QED
  BY <1>1, <1>2, <1>3
  DEF ImportNext, Publish, Withdraw, StartImport, FollowOneLink, EndImport, ImportFails, importVars, catalog

(* No Work presents an Edition of the past without anybody knowing, except *)
(* after an import that raised half-way.                                   *)
THEOREM WorksCatchUp == ImportSpec => []WorksFollowEditions
<1>1. ImportInit => WorksFollowEditions /\ WorksAreOfTitles
  BY DEF ImportInit, WorksFollowEditions, WorksAreOfTitles
<1>2. ASSUME WorksFollowEditions, WorksAreOfTitles, [ImportNext]_importVars
      PROVE  WorksFollowEditions'
  <2>1. ready' \subseteq Entries
    BY <1>2, TitlesStep DEF WorksAreOfTitles
  <2>2. CASE ImportOneFeed
    <3> SUFFICES ASSUME NEW e \in ready'
                 PROVE  shown'[e] = edition'[e] \/ e \in registered' \/ e \in halfway'
      BY DEF WorksFollowEditions
    <3> QED
      BY <1>2, <2>1, <2>2, ImportOfOne DEF WorksFollowEditions
  <2>3. CASE \E e \in Entries : Recalculate(e)
    BY <1>2, <2>3 DEF WorksFollowEditions, WorksAreOfTitles, Recalculate
  <2>4. CASE UNCHANGED <<edition, ready, shown, registered, halfway>>
    BY <1>2, <2>4 DEF WorksFollowEditions
  <2> QED
    BY <1>2, <2>2, <2>3, <2>4
    DEF ImportNext, Publish, Withdraw, StartImport, FollowOneLink, EndImport, ImportFails, importVars, catalog
<1> QED
  BY <1>1, <1>2, TitlesStep, PTL DEF ImportSpec

-----------------------------------------------------------------------------
(* What NothingIsHidden rests on.  The feed is in the order of publication, *)
(* and a run imports what it holds from the end, so that what was not yet   *)
(* attempted is always a prefix of the feed.                                *)

Missed(e) == attempted[e] # version[e]
TitlesOf(page) == {copy.entry : copy \in page}

(* Every title is in the feed once.                                         *)
NoTitleTwice == \A m, n \in DOMAIN feed : feed[m] = feed[n] => m = n

(* A version nobody attempted counts as new.                                *)
MissedIsNew == \A e \in Entries : Missed(e) => IdentifierNeedsImport(e)

(* Nothing that was attempted is published before what was not.             *)
MissedFirst ==
  \A m, n \in DOMAIN feed : m < n /\ Missed(feed[n]) => Missed(feed[m])

(* What the monitor holds is what the server has.                           *)
CopiesAreCurrent ==
  \A k \in DOMAIN feeds : \A copy \in feeds[k] : copy.version = version[copy.entry]

(* What was missed behind a page in hand is on that page, on one that will  *)
(* be imported earlier, or on one not fetched yet.                          *)
InHandFromTheEnd ==
  \A k \in DOMAIN feeds : \A m, n \in DOMAIN feed :
    (m < n /\ feed[m] \in TitlesOf(feeds[k]) /\ Missed(feed[n])) =>
      \/ \E j \in DOMAIN feeds : j >= k /\ feed[n] \in TitlesOf(feeds[j])
      \/ progress = "fetching" /\ n > (link - 1) * PageSize

(* What was attempted had been published.                                   *)
NotFromTheFuture ==
  /\ \A e \in Entries : attempted[e] <= version[e]
  /\ \A k \in DOMAIN feeds : \A copy \in feeds[k] : copy.version <= version[copy.entry]

Sane == ImportTypeOK /\ NoTitleTwice /\ NotFromTheFuture
Orderly == MissedIsNew /\ MissedFirst /\ CopiesAreCurrent /\ InHandFromTheEnd
ImportInv == Sane /\ (~raced => Orderly)

(* Taking a title out of the feed leaves the others in their order: what   *)
(* is in position i then is what was in position Was(e, i).                *)
Was(e, i) == IF e \in Published /\ i >= Position(e) THEN i + 1 ELSE i

LEMMA WithoutKeepsOrder ==
  ASSUME ImportTypeOK, NoTitleTwice, NEW e
  PROVE  /\ Without(e) \in Seq(Entries)
         /\ DOMAIN Without(e) = 1..Len(Without(e)) /\ Len(Without(e)) \in Nat
         /\ \A i \in DOMAIN Without(e) : /\ Was(e, i) \in DOMAIN feed
                                         /\ Without(e)[i] = feed[Was(e, i)]
                                         /\ Without(e)[i] # e
<1>1. feed \in Seq(Entries)
  BY DEF ImportTypeOK
<1>2. DOMAIN feed = 1..Len(feed) /\ Len(feed) \in Nat
  BY <1>1, LenProperties
<1>3. CASE e \notin Published
  BY <1>1, <1>2, <1>3 DEF Without, Published, Was
<1>4. CASE e \in Published
  <2> DEFINE p == Position(e)
             front == SubSeq(feed, 1, p - 1)
             back  == SubSeq(feed, p + 1, Len(feed))
  <2>1. p \in 1..Len(feed) /\ feed[p] = e
    BY <1>2, <1>4 DEF Published, Position
  <2>2. /\ p \in Nat /\ 1 <= p /\ p <= Len(feed) /\ Len(feed) \in Nat
        /\ \A i : Was(e, i) = IF i >= p THEN i + 1 ELSE i
    BY <1>2, <1>4, <2>1 DEF Was
  <2>3. Without(e) = front \o back
    BY <1>4 DEF Without, RemoveAt
  <2> HIDE DEF p, front, back
  <2>4. /\ front \in Seq(Entries)
        /\ Len(front) = p - 1
        /\ \A i \in 1..(p - 1) : front[i] = feed[i]
    <3>1. /\ 1 \in Int /\ p - 1 \in Int
          /\ \A i \in 1..(p - 1) : feed[i] \in Entries
      BY <1>1, <1>2, <2>1, ElementOfSeq
    <3> QED
      BY <1>2, <2>1, <3>1, SubSeqProperties DEF front
  <2>5. /\ back \in Seq(Entries)
        /\ Len(back) = Len(feed) - p
        /\ \A i \in 1..(Len(feed) - p) : back[i] = feed[p + i]
    <3>1. \A i \in (p + 1)..Len(feed) : feed[i] \in Entries
      BY <1>1, <1>2, <2>1, ElementOfSeq
    <3>2. /\ back \in Seq(Entries)
          /\ Len(back) = IF p + 1 <= Len(feed) THEN Len(feed) - (p + 1) + 1 ELSE 0
          /\ \A i \in 1..(Len(feed) - (p + 1) + 1) : back[i] = feed[(p + 1) + i - 1]
      BY <1>1, <1>2, <2>1, <3>1, SubSeqProperties DEF back
    <3>3. /\ Len(feed) - (p + 1) + 1 = Len(feed) - p
          /\ IF p + 1 <= Len(feed) THEN TRUE ELSE Len(feed) - p = 0
          /\ \A i \in 1..(Len(feed) - p) : (p + 1) + i - 1 = p + i
      BY <2>2
    <3> QED
      BY <3>2, <3>3
  <2>6. /\ front \o back \in Seq(Entries)
        /\ Len(front \o back) = Len(front) + Len(back)
        /\ \A i \in 1..(Len(front) + Len(back)) :
             (front \o back)[i] = IF i <= Len(front) THEN front[i] ELSE back[i - Len(front)]
    BY <2>4, <2>5, ConcatProperties
  <2>7. DOMAIN Without(e) = 1..(Len(feed) - 1) /\ Len(Without(e)) = Len(feed) - 1
    <3>1. Len(front) + Len(back) = Len(feed) - 1
      BY <2>2, <2>4, <2>5
    <3> QED
      BY <2>3, <2>6, <3>1, LenProperties
  <2> SUFFICES ASSUME NEW i \in 1..(Len(feed) - 1)
               PROVE  /\ Was(e, i) \in DOMAIN feed
                      /\ Without(e)[i] = feed[Was(e, i)]
                      /\ Without(e)[i] # e
    <3>1. Len(feed) - 1 \in Nat
      BY <2>2
    <3> QED
      BY <2>3, <2>6, <2>7, <3>1
  <2>8. i \in Nat /\ 1 <= i /\ i < Len(feed)
    BY <2>2
  <2>9. Was(e, i) \in 1..Len(feed) /\ Was(e, i) # p
    BY <2>2, <2>8
  <2>10. Without(e)[i] = feed[Was(e, i)]
    <3>1. (front \o back)[i] = IF i <= p - 1 THEN front[i] ELSE back[i - (p - 1)]
      BY <2>2, <2>4, <2>5, <2>6, <2>8
    <3>2. CASE i <= p - 1
      <4>1. Was(e, i) = i /\ i \in 1..(p - 1)
        BY <2>2, <2>8, <3>2
      <4> QED
        BY <2>3, <2>4, <3>1, <3>2, <4>1
    <3>3. CASE ~(i <= p - 1)
      <4>1. Was(e, i) = i + 1 /\ i - (p - 1) \in 1..(Len(feed) - p) /\ p + (i - (p - 1)) = i + 1
        BY <2>2, <2>8, <3>3
      <4> QED
        BY <2>3, <2>5, <3>1, <3>3, <4>1
    <3> QED
      BY <3>2, <3>3
  <2> QED
    BY <1>2, <2>1, <2>9, <2>10 DEF NoTitleTwice
<1> QED
  BY <1>3, <1>4

LEMMA WasInOrder ==
  ASSUME ImportTypeOK, NEW e, NEW i \in Nat, NEW j \in Nat, i < j
  PROVE  /\ Was(e, i) \in Nat /\ Was(e, j) \in Nat
         /\ Was(e, i) < Was(e, j)
         /\ i <= Was(e, i) /\ Was(e, i) <= i + 1
<1>1. e \in Published => Position(e) \in Nat
  <2>1. feed \in Seq(Entries)
    BY DEF ImportTypeOK
  <2>2. DOMAIN feed = 1..Len(feed)
    BY <2>1, LenProperties
  <2>3. e \in Published => Position(e) \in DOMAIN feed
    BY DEF Published, Position
  <2> QED
    BY <2>2, <2>3
<1> QED
  BY <1>1 DEF Was

LEMMA FeedAfterPublish ==
  ASSUME ImportTypeOK, NoTitleTwice, NEW e \in Entries, Publish(e)
  PROVE  /\ DOMAIN feed' = 1..Len(feed') /\ Len(feed') \in Nat
         /\ feed'[1] = e
         /\ \A i \in DOMAIN feed' \ {1} : /\ i - 1 \in Nat \ {0}
                                          /\ Was(e, i - 1) \in DOMAIN feed
                                          /\ feed'[i] = feed[Was(e, i - 1)]
                                          /\ feed'[i] # e
<1> DEFINE w == Without(e)
<1>1. /\ w \in Seq(Entries) /\ DOMAIN w = 1..Len(w) /\ Len(w) \in Nat
      /\ \A i \in DOMAIN w : /\ Was(e, i) \in DOMAIN feed
                             /\ w[i] = feed[Was(e, i)]
                             /\ w[i] # e
  BY WithoutKeepsOrder
<1>2. feed' = <<e>> \o w
  BY DEF Publish
<1> HIDE DEF w
<1>3. /\ <<e>> \in Seq(Entries) /\ Len(<<e>>) = 1 /\ <<e>>[1] = e
  OBVIOUS
<1>4. /\ feed' \in Seq(Entries)
      /\ Len(feed') = Len(<<e>>) + Len(w)
      /\ \A i \in 1..(Len(<<e>>) + Len(w)) :
           feed'[i] = IF i <= Len(<<e>>) THEN <<e>>[i] ELSE w[i - Len(<<e>>)]
  BY <1>1, <1>2, <1>3, ConcatProperties
<1>5. DOMAIN feed' = 1..Len(feed') /\ Len(feed') = Len(w) + 1
  BY <1>1, <1>3, <1>4, LenProperties
<1>6. feed'[1] = e
  BY <1>1, <1>3, <1>4
<1>7. ASSUME NEW i \in DOMAIN feed' \ {1}
      PROVE  i - 1 \in 1..Len(w) /\ feed'[i] = w[i - 1]
  <2>1. i \in 1..(1 + Len(w)) /\ i # 1
    BY <1>1, <1>5
  <2>2. i - 1 \in 1..Len(w) /\ ~(i <= 1)
    BY <1>1, <2>1
  <2> QED
    BY <1>3, <1>4, <2>1, <2>2
<1>8. Len(feed') \in Nat /\ \A i \in 1..Len(w) : i \in Nat \ {0}
  BY <1>1, <1>5
<1> QED
  BY <1>1, <1>5, <1>6, <1>7, <1>8

LEMMA FeedAfterWithdraw ==
  ASSUME ImportTypeOK, NoTitleTwice, NEW e \in Entries, Withdraw(e)
  PROVE  /\ DOMAIN feed' = 1..Len(feed') /\ Len(feed') \in Nat
         /\ \A i \in DOMAIN feed' : /\ i \in Nat \ {0}
                                    /\ Was(e, i) \in DOMAIN feed
                                    /\ feed'[i] = feed[Was(e, i)]
                                    /\ feed'[i] # e
<1>1. feed' = Without(e)
  BY DEF Withdraw
<1> QED
  BY <1>1, WithoutKeepsOrder

(* The import of a page leaves the other pages, and marks its titles as     *)
(* attempted.                                                               *)
LEMMA FeedsAfterImport ==
  ASSUME ImportTypeOK, ImportOneFeed
  PROVE  /\ NextFeed \in DOMAIN feeds
         /\ DOMAIN feeds' = DOMAIN feeds \ {NextFeed}
         /\ \A k \in DOMAIN feeds' : feeds'[k] = feeds[k] /\ k \in Nat /\ k < NextFeed
         /\ NextFeed \in Nat
         /\ \A k \in DOMAIN feeds : k \in Nat /\ k <= NextFeed
<1>1. feeds \in Seq(SUBSET Copy) /\ feeds # <<>>
  BY DEF ImportTypeOK, ImportOneFeed
<1>2. DOMAIN feeds = 1..Len(feeds) /\ Len(feeds) \in Nat /\ Len(feeds) # 0
  BY <1>1, LenProperties, EmptySeq
<1> DEFINE n == Len(feeds)
           front == SubSeq(feeds, 1, n - 1)
           back  == SubSeq(feeds, n + 1, n)
<1>3. feeds' = front \o back
  BY DEF ImportOneFeed, Remaining, NextFeed, RemoveAt
<1>4. n \in Nat /\ 1 <= n
  BY <1>2
<1>5. \A i \in 1..n : feeds[i] \in SUBSET Copy
  BY <1>1, <1>2, ElementOfSeq
<1> HIDE DEF n
<1>6. /\ front \in Seq(SUBSET Copy)
      /\ Len(front) = n - 1
      /\ \A i \in 1..(n - 1) : front[i] = feeds[i]
  <2>1. 1 \in Int /\ n - 1 \in Int /\ \A i \in 1..(n - 1) : feeds[i] \in SUBSET Copy
    BY <1>4, <1>5
  <2> QED
    BY <1>1, <1>4, <2>1, SubSeqProperties
<1>7. back \in Seq(SUBSET Copy) /\ Len(back) = 0
  <2>1. n + 1 \in Int /\ n \in Int /\ \A i \in (n + 1)..n : feeds[i] \in SUBSET Copy
    BY <1>4
  <2> QED
    BY <1>1, <1>4, <2>1, SubSeqProperties
<1> HIDE DEF front, back
<1>8. feeds' = front
  <2>1. back = <<>>
    BY <1>7, EmptySeq
  <2> QED
    BY <1>3, <1>6, <2>1, ConcatEmptySeq
<1>9. DOMAIN feeds' = 1..(n - 1)
  BY <1>6, <1>8, LenProperties
<1>10. NextFeed = n /\ DOMAIN feeds = 1..n
  BY <1>2 DEF NextFeed, n
<1> QED
  BY <1>4, <1>6, <1>8, <1>9, <1>10

LEMMA MarksOfImport ==
  ASSUME ImportOneFeed, NEW e \in Entries
  PROVE  \/ /\ e \notin TitlesOf(feeds[NextFeed])
            /\ attempted'[e] = attempted[e]
            /\ IdentifierNeedsImport(e) => IdentifierNeedsImport(e)'
         \/ \E copy \in feeds[NextFeed] : copy.entry = e /\ attempted'[e] = copy.version
<1> DEFINE page == feeds[NextFeed]
           titles == {copy.entry : copy \in page}
           copyOf(x) == (CHOOSE copy \in page : copy.entry = x).version
<1>1. PICK result \in [titles -> Outcomes] :
        /\ status' = [x \in Entries |-> IF x \in titles THEN ImportStatus(result[x])
                                        ELSE status[x]]
        /\ newer' = newer \ titles
        /\ attempted' = [x \in Entries |-> IF x \in titles THEN copyOf(x)
                                           ELSE attempted[x]]
  BY DEF ImportOneFeed
<1>2. CASE e \notin titles
  BY <1>1, <1>2 DEF IdentifierNeedsImport, TitlesOf
<1>3. CASE e \in titles
  <2>1. PICK c \in page : c = (CHOOSE copy \in page : copy.entry = e) /\ c.entry = e
    BY <1>3
  <2>2. attempted'[e] = c.version
    BY <1>1, <1>3, <2>1
  <2> QED
    BY <2>1, <2>2
<1> QED
  BY <1>2, <1>3

LEMMA TypesInHand ==
  ASSUME ImportTypeOK
  PROVE  /\ \A i \in DOMAIN feed : feed[i] \in Entries /\ i \in Nat \ {0}
         /\ DOMAIN feed = 1..Len(feed) /\ Len(feed) \in Nat
         /\ \A k \in DOMAIN feeds : \A copy \in feeds[k] :
              /\ copy.entry \in Entries /\ copy.version \in Nat
              /\ copy.entry \in TitlesOf(feeds[k])
         /\ \A e \in Entries : version[e] \in Nat /\ attempted[e] \in Nat
<1>1. feed \in Seq(Entries) /\ feeds \in Seq(SUBSET Copy)
  BY DEF ImportTypeOK
<1>2. \A i \in DOMAIN feed : feed[i] \in Entries
  BY <1>1
<1>3. DOMAIN feed = 1..Len(feed) /\ Len(feed) \in Nat
  BY <1>1, LenProperties
<1>4. \A k \in DOMAIN feeds : feeds[k] \subseteq Copy
  BY <1>1
<1>5. \A k \in DOMAIN feeds : \A copy \in feeds[k] :
        copy.entry \in Entries /\ copy.version \in Nat
  BY <1>4 DEF Copy, Version
<1>6. \A e \in Entries : version[e] \in Nat /\ attempted[e] \in Nat
  BY DEF ImportTypeOK, Version
<1>7. \A i \in DOMAIN feed : i \in Nat \ {0}
  BY <1>3
<1> QED
  BY <1>2, <1>3, <1>5, <1>6, <1>7 DEF TitlesOf

(* What a step of the monitor that fetches a page adds to its hands.        *)
LEMMA FeedsAfterFetch ==
  ASSUME ImportTypeOK, FollowOneLink
  PROVE  \/ feeds' = feeds /\ ~FeedContainsNewData(Page(link))
         \/ /\ DOMAIN feeds' = DOMAIN feeds \cup {Len(feeds) + 1}
            /\ \A k \in DOMAIN feeds : feeds'[k] = feeds[k] /\ k \in Nat /\ k < Len(feeds) + 1
            /\ Len(feeds) \in Nat
            /\ feeds'[Len(feeds) + 1] = Page(link)
<1>1. feeds \in Seq(SUBSET Copy)
  BY DEF ImportTypeOK
<1>2. DOMAIN feeds = 1..Len(feeds) /\ Len(feeds) \in Nat
  BY <1>1, LenProperties
<1>3. CASE ~FeedContainsNewData(Page(link))
  BY <1>3 DEF FollowOneLink
<1>4. CASE FeedContainsNewData(Page(link))
  <2>1. Page(link) \in SUBSET Copy
    BY PageIsOfCopies DEF ImportTypeOK
  <2>2. feeds' = Append(feeds, Page(link))
    BY <1>4 DEF FollowOneLink
  <2> DEFINE page == Page(link)
  <2> HIDE DEF page
  <2>3. /\ feeds' \in Seq(SUBSET Copy)
        /\ Len(feeds') = Len(feeds) + 1
        /\ \A k \in 1..Len(feeds) : feeds'[k] = feeds[k]
        /\ feeds'[Len(feeds) + 1] = page
    BY <1>1, <2>1, <2>2, AppendProperties DEF page
  <2>4. DOMAIN feeds' = 1..(Len(feeds) + 1)
    BY <2>3, LenProperties
  <2> QED
    BY <1>2, <2>3, <2>4 DEF page
<1> QED
  BY <1>3, <1>4

LEMMA SaneStep ==
  ASSUME Sane, [ImportNext]_importVars
  PROVE  Sane'
<1>1. ImportTypeOK'
  BY TypeStep DEF Sane
<1>2. NoTitleTwice'
  <2>1. ASSUME NEW e \in Entries, Publish(e)
        PROVE  NoTitleTwice'
    <3> SUFFICES ASSUME NEW m \in DOMAIN feed', NEW n \in DOMAIN feed',
                        feed'[m] = feed'[n], m < n
                 PROVE  FALSE
      <4>1. DOMAIN feed' = 1..Len(feed') /\ Len(feed') \in Nat
        BY <2>1, FeedAfterPublish DEF Sane
      <4> QED
        BY <4>1 DEF NoTitleTwice
    <3>1. m # 1 /\ n # 1
      BY <2>1, FeedAfterPublish DEF Sane
    <3>2. /\ m - 1 \in Nat /\ n - 1 \in Nat
          /\ feed[Was(e, m - 1)] = feed[Was(e, n - 1)]
          /\ Was(e, m - 1) \in DOMAIN feed /\ Was(e, n - 1) \in DOMAIN feed
      BY <2>1, <3>1, FeedAfterPublish DEF Sane
    <3>3. Was(e, m - 1) = Was(e, n - 1)
      BY <3>2 DEF Sane, NoTitleTwice
    <3>4. m - 1 < n - 1
      <4>1. DOMAIN feed' = 1..Len(feed') /\ Len(feed') \in Nat
        BY <2>1, FeedAfterPublish DEF Sane
      <4> QED
        BY <4>1
    <3> QED
      BY <3>2, <3>3, <3>4, WasInOrder DEF Sane
  <2>2. ASSUME NEW e \in Entries, Withdraw(e)
        PROVE  NoTitleTwice'
    <3>1. DOMAIN feed' = 1..Len(feed') /\ Len(feed') \in Nat
      BY <2>2, FeedAfterWithdraw DEF Sane
    <3> SUFFICES ASSUME NEW m \in DOMAIN feed', NEW n \in DOMAIN feed',
                        feed'[m] = feed'[n], m < n
                 PROVE  FALSE
      BY <3>1 DEF NoTitleTwice
    <3>2. /\ m \in Nat /\ n \in Nat
          /\ feed[Was(e, m)] = feed[Was(e, n)]
          /\ Was(e, m) \in DOMAIN feed /\ Was(e, n) \in DOMAIN feed
      BY <2>2, FeedAfterWithdraw DEF Sane
    <3>3. Was(e, m) = Was(e, n)
      BY <3>2 DEF Sane, NoTitleTwice
    <3> QED
      BY <3>2, <3>3, WasInOrder DEF Sane
  <2>3. CASE UNCHANGED feed
    BY <2>3 DEF Sane, NoTitleTwice
  <2> QED
    BY <2>1, <2>2, <2>3
    DEF ImportNext, StartImport, FollowOneLink, ImportOneFeed, EndImport, ImportFails, Recalculate,
        importVars, server
<1>3. NotFromTheFuture'
  <2>1. ASSUME NEW e \in Entries, Publish(e)
        PROVE  NotFromTheFuture'
    <3>1. \A x \in Entries : version'[x] \in Nat /\ version[x] <= version'[x]
      <4>1. version \in [Entries -> Nat]
        BY DEF Sane, ImportTypeOK, Version
      <4>2. version' = [version EXCEPT ![e] = @ + 1]
        BY <2>1 DEF Publish
      <4> QED
        BY <4>1, <4>2
    <3>2. feeds' = feeds /\ attempted' = attempted
      BY <2>1 DEF Publish, monitor
    <3>3. ASSUME NEW x \in Entries
          PROVE  attempted'[x] <= version'[x]
      BY <3>1, <3>2, TypesInHand DEF Sane, NotFromTheFuture
    <3>4. ASSUME NEW k \in DOMAIN feeds, NEW copy \in feeds[k]
          PROVE  copy.version <= version'[copy.entry]
      <4>1. /\ copy.entry \in Entries /\ copy.version \in Nat
            /\ version[copy.entry] \in Nat
            /\ copy.version <= version[copy.entry]
        BY TypesInHand DEF Sane, NotFromTheFuture
      <4> QED
        BY <3>1, <4>1
    <3> QED
      BY <3>2, <3>3, <3>4 DEF NotFromTheFuture
  <2>2. CASE FollowOneLink
    <3>1. version' = version /\ attempted' = attempted
      BY <2>2 DEF FollowOneLink, server, catalog
    <3>2. \A copy \in Page(link) : copy.version <= version[copy.entry]
      <4>1. \A i \in OnPage(link) : version[feed[i]] \in Nat
        BY TypesInHand DEF Sane, OnPage
      <4> QED
        BY <4>1 DEF Page
    <3> QED
      BY <2>2, <3>1, <3>2, FeedsAfterFetch DEF Sane, NotFromTheFuture
  <2>3. CASE ImportOneFeed
    <3>1. version' = version
      BY <2>3 DEF ImportOneFeed, server
    <3>2. ASSUME NEW e \in Entries
          PROVE  attempted'[e] <= version[e]
      BY <2>3, FeedsAfterImport, MarksOfImport DEF Sane, NotFromTheFuture
    <3> QED
      BY <2>3, <3>1, <3>2, FeedsAfterImport DEF Sane, NotFromTheFuture
  <2>4. CASE feeds' = <<>> /\ UNCHANGED <<version, attempted>>
    BY <2>4 DEF Sane, NotFromTheFuture
  <2>5. CASE UNCHANGED <<version, attempted, feeds>>
    BY <2>5 DEF Sane, NotFromTheFuture
  <2> QED
    BY <2>1, <2>2, <2>3, <2>4, <2>5
    DEF ImportNext, Withdraw, StartImport, EndImport, ImportFails, Recalculate,
        importVars, server, monitor, catalog
<1> QED
  BY <1>1, <1>2, <1>3 DEF Sane

LEMMA PagesAreConsecutive ==
  ASSUME ImportTypeOK
  PROVE  /\ (link - 1) * PageSize \in Nat /\ link * PageSize \in Nat
         /\ \A next : next = link + 1 => (next - 1) * PageSize = link * PageSize
         /\ (link - 1) * PageSize < link * PageSize
<1> DEFINE before == link - 1
<1>0. link \in Nat \ {0} /\ PageSize \in Nat \ {0}
  BY ImportAssumption DEF ImportTypeOK
<1>1. before \in Nat /\ PageSize \in Nat /\ 0 < PageSize /\ link = before + 1
  BY <1>0
<1>2. \A next : next = link + 1 => next - 1 = link
  BY <1>0
<1> HIDE DEF before
<1>3. \A a, b \in Nat : a * b \in Nat /\ (a + 1) * b = a * b + b
  BY SMT
<1>4. before * PageSize \in Nat /\ link * PageSize = before * PageSize + PageSize
  BY <1>1, <1>3
<1>5. link * PageSize \in Nat /\ before * PageSize < link * PageSize
  BY <1>1, <1>4
<1> QED
  BY <1>2, <1>4, <1>5 DEF before

(* No step that leaves ~raced behind disturbs the order.                    *)
LEMMA OrderAfterPublish ==
  ASSUME Sane, Orderly, NEW e \in Entries, Publish(e), ~raced'
  PROVE  Orderly'
<1>1. /\ attempted' = attempted /\ feeds' = feeds /\ status' = status
      /\ progress' = progress /\ link' = link
      /\ newer' = newer \cup {e} /\ e \notin InHand
  BY DEF Publish, monitor
<1>2. \A x \in Entries \ {e} : version'[x] = version[x]
  BY DEF Publish, Sane, ImportTypeOK
<1>3. Missed(e)'
  <2>1. version'[e] = version[e] + 1
    BY DEF Publish, Sane, ImportTypeOK
  <2>2. attempted[e] <= version[e] /\ version[e] \in Nat /\ attempted[e] \in Nat
    BY TypesInHand DEF Sane, NotFromTheFuture
  <2> QED
    BY <1>1, <2>1, <2>2 DEF Missed
<1>4. \A x \in Entries \ {e} : Missed(x)' <=> Missed(x)
  BY <1>1, <1>2 DEF Missed
<1>5. MissedIsNew'
  BY <1>1, <1>4 DEF Orderly, MissedIsNew, IdentifierNeedsImport
<1>6. /\ DOMAIN feed' = 1..Len(feed') /\ Len(feed') \in Nat
      /\ feed'[1] = e
      /\ \A i \in DOMAIN feed' \ {1} : /\ i - 1 \in Nat \ {0}
                                       /\ Was(e, i - 1) \in DOMAIN feed
                                       /\ feed'[i] = feed[Was(e, i - 1)]
                                       /\ feed'[i] # e /\ feed'[i] \in Entries
  BY FeedAfterPublish, TypesInHand DEF Sane
<1>7. ASSUME NEW m \in DOMAIN feed' \ {1}, NEW n \in DOMAIN feed' \ {1}, m < n
      PROVE  Was(e, m - 1) < Was(e, n - 1) /\ Was(e, n - 1) \in Nat /\ Was(e, n - 1) <= n
  <2>1. m - 1 < n - 1 /\ m - 1 \in Nat /\ n - 1 \in Nat /\ (n - 1) + 1 = n
        /\ n - 1 < n /\ n \in Nat
    BY <1>6, <1>7
  <2>2. Was(e, m - 1) < Was(e, n - 1)
    BY <2>1, WasInOrder DEF Sane
  <2>3. Was(e, n - 1) \in Nat /\ Was(e, n - 1) <= (n - 1) + 1
    BY <2>1, WasInOrder DEF Sane
  <2> QED
    BY <2>1, <2>2, <2>3
<1>8. MissedFirst'
  <2> SUFFICES ASSUME NEW m \in DOMAIN feed', NEW n \in DOMAIN feed',
                      m < n, Missed(feed[n])'
               PROVE  Missed(feed[m])'
    BY DEF MissedFirst
  <2>1. CASE m = 1
    BY <1>3, <1>6, <2>1
  <2>2. CASE m # 1
    <3>1. n # 1
      BY <1>6, <2>2
    <3>2. Missed(feed[Was(e, n - 1)])
      BY <1>4, <1>6, <3>1
    <3>3. Missed(feed[Was(e, m - 1)])
      BY <1>6, <1>7, <2>2, <3>1, <3>2 DEF Orderly, MissedFirst
    <3> QED
      BY <1>4, <1>6, <2>2, <3>3
  <2> QED
    BY <2>1, <2>2
<1>9. \A k \in DOMAIN feeds : \A copy \in feeds[k] :
        copy.entry \in Entries /\ copy.entry # e
  BY <1>1, TypesInHand DEF Sane, InHand
<1>10. CopiesAreCurrent'
  BY <1>1, <1>2, <1>9 DEF Orderly, CopiesAreCurrent
<1>11. InHandFromTheEnd'
  <2> SUFFICES ASSUME NEW k \in DOMAIN feeds,
                      NEW m \in DOMAIN feed', NEW n \in DOMAIN feed',
                      m < n, feed'[m] \in TitlesOf(feeds[k]), Missed(feed[n])'
               PROVE  \/ \E j \in DOMAIN feeds : j >= k /\ feed'[n] \in TitlesOf(feeds[j])
                      \/ progress = "fetching" /\ n > (link - 1) * PageSize
    BY <1>1 DEF InHandFromTheEnd
  <2>1. m # 1
    BY <1>6, <1>9 DEF TitlesOf
  <2>2. n # 1
    BY <1>6, <2>1
  <2>3. Missed(feed[Was(e, n - 1)])
    BY <1>4, <1>6, <2>2
  <2>4. \/ \E j \in DOMAIN feeds : j >= k /\ feed[Was(e, n - 1)] \in TitlesOf(feeds[j])
        \/ progress = "fetching" /\ Was(e, n - 1) > (link - 1) * PageSize
    BY <1>6, <1>7, <2>1, <2>2, <2>3 DEF Orderly, InHandFromTheEnd
  <2>5. (link - 1) * PageSize \in Int /\ n \in Nat
    BY <1>6, PagesAreConsecutive DEF Sane
  <2> QED
    BY <1>6, <1>7, <2>1, <2>2, <2>4, <2>5
<1> QED
  BY <1>5, <1>8, <1>10, <1>11 DEF Orderly

LEMMA OrderAfterWithdraw ==
  ASSUME Sane, Orderly, NEW e \in Entries, Withdraw(e), ~raced'
  PROVE  Orderly'
<1>1. /\ attempted' = attempted /\ feeds' = feeds /\ status' = status
      /\ version' = version /\ newer' = newer /\ progress' = progress /\ link' = link
  BY DEF Withdraw, monitor, catalog
<1>2. \A x : Missed(x)' <=> Missed(x)
  BY <1>1 DEF Missed
<1>3. MissedIsNew' /\ CopiesAreCurrent'
  BY <1>1, <1>2 DEF Orderly, MissedIsNew, IdentifierNeedsImport, CopiesAreCurrent
<1>4. \A i \in DOMAIN feed' : /\ i \in Nat
                              /\ Was(e, i) \in DOMAIN feed
                              /\ feed'[i] = feed[Was(e, i)]
  BY FeedAfterWithdraw DEF Sane
<1>5. ASSUME NEW m \in DOMAIN feed', NEW n \in DOMAIN feed', m < n
      PROVE  Was(e, m) < Was(e, n)
  BY <1>4, <1>5, WasInOrder DEF Sane
<1>6. MissedFirst'
  BY <1>2, <1>4, <1>5 DEF Orderly, MissedFirst
<1>7. InHandFromTheEnd'
  <2> SUFFICES ASSUME NEW k \in DOMAIN feeds,
                      NEW m \in DOMAIN feed', NEW n \in DOMAIN feed',
                      m < n, feed'[m] \in TitlesOf(feeds[k]), Missed(feed[n])'
               PROVE  \/ \E j \in DOMAIN feeds : j >= k /\ feed'[n] \in TitlesOf(feeds[j])
                      \/ progress = "fetching" /\ n > (link - 1) * PageSize
    BY <1>1 DEF InHandFromTheEnd
  <2>1. \/ \E j \in DOMAIN feeds : j >= k /\ feed[Was(e, n)] \in TitlesOf(feeds[j])
        \/ progress = "fetching" /\ Was(e, n) > (link - 1) * PageSize
    BY <1>2, <1>4, <1>5 DEF Orderly, InHandFromTheEnd
  <2>2. CASE progress = "fetching" /\ Was(e, n) > (link - 1) * PageSize
    <3> DEFINE bound == (link - 1) * PageSize
    <3>1. bound \in Int /\ n \in Nat
      BY <1>4, PagesAreConsecutive DEF Sane
    <3>2. Position(e) \in DOMAIN feed /\ feed[Position(e)] = e
      BY DEF Withdraw, Published, Position
    <3>3. Position(e) \notin 1..bound
      BY <2>2, <3>2 DEF Withdraw
    <3>4. Position(e) \in Nat \ {0}
      BY <3>2, TypesInHand DEF Sane
    <3> HIDE DEF bound
    <3>5. Position(e) > bound
      BY <3>1, <3>3, <3>4
    <3>6. Was(e, n) > bound
      BY <2>2 DEF bound
    <3>7. n > bound
      BY <3>1, <3>4, <3>5, <3>6 DEF Was
    <3> QED
      BY <2>2, <3>7 DEF bound
  <2> QED
    BY <1>4, <2>1, <2>2
<1> QED
  BY <1>3, <1>6, <1>7 DEF Orderly

LEMMA OrderAfterImport ==
  ASSUME Sane, Orderly, ImportOneFeed
  PROVE  Orderly'
<1>1. feed' = feed /\ version' = version /\ progress' = progress /\ link' = link /\ progress = "importing"
  BY DEF ImportOneFeed, server
<1> DEFINE now == TitlesOf(feeds[NextFeed])
<1>2. \A x \in Entries : \/ /\ x \notin now
                            /\ Missed(x)' <=> Missed(x)
                            /\ IdentifierNeedsImport(x) => IdentifierNeedsImport(x)'
                         \/ x \in now /\ ~Missed(x)'
  <2> SUFFICES ASSUME NEW x \in Entries
               PROVE  \/ /\ x \notin now
                         /\ Missed(x)' <=> Missed(x)
                         /\ IdentifierNeedsImport(x) => IdentifierNeedsImport(x)'
                      \/ x \in now /\ ~Missed(x)'
    OBVIOUS
  <2>1. CASE \E copy \in feeds[NextFeed] : copy.entry = x /\ attempted'[x] = copy.version
    BY <1>1, <2>1, FeedsAfterImport DEF Sane, Orderly, CopiesAreCurrent, Missed, TitlesOf
  <2> QED
    BY <1>1, <2>1, MarksOfImport DEF Missed
<1>3. MissedIsNew'
  BY <1>2 DEF Orderly, MissedIsNew
<1>4. \A i \in DOMAIN feed : feed[i] \in Entries
  BY TypesInHand DEF Sane
<1>5. MissedFirst'
  <2> SUFFICES ASSUME NEW m \in DOMAIN feed, NEW n \in DOMAIN feed,
                      m < n, Missed(feed[n])'
               PROVE  Missed(feed[m])'
    BY <1>1 DEF MissedFirst
  <2>1. feed[n] \notin now /\ Missed(feed[n])
    BY <1>1, <1>2, <1>4
  <2>2. Missed(feed[m])
    BY <2>1 DEF Orderly, MissedFirst
  <2>3. feed[m] \notin now
    <3> SUFFICES ASSUME feed[m] \in now
                 PROVE  FALSE
      OBVIOUS
    <3>1. \E j \in DOMAIN feeds : j >= NextFeed /\ feed[n] \in TitlesOf(feeds[j])
      BY <1>1, <2>1, FeedsAfterImport DEF Sane, Orderly, InHandFromTheEnd
    <3>2. \A j \in DOMAIN feeds : j >= NextFeed => j = NextFeed
      BY FeedsAfterImport DEF Sane
    <3> QED
      BY <2>1, <3>1, <3>2
  <2> QED
    BY <1>1, <1>2, <1>4, <2>2, <2>3
<1>6. CopiesAreCurrent'
  BY <1>1, FeedsAfterImport DEF Sane, Orderly, CopiesAreCurrent
<1>7. InHandFromTheEnd'
  <2> SUFFICES ASSUME NEW k \in DOMAIN feeds',
                      NEW m \in DOMAIN feed, NEW n \in DOMAIN feed,
                      m < n, feed[m] \in TitlesOf(feeds'[k]), Missed(feed[n])'
               PROVE  \E j \in DOMAIN feeds' : j >= k /\ feed[n] \in TitlesOf(feeds'[j])
    BY <1>1 DEF InHandFromTheEnd
  <2>1. feed[n] \notin now /\ Missed(feed[n])
    BY <1>1, <1>2, <1>4
  <2>2. k \in DOMAIN feeds /\ feeds'[k] = feeds[k]
    BY FeedsAfterImport DEF Sane
  <2>3. PICK j \in DOMAIN feeds : j >= k /\ feed[n] \in TitlesOf(feeds[j])
    BY <1>1, <2>1, <2>2 DEF Orderly, InHandFromTheEnd
  <2>4. j \in DOMAIN feeds' /\ feeds'[j] = feeds[j]
    BY <2>1, <2>3, FeedsAfterImport DEF Sane
  <2> QED
    BY <2>3, <2>4
<1> QED
  BY <1>3, <1>5, <1>6, <1>7 DEF Orderly

LEMMA OrderAfterFetch ==
  ASSUME Sane, Orderly, FollowOneLink
  PROVE  Orderly'
<1>1. /\ feed' = feed /\ version' = version /\ attempted' = attempted
      /\ status' = status /\ newer' = newer /\ progress = "fetching"
  BY DEF FollowOneLink, server, catalog
<1>2. \A x : Missed(x)' <=> Missed(x)
  BY <1>1 DEF Missed
<1>3. MissedIsNew' /\ MissedFirst'
  BY <1>1, <1>2 DEF Orderly, MissedIsNew, IdentifierNeedsImport, MissedFirst
<1>4. CopiesAreCurrent'
  <2>1. \A copy \in Page(link) : copy.version = version[copy.entry]
    BY DEF Page
  <2> QED
    BY <1>1, <2>1, FeedsAfterFetch DEF Sane, Orderly, CopiesAreCurrent
<1> DEFINE before == (link - 1) * PageSize
           upTo   == link * PageSize
<1>5. before \in Nat /\ upTo \in Nat /\ before < upTo
  BY PagesAreConsecutive DEF Sane
<1>6. \A i \in DOMAIN feed : i \in OnPage(link) <=> before < i /\ i <= upTo
  BY DEF OnPage
<1>7. \A x : x \in TitlesOf(Page(link)) <=> \E i \in OnPage(link) : x = feed[i]
  <2> DEFINE copyAt(i) == [entry |-> feed[i], version |-> version[feed[i]]]
  <2>1. \A i : copyAt(i).entry = feed[i]
    OBVIOUS
  <2>2. Page(link) = {copyAt(i) : i \in OnPage(link)}
    BY DEF Page
  <2> HIDE DEF copyAt
  <2> QED
    BY <2>1, <2>2 DEF TitlesOf
<1>8. \/ feeds' = feeds
      \/ link' = link + 1 /\ progress' = "fetching"
      \/ Len(feed) <= upTo
  BY <1>5, TypesInHand DEF FollowOneLink, HasNext, Sane
<1>9. progress' = "fetching" => (link' - 1) * PageSize = upTo
  <2>1. progress' = "fetching" => link' = link + 1
    BY <1>1 DEF FollowOneLink
  <2>2. \A next : next = link + 1 => (next - 1) * PageSize = upTo
    BY PagesAreConsecutive DEF Sane
  <2> HIDE DEF upTo
  <2> QED
    BY <2>1, <2>2
<1> HIDE DEF before, upTo
(* What was missed behind the pages before this one is on it or behind it.  *)
<1>10. ASSUME NEW n \in DOMAIN feed, n > before, Missed(feed[n])
       PROVE  \/ feeds' # feeds /\ feed[n] \in TitlesOf(Page(link))
              \/ progress' = "fetching" /\ n > upTo
  <2>1. n \in Nat \ {0} /\ n <= Len(feed) /\ Len(feed) \in Nat /\ feed[n] \in Entries
        /\ DOMAIN feed = 1..Len(feed)
    BY TypesInHand DEF Sane
  <2>2. CASE FeedContainsNewData(Page(link))
    <3>1. feeds' # feeds
      <4>1. feeds' = Append(feeds, Page(link))
        BY <2>2 DEF FollowOneLink
      <4>2. feeds \in Seq(SUBSET Copy) /\ Page(link) \in SUBSET Copy
        BY PageIsOfCopies DEF Sane, ImportTypeOK
      <4>3. Len(feeds') = Len(feeds) + 1 /\ Len(feeds) \in Nat
        BY <4>1, <4>2, AppendProperties, LenProperties
      <4> QED
        BY <4>3
    <3>2. CASE n <= upTo
      BY <1>6, <1>7, <1>10, <3>1, <3>2
    <3>3. CASE n > upTo
      <4>1. progress' = "fetching"
        BY <1>5, <1>8, <2>1, <3>1, <3>3
      <4> QED
        BY <3>3, <4>1
    <3> QED
      BY <1>5, <2>1, <3>2, <3>3
  <2>3. CASE ~FeedContainsNewData(Page(link))
    <3> DEFINE i == IF n <= upTo THEN n ELSE upTo
    <3>1. i \in DOMAIN feed /\ i \in Nat /\ before < i /\ i <= upTo /\ i <= n
      BY <1>5, <1>10, <2>1
    <3>2. Missed(feed[i])
      <4>1. i = n \/ i < n
        BY <2>1, <3>1
      <4> QED
        BY <1>10, <3>1, <4>1 DEF Orderly, MissedFirst
    <3>3. IdentifierNeedsImport(feed[i])
      BY <3>1, <3>2, TypesInHand DEF Sane, Orderly, MissedIsNew
    <3>4. [entry |-> feed[i], version |-> version[feed[i]]] \in Page(link)
      BY <1>6, <3>1 DEF Page
    <3> QED
      BY <2>3, <3>3, <3>4 DEF FeedContainsNewData
  <2> QED
    BY <2>2, <2>3
<1>11. InHandFromTheEnd'
  <2> SUFFICES ASSUME NEW k \in DOMAIN feeds',
                      NEW m \in DOMAIN feed, NEW n \in DOMAIN feed,
                      m < n, feed[m] \in TitlesOf(feeds'[k]), Missed(feed[n])
               PROVE  \/ \E j \in DOMAIN feeds' : j >= k /\ feed[n] \in TitlesOf(feeds'[j])
                      \/ progress' = "fetching" /\ n > upTo
    BY <1>1, <1>2, <1>9 DEF InHandFromTheEnd
  <2>1. CASE k \in DOMAIN feeds /\ feeds'[k] = feeds[k]
    <3>1. \/ \E j \in DOMAIN feeds : j >= k /\ feed[n] \in TitlesOf(feeds[j])
          \/ n > before
      BY <2>1 DEF Orderly, InHandFromTheEnd, before
    <3>2. CASE \E j \in DOMAIN feeds : j >= k /\ feed[n] \in TitlesOf(feeds[j])
      BY <3>2, FeedsAfterFetch DEF Sane
    <3>3. CASE n > before
      BY <1>10, <2>1, <3>3, FeedsAfterFetch DEF Sane
    <3> QED
      BY <3>1, <3>2, <3>3
  <2>2. CASE k = Len(feeds) + 1 /\ feeds'[k] = Page(link)
    <3>1. PICK i \in OnPage(link) : feed[m] = feed[i]
      BY <1>7, <2>2
    <3>2. m = i
      BY <3>1 DEF Sane, NoTitleTwice, OnPage
    <3>3. n > before
      BY <1>5, <1>6, <3>1, <3>2, TypesInHand DEF Sane
    <3>4. k \in Nat
      <4>1. feeds \in Seq(SUBSET Copy)
        BY DEF Sane, ImportTypeOK
      <4> QED
        BY <2>2, <4>1, LenProperties
    <3> QED
      BY <1>10, <2>2, <3>3, <3>4
  <2> QED
    BY <2>1, <2>2, FeedsAfterFetch DEF Sane
<1> QED
  BY <1>3, <1>4, <1>11 DEF Orderly

LEMMA ImportInvStep ==
  ASSUME ImportInv, [ImportNext]_importVars
  PROVE  ImportInv'
<1>1. Sane'
  BY SaneStep DEF ImportInv
<1>2. ASSUME ~raced'
      PROVE  Orderly'
  <2>1. ~raced /\ Sane /\ Orderly
    <3>1. raced => raced'
      BY DEF ImportNext, Publish, Withdraw, StartImport, FollowOneLink, ImportOneFeed, EndImport, ImportFails,
             Recalculate, importVars
    <3> QED
      BY <1>2, <3>1 DEF ImportInv
  <2>2. CASE /\ UNCHANGED <<feed, version, status, newer, attempted>>
             /\ \/ feeds' = <<>>
                \/ /\ feeds' = feeds /\ link' = link
                   /\ progress = "fetching" => progress' = "fetching"
    <3>1. MissedIsNew' /\ MissedFirst'
      BY <2>1, <2>2 DEF Orderly, MissedIsNew, MissedFirst, Missed, IdentifierNeedsImport
    <3>2. CASE feeds' = <<>>
      BY <3>1, <3>2 DEF Orderly, CopiesAreCurrent, InHandFromTheEnd
    <3>3. CASE feeds' = feeds /\ link' = link /\ (progress = "fetching" => progress' = "fetching")
      <4>1. CopiesAreCurrent'
        BY <2>1, <2>2, <3>3 DEF Orderly, CopiesAreCurrent
      <4>2. InHandFromTheEnd'
        BY <2>1, <2>2, <3>3 DEF Orderly, InHandFromTheEnd, Missed
      <4> QED
        BY <3>1, <4>1, <4>2 DEF Orderly
    <3> QED
      BY <2>2, <3>2, <3>3
  <2>3. CASE StartImport \/ EndImport \/ ImportFails
    BY <2>2, <2>3 DEF StartImport, EndImport, ImportFails, server, catalog
  <2>4. CASE UNCHANGED importVars
    BY <2>2, <2>4 DEF importVars, server, monitor, catalog
  <2>5. CASE \E e \in Entries : Recalculate(e)
    BY <2>2, <2>5 DEF Recalculate, server, monitor
  <2> QED
    BY <1>2, <2>1, <2>3, <2>4, <2>5, OrderAfterPublish, OrderAfterWithdraw, OrderAfterImport, OrderAfterFetch
    DEF ImportNext
<1> QED
  BY <1>1, <1>2 DEF ImportInv

(* Stopping at the first page without new data hides nothing, whatever the  *)
(* size of the pages and wherever a run was cut short.                      *)
THEOREM NothingStaysHidden == ImportSpec => []NothingIsHidden
<1>1. ImportInit => ImportInv
  <2> SUFFICES ASSUME ImportInit
               PROVE  Sane /\ Orderly
    BY DEF ImportInv
  <2>1. feed = <<>> /\ feeds = <<>>
    BY DEF ImportInit
  <2>2. ImportTypeOK
    BY InitTypes
  <2>3. NoTitleTwice /\ MissedFirst /\ CopiesAreCurrent /\ InHandFromTheEnd
    BY <2>1 DEF NoTitleTwice, MissedFirst, CopiesAreCurrent, InHandFromTheEnd
  <2>4. NotFromTheFuture /\ MissedIsNew
    BY <2>1 DEF ImportInit, NotFromTheFuture, MissedIsNew, IdentifierNeedsImport
  <2> QED
    BY <2>2, <2>3, <2>4 DEF Sane, Orderly
<1>2. ImportInv => NothingIsHidden
  <2> SUFFICES ASSUME Sane, Orderly,
                      NEW n \in DOMAIN feed, Missed(feed[n]),
                      NEW l \in 1..n, NEW i \in OnPage(l), i <= n
               PROVE  IdentifierNeedsImport(feed[i])
    BY DEF ImportInv, NothingIsHidden, Missed
  <2>1. i \in DOMAIN feed /\ feed[i] \in Entries /\ i \in Nat /\ n \in Nat
    BY TypesInHand DEF Sane, OnPage
  <2>2. Missed(feed[i])
    <3>1. i = n \/ i < n
      BY <2>1
    <3> QED
      BY <2>1, <3>1 DEF Orderly, MissedFirst
  <2> QED
    BY <2>1, <2>2 DEF Orderly, MissedIsNew
<1> QED
  BY <1>1, <1>2, ImportInvStep, PTL DEF ImportSpec
=============================================================================
