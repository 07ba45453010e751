------------------------- MODULE SearchIndex_proofs -------------------------
(***************************************************************************)
(* Theorems about SearchIndex, FacetLinks and CustomLists, for every set   *)
(* of works, of versions and of processes, every configuration a library   *)
(* may have, and every list of whatever editions.                          *)
(***************************************************************************)
EXTENDS SearchIndex, FacetLinks, CustomLists,
        FiniteSetTheorems, WellFoundedInduction, TLAPS

(***************************************************************************)
(* The documents and the records of them.                                  *)
(***************************************************************************)
Documents == {"absent", "current", "stale"}
HandStates == {"none", "current", "stale", "failed"}
Steps ==
  {"down", "finding index", "deleting", "creating", "finding alias", "putting alias", "transferring",
   "clearing", "running", "uploading", "recording", "searching"}
JobNames == {"none", "server", "provider", "rebuild", "transfer"}
AliasNames == {"none", "alias", "index"}
Processes ==
  [step : Steps, version : Versions \cup {"none"}, job : JobNames, works_alias : AliasNames,
   hand : [Works -> HandStates], tried : SUBSET Works, cleared : BOOLEAN, again : BOOLEAN]

SearchTypeOK ==
  /\ record \in [Works -> {"none", "registered", "success", "failure"}]
  /\ keeper \in [Works -> Versions \cup {"none"}]
  /\ doc \in [Versions -> [Works -> Documents]]
  /\ client \in [Clients -> Processes]

\* A process that runs knows the version of its code.
RunningHasVersion == \A c \in Clients : ~At(c, "down") => Index(c) \in Versions

\* Before a document is sent, nobody can have refused it.
NothingFailedYet ==
  \A c \in Clients : At(c, "uploading") => \A w \in Works : client[c].hand[w] # "failed"

\* What a process is about to record as indexed is indexed, unless it knows better.
UploadsArrived ==
  \A c \in Clients, w \in Works :
    At(c, "recording") /\ client[c].hand[w] = "current" => doc[Index(c)][w] = "current"

SearchInv ==
  /\ SearchTypeOK /\ RunningHasVersion /\ NothingFailedYet /\ UploadsArrived
  /\ \A w \in Works : record[w] = "success" => keeper[w] \in Versions
  /\ RecordsAreHonest

\* A process in a state it can be in, with nothing to record.
Fit(p) ==
  /\ p \in Processes
  /\ p.step # "down" => p.version \in Versions
  /\ p.step = "uploading" => \A w \in Works : p.hand[w] # "failed"

LEMMA IdleIsFit == Fit(Idle)
BY DEF Fit, Idle, Processes, HandStates, Steps, JobNames, AliasNames

LEMMA ProcessesFit ==
  ASSUME SearchInv, NEW c \in Clients
  PROVE  Fit(client[c])
BY DEF SearchInv, SearchTypeOK, RunningHasVersion, NothingFailedYet, Fit, At, Index

\* Whatever a process does that leaves the documents as they are and gives it nothing
\* to record keeps the invariant, if it records no success.
LEMMA MovesKeepSearchInv ==
  ASSUME SearchInv, NEW c \in Clients, NEW p, Fit(p), p.step # "recording", Become(c, p),
         doc' = doc, keeper' = keeper, drifted' = drifted,
         record' \in [Works -> {"none", "registered", "success", "failure"}],
         \A w \in Works : record'[w] = "success" => record[w] = "success"
  PROVE  SearchInv'
<1>1. client' \in [Clients -> Processes] /\ client'[c] = p /\ \A d \in Clients \ {c} : client'[d] = client[d]
  BY DEF SearchInv, SearchTypeOK, Become, Fit
<1>2. SearchTypeOK'
  BY <1>1 DEF SearchInv, SearchTypeOK
<1>3. RunningHasVersion' /\ NothingFailedYet'
  BY <1>1 DEF SearchInv, RunningHasVersion, NothingFailedYet, Fit, At, Index
<1>4. UploadsArrived'
  BY <1>1 DEF SearchInv, UploadsArrived, At, Index
<1>5. RecordsAreHonest' /\ \A w \in Works : record'[w] = "success" => keeper'[w] \in Versions
  BY DEF SearchInv, RecordsAreHonest
<1> QED BY <1>2, <1>3, <1>4, <1>5 DEF SearchInv

\* ... in particular what leaves the database alone.
LEMMA QuietMovesKeepSearchInv ==
  ASSUME SearchInv, NEW c \in Clients, NEW p, Fit(p), p.step # "recording", Become(c, p),
         doc' = doc, keeper' = keeper, drifted' = drifted, record' = record
  PROVE  SearchInv'
BY MovesKeepSearchInv DEF SearchInv, SearchTypeOK

\* What spoiling the documents in hand does.
LEMMA SpoiledHands ==
  ASSUME SearchInv, NEW cs, NEW ws, NEW d \in Clients
  PROVE  /\ SpoilInHand(cs, ws)[d] \in Processes
         /\ SpoilInHand(cs, ws)[d].step = client[d].step
         /\ SpoilInHand(cs, ws)[d].version = client[d].version
         /\ \A w \in Works : SpoilInHand(cs, ws)[d].hand[w] =
              IF d \in cs /\ w \in ws THEN Spoil(client[d].hand[w]) ELSE client[d].hand[w]
<1> DEFINE p == client[d]
           h == [w \in Works |-> IF d \in cs /\ w \in ws THEN Spoil(p.hand[w]) ELSE p.hand[w]]
<1>1. p \in Processes
  BY DEF SearchInv, SearchTypeOK
<1>2. SpoilInHand(cs, ws)[d] = [p EXCEPT !.hand = h]
  BY <1>1 DEF SpoilInHand, Processes
<1>3. h \in [Works -> HandStates]
  BY <1>1 DEF Processes, Steps, HandStates, Spoil
<1>4. [p EXCEPT !.hand = h] \in Processes /\ [p EXCEPT !.hand = h].hand = h
      /\ [p EXCEPT !.hand = h].step = p.step /\ [p EXCEPT !.hand = h].version = p.version
  BY <1>1, <1>3 DEF Processes, Steps
<1> QED BY <1>2, <1>4

LEMMA SearchesAreMoves ==
  ASSUME SearchInv, NEW c \in Clients, ~At(c, "down"), NEW name \in {"alias", "index"}, Search(c, name)
  PROVE  \E p : Fit(p) /\ p.step # "recording" /\ Become(c, p)
<1>1. Fit(client[c]) /\ client[c].version \in Versions
  BY ProcessesFit DEF Fit, At
<1>2. CASE client[c].job = "transfer" /\ client[c].works_alias # "none"
  BY <1>2, IdleIsFit DEF Search, Idle
<1>3. CASE client[c].job = "transfer" /\ client[c].works_alias = "none"
  <2>1. Fit([client[c] EXCEPT !.works_alias = name, !.step = "transferring"])
    BY <1>1 DEF Fit, Processes, Steps, JobNames, AliasNames
  <2> QED BY <1>1, <1>3, <2>1 DEF Search, Fit, Processes
<1>4. CASE client[c].job # "transfer"
  <2> DEFINE q(where) == [client[c] EXCEPT !.works_alias = name, !.step = where]
  <2>1. PICK where \in {"deleting", "running", "searching"} : Become(c, q(where))
    BY <1>4 DEF Search
  <2>2. Fit(q(where)) /\ q(where).step = where
    BY <1>1 DEF Fit, Processes, Steps, JobNames, AliasNames
  <2> QED BY <2>1, <2>2
<1> QED BY <1>2, <1>3, <1>4

\* A process that only takes another step.
LEMMA GoesOn ==
  ASSUME SearchInv, NEW c \in Clients, ~At(c, "down"), NEW where \in Steps,
         where \notin {"recording", "uploading"}, NEW cl \in BOOLEAN
  PROVE  /\ Fit([client[c] EXCEPT !.step = where]) /\ [client[c] EXCEPT !.step = where].step # "recording"
         /\ Fit([client[c] EXCEPT !.cleared = cl, !.step = where])
         /\ [client[c] EXCEPT !.cleared = cl, !.step = where].step # "recording"
<1> DEFINE p == client[c]
<1>1. p \in Processes /\ p.version \in Versions
  BY ProcessesFit DEF Fit, At
<1> HIDE DEF p
<1>2. [p EXCEPT !.step = where] \in Processes /\ [p EXCEPT !.cleared = cl, !.step = where] \in Processes
  BY <1>1 DEF Processes
<1>3. /\ [p EXCEPT !.step = where].step = where /\ [p EXCEPT !.step = where].version = p.version
      /\ [p EXCEPT !.cleared = cl, !.step = where].step = where
      /\ [p EXCEPT !.cleared = cl, !.step = where].version = p.version
  BY <1>1 DEF Processes
<1> QED BY <1>1, <1>2, <1>3 DEF Fit, p

LEMMA StartKeepsSearchInv ==
  ASSUME SearchInv, NEW c \in Clients, Start(c)
  PROVE  SearchInv'
<1>1. PICK v \in Versions, j \in Jobs(c) :
        Become(c, [Idle EXCEPT !.step = "finding index", !.version = v, !.job = j])
  BY DEF Start
<1>2. j \in JobNames
  BY DEF Jobs, JobNames
<1>3. Fit([Idle EXCEPT !.step = "finding index", !.version = v, !.job = j])
      /\ [Idle EXCEPT !.step = "finding index", !.version = v, !.job = j].step # "recording"
  BY <1>2 DEF Fit, Idle, Processes, HandStates, Steps, JobNames, AliasNames
<1> QED BY <1>1, <1>3, QuietMovesKeepSearchInv DEF Start, database, server

LEMMA StopsKeepSearchInv ==
  ASSUME SearchInv, NEW c \in Clients, Stop(c) \/ Perish(c)
  PROVE  SearchInv'
<1>1. Become(c, Idle) /\ Idle.step # "recording"
  BY DEF Stop, Perish, Idle
<1> QED BY <1>1, IdleIsFit, QuietMovesKeepSearchInv DEF Stop, Perish, database, server

LEMMA LooksKeepSearchInv ==
  ASSUME SearchInv, NEW c \in Clients, FindIndex(c) \/ CreateIndex(c) \/ ClearRecords(c)
  PROVE  SearchInv'
<1>1. UNCHANGED <<record, keeper, doc, drifted>> /\ ~At(c, "down")
  BY DEF FindIndex, CreateIndex, ClearRecords, At, database, server
<1>2. CASE Become(c, Idle)
  BY <1>1, <1>2, IdleIsFit, QuietMovesKeepSearchInv DEF Idle
<1>3. CASE \E where \in {"finding alias", "deleting", "clearing"} : Goto(c, where)
  <2>1. PICK where \in {"finding alias", "deleting", "clearing"} : Goto(c, where)
    BY <1>3
  <2>2. Fit([client[c] EXCEPT !.step = where]) /\ [client[c] EXCEPT !.step = where].step # "recording"
    BY <1>1, GoesOn DEF Steps
  <2> QED BY <1>1, <2>1, <2>2, QuietMovesKeepSearchInv DEF Goto
<1>4. CASE Become(c, [client[c] EXCEPT !.cleared = TRUE, !.step = "running"])
  <2>1. Fit([client[c] EXCEPT !.cleared = TRUE, !.step = "running"])
        /\ [client[c] EXCEPT !.cleared = TRUE, !.step = "running"].step # "recording"
    BY <1>1, GoesOn DEF Steps
  <2> QED BY <1>1, <1>4, <2>1, QuietMovesKeepSearchInv
<1> QED BY <1>2, <1>3, <1>4 DEF FindIndex, CreateIndex, ClearRecords

LEMMA AliasesKeepSearchInv ==
  ASSUME SearchInv, NEW c \in Clients, FindAlias(c) \/ PutAlias(c) \/ RefuseAlias(c)
  PROVE  SearchInv'
<1>1. UNCHANGED <<record, keeper, doc, drifted>> /\ ~At(c, "down")
  BY DEF FindAlias, PutAlias, RefuseAlias, At, database, server
<1>2. CASE Goto(c, "putting alias")
  <2>1. Fit([client[c] EXCEPT !.step = "putting alias"])
        /\ [client[c] EXCEPT !.step = "putting alias"].step # "recording"
    BY <1>1, GoesOn DEF Steps
  <2> QED BY <1>1, <1>2, <2>1, QuietMovesKeepSearchInv DEF Goto
<1>3. CASE Become(c, Idle)
  BY <1>1, <1>3, IdleIsFit, QuietMovesKeepSearchInv DEF Idle
<1>4. CASE Search(c, "alias") \/ Search(c, "index")
  <2>1. PICK p : Fit(p) /\ p.step # "recording" /\ Become(c, p)
    BY <1>1, <1>4, SearchesAreMoves DEF AliasNames
  <2> QED BY <1>1, <2>1, QuietMovesKeepSearchInv
<1> QED BY <1>2, <1>3, <1>4 DEF FindAlias, PutAlias, RefuseAlias

LEMMA TransferKeepsSearchInv ==
  ASSUME SearchInv, NEW c \in Clients, NEW v \in Versions, TransferAlias(c, v)
  PROVE  SearchInv'
<1>1. UNCHANGED <<record, keeper, doc, drifted>> /\ ~At(c, "down")
  BY DEF TransferAlias, At, database, server
<1>2. CASE Become(c, Idle)
  BY <1>1, <1>2, IdleIsFit, QuietMovesKeepSearchInv DEF Idle
<1>3. CASE \E where \in {"finding alias", "putting alias"} :
             Become(c, [client[c] EXCEPT !.version = v, !.step = where])
  <2>1. PICK where \in {"finding alias", "putting alias"} :
          Become(c, [client[c] EXCEPT !.version = v, !.step = where])
    BY <1>3
  <2>2. Fit([client[c] EXCEPT !.version = v, !.step = where])
        /\ [client[c] EXCEPT !.version = v, !.step = where].step # "recording"
    BY ProcessesFit DEF Fit, Processes, Steps, JobNames, AliasNames
  <2> QED BY <1>1, <2>1, <2>2, QuietMovesKeepSearchInv
<1> QED BY <1>2, <1>3 DEF TransferAlias

LEMMA BatchesKeepSearchInv ==
  ASSUME SearchInv, NEW c \in Clients, ReadBatch(c) \/ RetryUpload(c)
  PROVE  SearchInv'
<1>1. UNCHANGED <<record, keeper, doc, drifted>>
  BY DEF ReadBatch, RetryUpload, database, server
<1>2. Fit(client[c]) /\ client[c].step # "down" /\ client[c] \in Processes
  BY ProcessesFit DEF ReadBatch, RetryUpload, At, Fit
<1>3. CASE ReadBatch(c)
  <2>1. PICK b \in SUBSET Works : Become(c, [client[c] EXCEPT
            !.tried = @ \cup b,
            !.hand = [w \in Works |-> IF w \in b THEN "current" ELSE "none"],
            !.step = "uploading"])
    BY <1>3 DEF ReadBatch, NeedsCoverage
  <2> DEFINE p == [client[c] EXCEPT
            !.tried = @ \cup b,
            !.hand = [w \in Works |-> IF w \in b THEN "current" ELSE "none"],
            !.step = "uploading"]
  <2>2. p \in Processes
    BY <1>2 DEF Processes, Steps, HandStates
  <2>3. p.step = "uploading" /\ p.version = client[c].version
        /\ p.hand = [w \in Works |-> IF w \in b THEN "current" ELSE "none"]
    BY <1>2 DEF Processes, Steps
  <2>4. Fit(p) /\ p.step # "recording"
    BY <1>2, <2>2, <2>3 DEF Fit
  <2> QED BY <1>1, <2>1, <2>4, QuietMovesKeepSearchInv
<1>4. CASE RetryUpload(c)
  <2> DEFINE p == [client[c] EXCEPT
            !.again = TRUE,
            !.hand = [w \in Works |-> IF w \in InHand(c) THEN "current" ELSE "none"]]
  <2>1. Become(c, p) /\ client[c].step = "uploading"
    BY <1>4 DEF RetryUpload, At
  <2>2. p \in Processes
    BY <1>2 DEF Processes, Steps, HandStates
  <2>3. p.step = "uploading" /\ p.version = client[c].version
        /\ p.hand = [w \in Works |-> IF w \in InHand(c) THEN "current" ELSE "none"]
    BY <1>2, <2>1 DEF Processes, Steps
  <2>4. Fit(p) /\ p.step # "recording"
    BY <1>2, <2>2, <2>3 DEF Fit
  <2> QED BY <1>1, <2>1, <2>4, QuietMovesKeepSearchInv
<1> QED BY <1>3, <1>4

LEMMA EndsKeepSearchInv ==
  ASSUME SearchInv, NEW c \in Clients, EndRun(c)
  PROVE  SearchInv'
<1>1. Become(c, Idle) /\ Idle.step # "recording" /\ UNCHANGED <<keeper, doc, drifted>>
  BY DEF EndRun, Idle, server
<1>2. record' \in [Works -> {"none", "registered", "success", "failure"}]
      /\ \A w \in Works : record'[w] = "success" => record[w] = "success"
  BY DEF EndRun, SearchInv, SearchTypeOK
<1> QED BY <1>1, <1>2, IdleIsFit, MovesKeepSearchInv

\* A Work that changes says so, and what anybody has of it is no longer current.
LEMMA ChangesKeepSearchInv ==
  ASSUME SearchInv, NEW x \in Works, NEW isReady \in BOOLEAN, ChangeWork(x, isReady)
  PROVE  SearchInv'
<1>1. /\ record' = [record EXCEPT ![x] = "registered"]
      /\ doc' = [v \in Versions |-> [doc[v] EXCEPT ![x] = Spoil(@)]]
      /\ client' = SpoilInHand(Clients, {x})
      /\ UNCHANGED <<keeper, drifted>>
  BY DEF ChangeWork
<1>2. client' \in [Clients -> Processes]
  <2>1. \A d \in Clients : client'[d] \in Processes
    BY <1>1, SpoiledHands
  <2>2. client' = [d \in Clients |-> client'[d]]
    BY <1>1 DEF SpoilInHand
  <2> QED BY <2>1, <2>2
<1>3. \A d \in Clients :
        /\ client'[d].step = client[d].step /\ client'[d].version = client[d].version
        /\ \A w \in Works : client'[d].hand[w] = IF w = x THEN Spoil(client[d].hand[w]) ELSE client[d].hand[w]
  BY <1>1, SpoiledHands
<1>4. \A v \in Versions : \A w \in Works : doc'[v][w] = IF w = x THEN Spoil(doc[v][w]) ELSE doc[v][w]
  BY <1>1 DEF SearchInv, SearchTypeOK
<1>5. SearchTypeOK'
  <2>1. doc' \in [Versions -> [Works -> Documents]]
    BY <1>1 DEF SearchInv, SearchTypeOK, Documents, Spoil
  <2> QED BY <1>1, <1>2, <2>1 DEF SearchInv, SearchTypeOK
<1>6. RunningHasVersion' /\ NothingFailedYet'
  BY <1>3 DEF SearchInv, RunningHasVersion, NothingFailedYet, At, Index, Spoil
<1>7. UploadsArrived'
  BY <1>3, <1>4 DEF SearchInv, UploadsArrived, RunningHasVersion, At, Index, Spoil
<1>8. \A w \in Works : record'[w] = "success" => record[w] = "success" /\ w # x
  BY <1>1 DEF SearchInv, SearchTypeOK
<1>9. RecordsAreHonest' /\ \A w \in Works : record'[w] = "success" => keeper'[w] \in Versions
  BY <1>1, <1>4, <1>8 DEF SearchInv, RecordsAreHonest
<1> QED BY <1>5, <1>6, <1>7, <1>9 DEF SearchInv

\* An index that is deleted leaves nobody a document in it, and no record honest.
LEMMA DeletionsKeepSearchInv ==
  ASSUME SearchInv, NEW c \in Clients, DeleteIndex(c)
  PROVE  SearchInv'
<1> DEFINE u == Index(c)
           cs == {b \in Clients : Index(b) = u}
           s == SpoilInHand(cs, Works)
<1>1. /\ At(c, "deleting")
      /\ doc' = [doc EXCEPT ![u] = NoDocs]
      /\ client' = [s EXCEPT ![c].step = "creating"]
      /\ drifted' = drifted \cup {w \in Works : record[w] = "success" /\ keeper[w] = u}
      /\ UNCHANGED <<record, keeper>>
  BY DEF DeleteIndex, database
<1>2. u \in Versions
  BY <1>1 DEF SearchInv, RunningHasVersion, At
<1>3. \A d \in Clients : s[d] \in Processes /\ s[d].step = client[d].step /\ s[d].version = client[d].version
         /\ \A w \in Works : s[d].hand[w] = IF d \in cs THEN Spoil(client[d].hand[w]) ELSE client[d].hand[w]
  BY SpoiledHands
<1>4. client' = [s EXCEPT ![c] = [s[c] EXCEPT !.step = "creating"]] /\ DOMAIN s = Clients
  BY <1>1 DEF SpoilInHand
<1>5. /\ client' \in [Clients -> Processes]
      /\ \A d \in Clients : /\ client'[d].version = client[d].version
                            /\ client'[d].step = IF d = c THEN "creating" ELSE client[d].step
                            /\ client'[d].hand = s[d].hand
  <2>1. [s[c] EXCEPT !.step = "creating"] \in Processes /\ [s[c] EXCEPT !.step = "creating"].step = "creating"
        /\ [s[c] EXCEPT !.step = "creating"].version = s[c].version /\ [s[c] EXCEPT !.step = "creating"].hand = s[c].hand
    <3> DEFINE r == s[c]
    <3>1. r \in Processes /\ "creating" \in Steps
      BY <1>3 DEF Steps
    <3> HIDE DEF r
    <3>2. [r EXCEPT !.step = "creating"] \in Processes
      BY <3>1 DEF Processes
    <3>3. /\ [r EXCEPT !.step = "creating"].step = "creating"
          /\ [r EXCEPT !.step = "creating"].version = r.version
          /\ [r EXCEPT !.step = "creating"].hand = r.hand
      BY <3>1 DEF Processes
    <3> QED BY <3>2, <3>3 DEF r
  <2>2. client'[c] = [s[c] EXCEPT !.step = "creating"] /\ \A d \in Clients \ {c} : client'[d] = s[d]
    BY <1>4
  <2>3. \A d \in Clients : client'[d] \in Processes
    BY <2>1, <2>2, <1>3
  <2>4. client' = [d \in Clients |-> client'[d]]
    BY <1>4
  <2>5. client' \in [Clients -> Processes]
    BY <2>3, <2>4
  <2> QED BY <2>1, <2>2, <2>5, <1>3
<1> HIDE DEF s
<1>6. \A v \in Versions : \A w \in Works : doc'[v][w] = IF v = u THEN "absent" ELSE doc[v][w]
  BY <1>1, <1>2 DEF SearchInv, SearchTypeOK, NoDocs
<1>7. SearchTypeOK'
  BY <1>1, <1>2, <1>5 DEF SearchInv, SearchTypeOK, Documents, NoDocs
<1>8. RunningHasVersion' /\ NothingFailedYet'
  <2>1. RunningHasVersion'
    BY <1>1, <1>5 DEF SearchInv, RunningHasVersion, At, Index
  <2>2. NothingFailedYet'
    BY <1>3, <1>5 DEF SearchInv, NothingFailedYet, At, Spoil
  <2> QED BY <2>1, <2>2
<1>9. UploadsArrived'
  <2> SUFFICES ASSUME NEW d \in Clients, NEW w \in Works, client'[d].step = "recording", client'[d].hand[w] = "current"
               PROVE  doc'[client'[d].version][w] = "current"
    BY DEF UploadsArrived, At, Index
  <2>1. d # c /\ client[d].step = "recording" /\ d \notin cs /\ client[d].hand[w] = "current"
    BY <1>3, <1>5 DEF Spoil
  <2>2. doc[client[d].version][w] = "current" /\ client[d].version \in Versions /\ client[d].version # u
    BY <2>1 DEF SearchInv, UploadsArrived, RunningHasVersion, At, Index
  <2> QED BY <2>2, <1>5, <1>6
<1>10. RecordsAreHonest' /\ \A w \in Works : record'[w] = "success" => keeper'[w] \in Versions
  BY <1>1, <1>6 DEF SearchInv, RecordsAreHonest
<1> QED BY <1>7, <1>8, <1>9, <1>10 DEF SearchInv

\* A document that arrives late spoils what others are about to record of it, and the
\* records there are.
LEMMA UploadsKeepSearchInv ==
  ASSUME SearchInv, NEW c \in Clients, Upload(c)
  PROVE  SearchInv'
<1> DEFINE u == Index(c)
           hand == client[c].hand
<1>1. PICK b \in SUBSET InHand(c) :
        /\ doc' = [doc EXCEPT ![u] = [w \in Works |-> IF w \in b THEN hand[w] ELSE @[w]]]
        /\ client' = [SpoilInHand({a \in Clients : Index(a) = u}, {w \in b : hand[w] = "stale"}) EXCEPT
             ![c].hand = [w \in Works |-> IF w \in InHand(c) \ b THEN "failed" ELSE @[w]],
             ![c].again = FALSE,
             ![c].step = "recording"]
        /\ drifted' = drifted \cup {w \in b : hand[w] = "stale"}
  BY DEF Upload
<1> DEFINE late == {w \in b : hand[w] = "stale"}
           cs == {a \in Clients : Index(a) = u}
           s == SpoilInHand(cs, late)
           new == [w \in Works |-> IF w \in InHand(c) \ b THEN "failed" ELSE s[c].hand[w]]
           p == [s[c] EXCEPT !.hand = new, !.again = FALSE, !.step = "recording"]
<1>2. At(c, "uploading") /\ UNCHANGED <<record, keeper>>
  BY DEF Upload, database
<1>3. u \in Versions /\ hand \in [Works -> HandStates] /\ \A w \in Works : hand[w] # "failed"
  BY <1>2 DEF SearchInv, RunningHasVersion, NothingFailedYet, SearchTypeOK, Processes, At
<1>4. \A d \in Clients : s[d] \in Processes /\ s[d].step = client[d].step /\ s[d].version = client[d].version
         /\ \A w \in Works : s[d].hand[w] = IF d \in cs /\ w \in late THEN Spoil(client[d].hand[w]) ELSE client[d].hand[w]
  BY SpoiledHands
<1>5. client' = [s EXCEPT ![c] = p] /\ DOMAIN s = Clients
  BY <1>1 DEF SpoilInHand
<1> HIDE DEF s
<1>6. p \in Processes /\ p.step = "recording" /\ p.version = u /\ p.hand = new
  <2>1. new \in [Works -> HandStates]
    BY <1>4 DEF Processes, Steps, HandStates
  <2> HIDE DEF new
  <2> QED BY <2>1, <1>4 DEF Processes, Steps, Index
<1> HIDE DEF p
<1>7. client' \in [Clients -> Processes] /\ client'[c] = p /\ \A d \in Clients \ {c} : client'[d] = s[d]
  <2>1. client'[c] = p /\ \A d \in Clients \ {c} : client'[d] = s[d]
    BY <1>5
  <2>2. \A d \in Clients : client'[d] \in Processes
    BY <2>1, <1>4, <1>6
  <2>3. client' = [d \in Clients |-> client'[d]]
    BY <1>5
  <2> QED BY <2>1, <2>2, <2>3
<1>8. \A v \in Versions : \A w \in Works :
        doc'[v][w] = IF v = u /\ w \in b THEN hand[w] ELSE doc[v][w]
  BY <1>1, <1>3 DEF SearchInv, SearchTypeOK
<1>9. SearchTypeOK'
  <2>1. \A w \in b : hand[w] \in {"current", "stale"}
    BY <1>3 DEF InHand, HandStates
  <2>2. doc' \in [Versions -> [Works -> Documents]]
    BY <2>1, <1>1, <1>3 DEF SearchInv, SearchTypeOK, Documents
  <2> QED BY <1>2, <1>7, <2>2 DEF SearchInv, SearchTypeOK
<1>10. RunningHasVersion'
  BY <1>3, <1>4, <1>6, <1>7 DEF SearchInv, RunningHasVersion, At, Index
<1>11. NothingFailedYet'
  BY <1>4, <1>6, <1>7 DEF SearchInv, NothingFailedYet, At, Spoil
<1>12. UploadsArrived'
  <2> SUFFICES ASSUME NEW d \in Clients, NEW w \in Works, client'[d].step = "recording", client'[d].hand[w] = "current"
               PROVE  doc'[client'[d].version][w] = "current"
    BY DEF UploadsArrived, At, Index
  <2>1. CASE d = c
    <3>1. new[w] = "current" /\ client'[d].version = u
      BY <2>1, <1>6, <1>7
    <3>2. w \notin InHand(c) \ b /\ s[c].hand[w] = "current"
      BY <3>1
    <3>3. hand[w] = "current"
      BY <3>2, <1>4 DEF Spoil
    <3>4. w \in b
      BY <3>2, <3>3 DEF InHand
    <3> QED BY <3>1, <3>3, <3>4, <1>3, <1>8
  <2>2. CASE d # c
    <3>1. client[d].step = "recording" /\ client[d].hand[w] = "current" /\ ~(d \in cs /\ w \in late)
          /\ client'[d].version = client[d].version
      BY <2>2, <1>4, <1>7 DEF Spoil
    <3>2. doc[client[d].version][w] = "current" /\ client[d].version \in Versions
      BY <3>1 DEF SearchInv, UploadsArrived, RunningHasVersion, At, Index
    <3>3. CASE client[d].version = u /\ w \in b
      <4>1. hand[w] # "stale"
        BY <3>1, <3>3 DEF Index
      <4>2. hand[w] = "current"
        BY <4>1, <3>3, <1>3 DEF InHand, HandStates
      <4> QED BY <4>2, <3>1, <3>2, <3>3, <1>8
    <3>4. CASE ~(client[d].version = u /\ w \in b)
      BY <3>1, <3>2, <3>4, <1>8
    <3> QED BY <3>3, <3>4
  <2> QED BY <2>1, <2>2
<1>13. \A w \in Works : record'[w] = "success" => keeper'[w] \in Versions
  BY <1>2 DEF SearchInv
<1>14. RecordsAreHonest'
  <2> SUFFICES ASSUME NEW w \in Works, record'[w] = "success", w \notin drifted'
               PROVE  doc'[keeper'[w]][w] = "current"
    BY DEF RecordsAreHonest
  <2>1. record[w] = "success" /\ w \notin drifted /\ w \notin late /\ keeper[w] \in Versions /\ keeper'[w] = keeper[w]
    BY <1>1, <1>2 DEF SearchInv
  <2>2. doc[keeper[w]][w] = "current"
    BY <2>1 DEF SearchInv, RecordsAreHonest
  <2>3. CASE keeper[w] = u /\ w \in b
    <3>1. hand[w] = "current"
      BY <2>1, <2>3, <1>3 DEF InHand, HandStates
    <3> QED BY <3>1, <2>1, <2>3, <1>8
  <2>4. CASE ~(keeper[w] = u /\ w \in b)
    BY <2>1, <2>2, <2>4, <1>8
  <2> QED BY <2>3, <2>4
<1> QED BY <1>9, <1>10, <1>11, <1>12, <1>13, <1>14 DEF SearchInv

\* What is recorded as indexed has arrived, or the record is known to be wrong.
LEMMA RecordsKeepSearchInv ==
  ASSUME SearchInv, NEW c \in Clients, Record(c)
  PROVE  SearchInv'
<1> DEFINE indexed == {w \in InHand(c) : client[c].hand[w] # "failed"}
           p == [client[c] EXCEPT !.hand = Idle.hand, !.cleared = FALSE, !.step = "running"]
<1>1. /\ At(c, "recording")
      /\ record' = [w \in Works |-> CASE w \in indexed -> "success"
                                      [] w \in InHand(c) \ indexed -> "failure"
                                      [] OTHER -> IF client[c].cleared THEN "none" ELSE record[w]]
      /\ keeper' = [w \in Works |-> IF w \in indexed THEN Index(c) ELSE keeper[w]]
      /\ drifted' = (drifted \ indexed) \cup {w \in indexed : client[c].hand[w] = "stale"}
      /\ client' = [client EXCEPT ![c] = p]
      /\ doc' = doc
  BY DEF Record, RecordAs, Become, server
<1>2. Index(c) \in Versions /\ client[c] \in Processes
  BY <1>1 DEF SearchInv, RunningHasVersion, SearchTypeOK, At
<1>3. p \in Processes /\ p.step = "running" /\ p.version = Index(c)
  BY <1>2 DEF Processes, Steps, Idle, HandStates, Index
<1> HIDE DEF p
<1>4. client' \in [Clients -> Processes] /\ client'[c] = p /\ \A d \in Clients \ {c} : client'[d] = client[d]
  BY <1>1, <1>3 DEF SearchInv, SearchTypeOK
<1>5. \A w \in indexed : record'[w] = "success" /\ keeper'[w] = Index(c)
  BY <1>1 DEF InHand
<1>6. \A w \in Works \ indexed : keeper'[w] = keeper[w] /\ (record'[w] = "success" => record[w] = "success")
  BY <1>1
<1>7. SearchTypeOK'
  <2>1. record' \in [Works -> {"none", "registered", "success", "failure"}]
    BY <1>1 DEF SearchInv, SearchTypeOK
  <2>2. keeper' \in [Works -> Versions \cup {"none"}]
    BY <1>1, <1>2 DEF SearchInv, SearchTypeOK
  <2> QED BY <1>1, <1>4, <2>1, <2>2 DEF SearchInv, SearchTypeOK
<1>8. RunningHasVersion' /\ NothingFailedYet' /\ UploadsArrived'
  <2>1. RunningHasVersion'
    BY <1>2, <1>3, <1>4 DEF SearchInv, RunningHasVersion, At, Index
  <2>2. NothingFailedYet'
    BY <1>3, <1>4 DEF SearchInv, NothingFailedYet, At
  <2>3. UploadsArrived'
    BY <1>1, <1>3, <1>4 DEF SearchInv, UploadsArrived, At, Index
  <2> QED BY <2>1, <2>2, <2>3
<1>9. \A w \in Works : record'[w] = "success" => keeper'[w] \in Versions
  BY <1>2, <1>5, <1>6 DEF SearchInv
<1>10. RecordsAreHonest'
  <2> SUFFICES ASSUME NEW w \in Works, record'[w] = "success", w \notin drifted'
               PROVE  doc[keeper'[w]][w] = "current"
    BY <1>1 DEF RecordsAreHonest
  <2>1. CASE w \in indexed
    <3>1. client[c].hand[w] = "current"
      BY <2>1, <1>1, <1>2 DEF InHand, Processes, HandStates
    <3> QED BY <2>1, <3>1, <1>1, <1>5 DEF SearchInv, UploadsArrived
  <2>2. CASE w \notin indexed
    BY <2>2, <1>1, <1>6 DEF SearchInv, RecordsAreHonest
  <2> QED BY <2>1, <2>2
<1> QED BY <1>7, <1>8, <1>9, <1>10 DEF SearchInv

LEMMA SearchInvIsInductive == SearchSpec => []SearchInv
<1>1. SearchInit => SearchInv
  <2> SUFFICES ASSUME SearchInit PROVE SearchInv
    OBVIOUS
  <2>1. SearchTypeOK
    BY IdleIsFit DEF SearchInit, SearchTypeOK, NoDocs, Documents, Fit
  <2>2. RunningHasVersion /\ NothingFailedYet /\ UploadsArrived
    BY DEF SearchInit, RunningHasVersion, NothingFailedYet, UploadsArrived, At, Idle
  <2>3. RecordsAreHonest /\ \A w \in Works : record[w] = "success" => keeper[w] \in Versions
    BY DEF SearchInit, RecordsAreHonest
  <2> QED BY <2>1, <2>2, <2>3 DEF SearchInv
<1>2. SearchInv /\ [SearchNext]_searchVars => SearchInv'
  <2> SUFFICES ASSUME SearchInv, [SearchNext]_searchVars PROVE SearchInv'
    OBVIOUS
  <2>1. ASSUME NEW w \in Works, NEW isReady \in BOOLEAN, ChangeWork(w, isReady) PROVE SearchInv'
    BY <2>1, ChangesKeepSearchInv
  <2>2. ASSUME NEW c \in Clients, Proceed(c) PROVE SearchInv'
    BY <2>2, LooksKeepSearchInv, DeletionsKeepSearchInv, AliasesKeepSearchInv, TransferKeepsSearchInv,
       BatchesKeepSearchInv, UploadsKeepSearchInv, RecordsKeepSearchInv, EndsKeepSearchInv DEF Proceed
  <2>3. ASSUME NEW c \in Clients, Start(c) \/ RefuseAlias(c) \/ Stop(c) \/ Perish(c) PROVE SearchInv'
    BY <2>3, StartKeepsSearchInv, AliasesKeepSearchInv, StopsKeepSearchInv
  <2>4. CASE RemoveCoverage
    <3>1. record' = [w \in Works |-> "none"] /\ UNCHANGED <<keeper, doc, client, drifted>>
      BY <2>4 DEF RemoveCoverage, server
    <3>2. SearchTypeOK' /\ RunningHasVersion' /\ NothingFailedYet' /\ UploadsArrived'
      BY <3>1 DEF SearchInv, SearchTypeOK, RunningHasVersion, NothingFailedYet, UploadsArrived, At, Index
    <3>3. RecordsAreHonest' /\ \A w \in Works : record'[w] = "success" => keeper'[w] \in Versions
      BY <3>1 DEF RecordsAreHonest
    <3> QED BY <3>2, <3>3 DEF SearchInv
  <2>5. CASE UNCHANGED searchVars
    BY <2>5 DEF searchVars, database, server, SearchInv, SearchTypeOK, RunningHasVersion, NothingFailedYet,
       UploadsArrived, RecordsAreHonest, At, Index
  <2> QED BY <2>1, <2>2, <2>3, <2>4, <2>5 DEF SearchNext
<1> QED BY <1>1, <1>2, PTL DEF SearchSpec

(* A Work that counts as covered is in the index of the version that covered it, as it *)
(* is now, for every set of Works, of versions and of processes, and however often     *)
(* processes die: except for the Works of which the model knows that the record may    *)
(* say more than the index holds.                                                      *)
THEOREM RecordsStayHonest == SearchSpec => []RecordsAreHonest
<1>1. SearchInv => RecordsAreHonest
  BY DEF SearchInv
<1> QED BY <1>1, SearchInvIsInductive, PTL

\* What a rebuild that is the only client has recorded so far is in the index as it is,
\* or known to have changed on its way there; what it is about to index is not recorded.
Covered(c, w) == doc[Index(c)][w] = "current" \/ (doc[Index(c)][w] = "stale" /\ w \in drifted)
Covers(c) == client[c].step \in {"running", "uploading", "recording"} /\ ~client[c].cleared
RebuildCovers(c) ==
  client[c].job = "rebuild" =>
    /\ Covers(c) => \A w \in Works : record[w] = "success" => Covered(c, w)
    /\ Covers(c) /\ client[c].step # "running" => \A w \in InHand(c) : record[w] # "success"
    /\ At(c, "recording") => \A w \in Works : client[c].hand[w] = "stale" => doc[Index(c)][w] = "stale"

AloneInv ==
  \A c \in alone :
    c \in Clients /\ (\A d \in Clients \ {c} : At(d, "down")) /\ RebuildCovers(c)

\* A step of a process that runs is a step of the one that is alone, if any is.
LEMMA OnlyTheLoneOneMoves ==
  ASSUME AloneInv, alone' = alone, NEW c \in Clients, ~At(c, "down"),
         \A d \in Clients \ {c} : client'[d].step = client[d].step,
         RebuildCovers(c)'
  PROVE  AloneInv'
<1>1. alone \subseteq {c}
  BY DEF AloneInv
<1> QED BY <1>1 DEF AloneInv, At

\* Whoever is not in the middle of a batch has nothing to answer for.
LEMMA OthersCoverNothing ==
  ASSUME SearchInv, AloneInv, alone' = alone, NEW c \in Clients, ~At(c, "down"), NEW p, Become(c, p),
         p.job # "rebuild" \/ p.step \notin {"running", "uploading", "recording"}
  PROVE  AloneInv'
<1>1. client'[c] = p /\ \A d \in Clients \ {c} : client'[d] = client[d]
  BY DEF Become, SearchInv, SearchTypeOK
<1>2. RebuildCovers(c)'
  BY <1>1 DEF RebuildCovers, Covers, At
<1> QED BY <1>1, <1>2, OnlyTheLoneOneMoves

LEMMA SpoiledHandsKeepJobs ==
  ASSUME SearchInv, NEW cs, NEW ws, NEW d \in Clients
  PROVE  /\ SpoilInHand(cs, ws)[d].job = client[d].job
         /\ SpoilInHand(cs, ws)[d].cleared = client[d].cleared
<1>1. client[d] \in Processes
  BY DEF SearchInv, SearchTypeOK
<1> QED BY <1>1 DEF SpoilInHand, Processes

LEMMA StepsAsideKeepAloneInv ==
  ASSUME SearchInv, AloneInv, NEW c \in Clients,
         \/ FindIndex(c) \/ CreateIndex(c) \/ FindAlias(c) \/ PutAlias(c) \/ RefuseAlias(c)
         \/ (\E v \in Versions : TransferAlias(c, v)) \/ EndRun(c) \/ Stop(c) \/ Perish(c)
  PROVE  AloneInv'
<1>1. alone' = alone /\ ~At(c, "down") /\ client[c] \in Processes
  BY DEF FindIndex, CreateIndex, FindAlias, PutAlias, RefuseAlias, TransferAlias, EndRun, Stop, Perish, At,
         SearchInv, SearchTypeOK
<1>2. CASE Become(c, Idle)
  BY <1>1, <1>2, OthersCoverNothing DEF Idle
<1>3. CASE \E where \in {"finding alias", "deleting", "clearing", "putting alias"} : Goto(c, where)
  <2>1. PICK where \in {"finding alias", "deleting", "clearing", "putting alias"} : Goto(c, where)
    BY <1>3
  <2>2. [client[c] EXCEPT !.step = where].step = where
    BY <1>1 DEF Processes
  <2> QED BY <1>1, <2>1, <2>2, OthersCoverNothing DEF Goto
<1>4. CASE \E v \in Versions, where \in {"finding alias", "putting alias"} :
             Become(c, [client[c] EXCEPT !.version = v, !.step = where])
  <2>1. PICK v \in Versions, where \in {"finding alias", "putting alias"} :
          Become(c, [client[c] EXCEPT !.version = v, !.step = where])
    BY <1>4
  <2>2. [client[c] EXCEPT !.version = v, !.step = where].step = where
    BY <1>1 DEF Processes
  <2> QED BY <1>1, <2>1, <2>2, OthersCoverNothing
<1>5. CASE Search(c, "alias") \/ Search(c, "index")
  <2>1. PICK name \in {"alias", "index"} : Search(c, name)
    BY <1>5
  <2> DEFINE q(where) == [client[c] EXCEPT !.works_alias = name, !.step = where]
  <2>2. \A where : q(where).step = where /\ q(where).job = client[c].job
    BY <1>1 DEF Processes
  <2>3. CASE Become(c, Idle)
    BY <1>2, <2>3
  <2>4. CASE Become(c, q("transferring")) \/ Become(c, q("deleting")) \/ Become(c, q("searching"))
    <3>1. PICK where \in {"transferring", "deleting", "searching"} : Become(c, q(where))
      BY <2>4
    <3> HIDE DEF q
    <3> QED BY <1>1, <2>2, <3>1, OthersCoverNothing
  <2>5. CASE client[c].job = "provider" /\ Become(c, q("running"))
    <3> HIDE DEF q
    <3> QED BY <1>1, <2>2, <2>5, OthersCoverNothing
  <2>6. \/ Become(c, Idle) \/ Become(c, q("transferring")) \/ Become(c, q("deleting"))
        \/ Become(c, q("searching")) \/ (client[c].job = "provider" /\ Become(c, q("running")))
    BY <2>1 DEF Search
  <2> QED BY <2>3, <2>4, <2>5, <2>6
<1> QED BY <1>2, <1>3, <1>4, <1>5
       DEF FindIndex, CreateIndex, FindAlias, PutAlias, RefuseAlias, TransferAlias, EndRun, Stop, Perish

LEMMA StartKeepsAloneInv ==
  ASSUME SearchInv, NEW c \in Clients, Start(c)
  PROVE  AloneInv'
<1>1. PICK v \in Versions, j \in Jobs(c) :
        Become(c, [Idle EXCEPT !.step = "finding index", !.version = v, !.job = j])
  BY DEF Start
<1>2. client'[c].step = "finding index" /\ \A d \in Clients \ {c} : client'[d] = client[d]
  BY <1>1 DEF Become, Idle, SearchInv, SearchTypeOK
<1>3. alone' \subseteq {c} /\ (alone' # {} => \A a \in Clients : At(a, "down"))
  BY DEF Start
<1> QED BY <1>2, <1>3 DEF AloneInv, RebuildCovers, Covers, At

LEMMA DeletionsKeepAloneInv ==
  ASSUME SearchInv, AloneInv, NEW c \in Clients, DeleteIndex(c)
  PROVE  AloneInv'
<1>1. PICK cs : client' = [SpoilInHand(cs, Works) EXCEPT ![c].step = "creating"]
  BY DEF DeleteIndex
<1>2. ~At(c, "down") /\ alone' = alone
  BY DEF DeleteIndex, At
<1>3. \A d \in Clients : SpoilInHand(cs, Works)[d] \in Processes
                         /\ SpoilInHand(cs, Works)[d].step = client[d].step
  BY SpoiledHands
<1> DEFINE s == SpoilInHand(cs, Works)
<1>4. DOMAIN s = Clients
  BY DEF SpoilInHand
<1> HIDE DEF s
<1>5. client'[c].step = "creating" /\ \A d \in Clients \ {c} : client'[d] = s[d]
  BY <1>1, <1>3, <1>4 DEF s, Processes
<1>6. RebuildCovers(c)'
  BY <1>5 DEF RebuildCovers, Covers, At
<1> QED BY <1>2, <1>3, <1>5, <1>6, OnlyTheLoneOneMoves DEF s

LEMMA BatchesKeepAloneInv ==
  ASSUME SearchInv, AloneInv, NEW c \in Clients, ClearRecords(c) \/ ReadBatch(c) \/ RetryUpload(c)
  PROVE  AloneInv'
<1>1. alone' = alone /\ ~At(c, "down") /\ client[c] \in Processes /\ UNCHANGED <<record, doc, drifted>>
  BY DEF ClearRecords, ReadBatch, RetryUpload, At, SearchInv, SearchTypeOK, database, server
<1>2. SUFFICES ASSUME RebuildCovers(c), client[c].job = "rebuild"
               PROVE  RebuildCovers(c)' /\ \A d \in Clients \ {c} : client'[d].step = client[d].step
  <2>1. client'[c].job = client[c].job /\ \A d \in Clients \ {c} : client'[d].step = client[d].step
    <3>1. \E p : Become(c, p) /\ p.job = client[c].job
      <4>1. CASE ClearRecords(c)
        <5> DEFINE p == [client[c] EXCEPT !.cleared = TRUE, !.step = "running"]
        <5>1. Become(c, p)
          BY <4>1 DEF ClearRecords
        <5>2. p.job = client[c].job
          BY <1>1 DEF Processes
        <5> HIDE DEF p
        <5> QED BY <5>1, <5>2
      <4>2. CASE ReadBatch(c)
        <5>1. PICK b \in SUBSET NeedsCoverage(c) : Become(c, [client[c] EXCEPT
                  !.tried = @ \cup b,
                  !.hand = [w \in Works |-> IF w \in b THEN "current" ELSE "none"],
                  !.step = "uploading"])
          BY <4>2 DEF ReadBatch
        <5> DEFINE p == [client[c] EXCEPT
                  !.tried = @ \cup b,
                  !.hand = [w \in Works |-> IF w \in b THEN "current" ELSE "none"],
                  !.step = "uploading"]
        <5>2. p.job = client[c].job
          BY <1>1 DEF Processes
        <5>3. Become(c, p)
          BY <5>1
        <5> HIDE DEF p
        <5> QED BY <5>2, <5>3
      <4>3. CASE RetryUpload(c)
        <5> DEFINE p == [client[c] EXCEPT
                  !.again = TRUE,
                  !.hand = [w \in Works |-> IF w \in InHand(c) THEN "current" ELSE "none"]]
        <5>1. Become(c, p)
          BY <4>3 DEF RetryUpload
        <5>2. p.job = client[c].job
          BY <1>1 DEF Processes
        <5> HIDE DEF p
        <5> QED BY <5>1, <5>2
      <4> QED BY <4>1, <4>2, <4>3
    <3> QED BY <3>1 DEF Become, SearchInv, SearchTypeOK
  <2>2. CASE c \in alone /\ client[c].job = "rebuild"
    BY <1>1, <1>2, <2>2, OnlyTheLoneOneMoves DEF AloneInv
  <2>3. CASE c \notin alone
    BY <1>1, <2>1, <2>3 DEF AloneInv, At
  <2>4. CASE client[c].job # "rebuild"
    <3>1. RebuildCovers(c)'
      BY <2>1, <2>4 DEF RebuildCovers
    <3> QED BY <1>1, <2>1, <3>1, OnlyTheLoneOneMoves
  <2> QED BY <2>2, <2>3, <2>4
<1>3. CASE ClearRecords(c)
  <2>1. client'[c].cleared /\ client'[c].step = "running" /\ \A d \in Clients \ {c} : client'[d] = client[d]
    BY <1>1, <1>3 DEF ClearRecords, Become, SearchInv, SearchTypeOK, Processes
  <2> QED BY <2>1 DEF RebuildCovers, Covers, At
<1>4. CASE ReadBatch(c)
  <2>1. PICK b \in SUBSET NeedsCoverage(c) : Become(c, [client[c] EXCEPT
            !.tried = @ \cup b,
            !.hand = [w \in Works |-> IF w \in b THEN "current" ELSE "none"],
            !.step = "uploading"])
    BY <1>4 DEF ReadBatch
  <2>2. /\ client[c].step = "running" /\ client'[c].step = "uploading"
        /\ client'[c].cleared = client[c].cleared /\ client'[c].version = client[c].version
        /\ client'[c].hand = [w \in Works |-> IF w \in b THEN "current" ELSE "none"]
        /\ \A d \in Clients \ {c} : client'[d] = client[d]
    BY <1>1, <1>4, <2>1 DEF ReadBatch, Become, SearchInv, SearchTypeOK, Processes, At
  <2>3. \A w \in InHand(c)' : w \in NeedsCoverage(c)
    BY <2>2 DEF InHand
  <2>4. RebuildCovers(c)'
    BY <1>1, <1>2, <2>2, <2>3 DEF RebuildCovers, Covers, Covered, Index, At, NeedsCoverage
  <2> QED BY <2>2, <2>4
<1>5. CASE RetryUpload(c)
  <2>1. /\ client[c].step = "uploading" /\ client'[c].step = "uploading"
        /\ client'[c].cleared = client[c].cleared /\ client'[c].version = client[c].version
        /\ client'[c].hand = [w \in Works |-> IF w \in InHand(c) THEN "current" ELSE "none"]
        /\ \A d \in Clients \ {c} : client'[d] = client[d]
    BY <1>1, <1>5 DEF RetryUpload, Become, SearchInv, SearchTypeOK, Processes, At
  <2>2. InHand(c)' \subseteq InHand(c)
    BY <2>1 DEF InHand
  <2>3. RebuildCovers(c)'
    BY <1>1, <1>2, <2>1, <2>2 DEF RebuildCovers, Covers, Covered, Index, At
  <2> QED BY <2>1, <2>3
<1> QED BY <1>3, <1>4, <1>5

\* What is uploaded was not recorded, and what it is to be recorded as is what arrived.
LEMMA UploadsKeepAloneInv ==
  ASSUME SearchInv, AloneInv, NEW c \in Clients, Upload(c)
  PROVE  AloneInv'
<1> DEFINE u == Index(c)
           hand == client[c].hand
<1>1. PICK b \in SUBSET InHand(c) :
        /\ doc' = [doc EXCEPT ![u] = [w \in Works |-> IF w \in b THEN hand[w] ELSE @[w]]]
        /\ client' = [SpoilInHand({a \in Clients : Index(a) = u}, {w \in b : hand[w] = "stale"}) EXCEPT
             ![c].hand = [w \in Works |-> IF w \in InHand(c) \ b THEN "failed" ELSE @[w]],
             ![c].again = FALSE,
             ![c].step = "recording"]
        /\ drifted' = drifted \cup {w \in b : hand[w] = "stale"}
  BY DEF Upload
<1> DEFINE late == {w \in b : hand[w] = "stale"}
           cs == {a \in Clients : Index(a) = u}
           s == SpoilInHand(cs, late)
           new == [w \in Works |-> IF w \in InHand(c) \ b THEN "failed" ELSE s[c].hand[w]]
           p == [s[c] EXCEPT !.hand = new, !.again = FALSE, !.step = "recording"]
<1>2. At(c, "uploading") /\ ~At(c, "down") /\ record' = record /\ alone' = alone
  BY DEF Upload, database, At
<1>3. u \in Versions /\ hand \in [Works -> HandStates]
  BY <1>2 DEF SearchInv, RunningHasVersion, SearchTypeOK, Processes, At
<1>4. \A d \in Clients : s[d] \in Processes /\ s[d].step = client[d].step /\ s[d].version = client[d].version
         /\ \A w \in Works : s[d].hand[w] = IF d \in cs /\ w \in late THEN Spoil(client[d].hand[w]) ELSE client[d].hand[w]
  BY SpoiledHands
<1>5. s[c].job = client[c].job /\ s[c].cleared = client[c].cleared
  BY SpoiledHandsKeepJobs
<1>6. client' = [s EXCEPT ![c] = p] /\ DOMAIN s = Clients
  BY <1>1 DEF SpoilInHand
<1> HIDE DEF s
<1>7. \A w \in Works : s[c].hand[w] = hand[w]
  BY <1>4 DEF Spoil
<1>8. p.step = "recording" /\ p.version = u /\ p.hand = new /\ p.job = client[c].job /\ p.cleared = client[c].cleared
  <2> HIDE DEF new
  <2> QED BY <1>4, <1>5 DEF Processes, Index
<1> HIDE DEF p
<1>9. client'[c] = p /\ \A d \in Clients \ {c} : client'[d].step = client[d].step
  BY <1>4, <1>6
<1>10. \A w \in Works : doc'[u][w] = IF w \in b THEN hand[w] ELSE doc[u][w]
  BY <1>1, <1>3 DEF SearchInv, SearchTypeOK
<1>11. InHand(c)' \subseteq InHand(c)
  BY <1>7, <1>8, <1>9 DEF InHand
<1>12. \A w \in Works : client'[c].hand[w] = "stale" => doc'[u][w] = "stale"
  <2> SUFFICES ASSUME NEW w \in Works, new[w] = "stale" PROVE doc'[u][w] = "stale"
    BY <1>8, <1>9
  <2>1. w \notin InHand(c) \ b /\ hand[w] = "stale"
    BY <1>7
  <2> QED BY <2>1, <1>10 DEF InHand
<1>13. ASSUME RebuildCovers(c) PROVE RebuildCovers(c)'
  <2> SUFFICES ASSUME client[c].job = "rebuild" PROVE RebuildCovers(c)'
    BY <1>8, <1>9 DEF RebuildCovers
  <2>1. ASSUME ~client[c].cleared, NEW w \in Works, record[w] = "success"
        PROVE  Covered(c, w)' /\ w \notin InHand(c)
    <3>1. Covered(c, w) /\ w \notin InHand(c)
      BY <2>1, <1>2, <1>13 DEF RebuildCovers, Covers, At
    <3>2. doc'[u][w] = doc[u][w] /\ (w \in drifted => w \in drifted')
      BY <3>1, <1>1, <1>10
    <3> QED BY <3>1, <3>2, <1>8, <1>9 DEF Covered, Index
  <2>2. (Covers(c) => \A w \in Works : record[w] = "success" => Covered(c, w))'
    BY <2>1, <1>2, <1>8, <1>9 DEF Covers
  <2>3. (Covers(c) => \A w \in InHand(c) : record[w] # "success")'
    BY <2>1, <1>2, <1>8, <1>9, <1>11 DEF Covers, InHand
  <2>4. (At(c, "recording") => \A w \in Works : client[c].hand[w] = "stale" => doc[Index(c)][w] = "stale")'
    BY <1>8, <1>9, <1>12 DEF Index
  <2> QED BY <2>2, <2>3, <2>4 DEF RebuildCovers
<1>14. CASE c \in alone
  BY <1>2, <1>9, <1>13, <1>14, OnlyTheLoneOneMoves DEF AloneInv
<1>15. CASE c \notin alone
  BY <1>2, <1>15 DEF AloneInv, At
<1> QED BY <1>14, <1>15

LEMMA RecordsKeepAloneInv ==
  ASSUME SearchInv, AloneInv, NEW c \in Clients, Record(c)
  PROVE  AloneInv'
<1> DEFINE indexed == {w \in InHand(c) : client[c].hand[w] # "failed"}
           p == [client[c] EXCEPT !.hand = Idle.hand, !.cleared = FALSE, !.step = "running"]
<1>1. /\ At(c, "recording")
      /\ record' = [w \in Works |-> CASE w \in indexed -> "success"
                                      [] w \in InHand(c) \ indexed -> "failure"
                                      [] OTHER -> IF client[c].cleared THEN "none" ELSE record[w]]
      /\ drifted' = (drifted \ indexed) \cup {w \in indexed : client[c].hand[w] = "stale"}
      /\ client' = [client EXCEPT ![c] = p]
      /\ doc' = doc /\ alone' = alone
  BY DEF Record, RecordAs, Become, server
<1>2. client[c] \in Processes /\ ~At(c, "down")
  BY <1>1 DEF SearchInv, SearchTypeOK, At
<1>3. p.step = "running" /\ p.version = client[c].version /\ p.job = client[c].job
  BY <1>2 DEF Processes
<1> HIDE DEF p
<1>4. client'[c] = p /\ \A d \in Clients \ {c} : client'[d] = client[d]
  BY <1>1 DEF SearchInv, SearchTypeOK
<1>5. \A w \in Works : record'[w] = "success" =>
        w \in indexed \/ (w \notin indexed /\ record[w] = "success" /\ ~client[c].cleared)
  BY <1>1
<1>6. ASSUME RebuildCovers(c) PROVE RebuildCovers(c)'
  <2> SUFFICES ASSUME client[c].job = "rebuild", NEW w \in Works, record'[w] = "success" PROVE Covered(c, w)'
    BY <1>3, <1>4 DEF RebuildCovers, Covers, At
  <2>1. CASE w \in indexed
    <3>1. client[c].hand[w] \in {"current", "stale"}
      BY <2>1, <1>2 DEF InHand, Processes, HandStates
    <3>2. doc[Index(c)][w] = client[c].hand[w]
      BY <3>1, <1>1, <1>6 DEF SearchInv, UploadsArrived, RebuildCovers
    <3> QED BY <2>1, <3>1, <3>2, <1>1, <1>3, <1>4 DEF Covered, Index
  <2>2. CASE w \notin indexed
    <3>1. record[w] = "success" /\ ~client[c].cleared
      BY <2>2, <1>5
    <3>2. Covered(c, w)
      BY <3>1, <1>1, <1>6 DEF RebuildCovers, Covers, At
    <3> QED BY <2>2, <3>2, <1>1, <1>3, <1>4 DEF Covered, Index
  <2> QED BY <2>1, <2>2
<1>7. CASE c \in alone
  BY <1>1, <1>2, <1>4, <1>6, <1>7, OnlyTheLoneOneMoves DEF AloneInv
<1>8. CASE c \notin alone
  BY <1>1, <1>2, <1>4, <1>8 DEF AloneInv, At
<1> QED BY <1>7, <1>8

LEMMA ChangesKeepAloneInv ==
  ASSUME SearchInv, AloneInv, NEW x \in Works, NEW isReady \in BOOLEAN, ChangeWork(x, isReady)
  PROVE  AloneInv'
<1>1. /\ record' = [record EXCEPT ![x] = "registered"]
      /\ doc' = [v \in Versions |-> [doc[v] EXCEPT ![x] = Spoil(@)]]
      /\ client' = SpoilInHand(Clients, {x})
      /\ UNCHANGED <<drifted, alone>>
  BY DEF ChangeWork
<1>2. \A d \in Clients :
        /\ client'[d].step = client[d].step /\ client'[d].version = client[d].version
        /\ client'[d].job = client[d].job /\ client'[d].cleared = client[d].cleared
        /\ \A w \in Works : client'[d].hand[w] = IF w = x THEN Spoil(client[d].hand[w]) ELSE client[d].hand[w]
  BY <1>1, SpoiledHands, SpoiledHandsKeepJobs
<1>3. \A v \in Versions : \A w \in Works : doc'[v][w] = IF w = x THEN Spoil(doc[v][w]) ELSE doc[v][w]
  BY <1>1 DEF SearchInv, SearchTypeOK
<1>4. \A w \in Works : record'[w] = "success" => record[w] = "success" /\ w # x
  BY <1>1 DEF SearchInv, SearchTypeOK
<1>5. SUFFICES ASSUME NEW c \in alone, client[c].job = "rebuild" PROVE RebuildCovers(c)'
  <2>1. \A c \in alone' : c \in alone /\ c \in Clients /\ \A d \in Clients \ {c} : At(d, "down")'
    BY <1>1, <1>2 DEF AloneInv, At
  <2>2. ASSUME NEW c \in alone, client[c].job # "rebuild" PROVE RebuildCovers(c)'
    BY <2>2, <1>2 DEF AloneInv, RebuildCovers
  <2> QED BY <2>1, <2>2, <1>5 DEF AloneInv
<1>6. c \in Clients /\ RebuildCovers(c) /\ (~At(c, "down") => Index(c) \in Versions)
  BY DEF AloneInv, SearchInv, RunningHasVersion
<1>7. (Covers(c) => \A w \in Works : record[w] = "success" => Covered(c, w))'
  <2> SUFFICES ASSUME Covers(c), NEW w \in Works, record'[w] = "success"
               PROVE  Covered(c, w)'
    BY <1>2, <1>6 DEF Covers
  <2>1. Covered(c, w) /\ w # x /\ Index(c) \in Versions
    BY <1>4, <1>5, <1>6 DEF RebuildCovers, Covers, At
  <2>2. doc'[Index(c)][w] = doc[Index(c)][w] /\ Index(c)' = Index(c)
    BY <2>1, <1>2, <1>3, <1>6 DEF Index
  <2> QED BY <2>1, <2>2, <1>1 DEF Covered
<1>8. (Covers(c) /\ client[c].step # "running" => \A w \in InHand(c) : record[w] # "success")'
  <2>1. InHand(c)' \subseteq InHand(c)
    BY <1>2, <1>6 DEF InHand, Spoil
  <2> QED BY <2>1, <1>2, <1>4, <1>5, <1>6 DEF RebuildCovers, Covers, InHand
<1>9. (At(c, "recording") => \A w \in Works : client[c].hand[w] = "stale" => doc[Index(c)][w] = "stale")'
  <2> SUFFICES ASSUME At(c, "recording"), NEW w \in Works, client'[c].hand[w] = "stale"
               PROVE  doc'[Index(c)][w] = "stale"
    BY <1>2, <1>6 DEF At, Index
  <2>1. Index(c) \in Versions
    BY <1>6 DEF At
  <2>2. CASE client[c].hand[w] = "stale"
    BY <2>1, <2>2, <1>3, <1>5, <1>6 DEF RebuildCovers, Spoil
  <2>3. CASE client[c].hand[w] # "stale"
    <3>1. w = x /\ client[c].hand[w] = "current"
      BY <2>3, <1>2, <1>6 DEF Spoil
    <3>2. doc[Index(c)][w] = "current"
      BY <3>1, <1>6 DEF SearchInv, UploadsArrived
    <3> QED BY <3>1, <3>2, <2>1, <1>3 DEF Spoil
  <2> QED BY <2>2, <2>3
<1> QED BY <1>7, <1>8, <1>9 DEF RebuildCovers

LEMMA AloneInvIsInductive == SearchSpec => []AloneInv
<1>1. SearchInit => AloneInv
  BY DEF SearchInit, AloneInv
<1>2. SearchInv /\ AloneInv /\ [SearchNext]_searchVars => AloneInv'
  <2> SUFFICES ASSUME SearchInv, AloneInv, [SearchNext]_searchVars PROVE AloneInv'
    OBVIOUS
  <2>1. ASSUME NEW w \in Works, NEW isReady \in BOOLEAN, ChangeWork(w, isReady) PROVE AloneInv'
    BY <2>1, ChangesKeepAloneInv
  <2>2. ASSUME NEW c \in Clients, Proceed(c) PROVE AloneInv'
    BY <2>2, StepsAsideKeepAloneInv, DeletionsKeepAloneInv, BatchesKeepAloneInv, UploadsKeepAloneInv,
       RecordsKeepAloneInv DEF Proceed
  <2>3. ASSUME NEW c \in Clients, Start(c) \/ RefuseAlias(c) \/ Stop(c) \/ Perish(c) PROVE AloneInv'
    BY <2>3, StartKeepsAloneInv, StepsAsideKeepAloneInv
  <2>4. CASE RemoveCoverage
    BY <2>4 DEF RemoveCoverage, server, AloneInv, RebuildCovers, Covers, Covered, At, Index, InHand
  <2>5. CASE UNCHANGED searchVars
    BY <2>5 DEF searchVars, database, server, AloneInv, RebuildCovers, Covers, Covered, At, Index, InHand
  <2> QED BY <2>1, <2>2, <2>3, <2>4, <2>5 DEF SearchNext
<1> QED BY <1>1, <1>2, SearchInvIsInductive, PTL DEF SearchSpec

FaultsCounted == faults \in Nat

LEMMA FaultsAreCounted == SearchSpec => []FaultsCounted
<1>1. SearchInit => FaultsCounted
  BY DEF SearchInit, FaultsCounted
<1>2. FaultsCounted /\ [SearchNext]_searchVars => FaultsCounted'
  <2> SUFFICES ASSUME faults \in Nat, SearchNext \/ UNCHANGED searchVars PROVE faults' \in Nat
    BY DEF FaultsCounted
  <2>1. ASSUME NEW c \in Clients, Proceed(c) PROVE faults' \in Nat
    BY <2>1 DEF Proceed, FindIndex, DeleteIndex, CreateIndex, FindAlias, PutAlias, TransferAlias,
       ClearRecords, ReadBatch, Upload, RetryUpload, Record, RecordAs, EndRun
  <2>2. ASSUME NEW c \in Clients, Start(c) \/ RefuseAlias(c) \/ Stop(c) \/ Perish(c) PROVE faults' \in Nat
    <3>1. faults' \in {faults, faults + 1}
      BY <2>2 DEF Start, RefuseAlias, Stop, Perish
    <3> QED BY <3>1
  <2>3. ASSUME NEW w \in Works, NEW isReady \in BOOLEAN, ChangeWork(w, isReady) PROVE faults' \in Nat
    BY <2>3 DEF ChangeWork
  <2> QED BY <2>1, <2>2, <2>3 DEF SearchNext, RemoveCoverage, searchVars
<1> QED BY <1>1, <1>2, PTL DEF SearchSpec

\* Only the end of its run, or its death, makes a process that covers works stop.
LEMMA RunsEndAtTheirEnd ==
  ASSUME SearchInv, AloneInv, FaultsCounted, [SearchNext]_searchVars,
         NEW c \in alone, At(c, "running"), At(c, "down")', faults' = faults
  PROVE  EndRun(c)
<1>1. c \in Clients /\ client[c] \in Processes /\ \A d \in Clients \ {c} : At(d, "down")
  BY DEF AloneInv, SearchInv, SearchTypeOK
<1>2. ~At(c, "down") /\ client'[c] # client[c]
  BY DEF At
<1>3. ASSUME NEW w \in Works, NEW isReady \in BOOLEAN, ChangeWork(w, isReady) PROVE FALSE
  <2>1. client' = SpoilInHand(Clients, {w})
    BY <1>3 DEF ChangeWork
  <2>2. client'[c].step = client[c].step
    BY <1>1, <2>1, SpoiledHands
  <2> QED BY <2>2 DEF At
<1>4. ~RemoveCoverage /\ ~UNCHANGED searchVars
  BY <1>2 DEF RemoveCoverage, searchVars
<1>5. PICK d \in Clients : Start(d) \/ Proceed(d) \/ RefuseAlias(d) \/ Stop(d) \/ Perish(d)
  BY <1>3, <1>4 DEF SearchNext
<1>6. CASE d # c
  <2>1. Start(d)
    BY <1>1, <1>5, <1>6 DEF Proceed, FindIndex, DeleteIndex, CreateIndex, FindAlias, PutAlias, TransferAlias,
       ClearRecords, ReadBatch, Upload, RetryUpload, Record, RecordAs, EndRun, RefuseAlias, Stop, Perish, At
  <2>2. client'[c] = client[c]
    BY <1>1, <1>6, <2>1 DEF Start, Become, SearchInv, SearchTypeOK
  <2> QED BY <1>2, <2>2
<1>7. CASE d = c
  <2>1. ReadBatch(c) \/ EndRun(c) \/ Perish(c)
    BY <1>5, <1>7 DEF Start, Proceed, FindIndex, DeleteIndex, CreateIndex, FindAlias, PutAlias, TransferAlias,
       ClearRecords, Upload, RetryUpload, Record, RecordAs, RefuseAlias, Stop, At
  <2>2. ~ReadBatch(c)
    <3> SUFFICES ASSUME ReadBatch(c) PROVE FALSE
      OBVIOUS
    <3>1. PICK b \in SUBSET NeedsCoverage(c) : Become(c, [client[c] EXCEPT
              !.tried = @ \cup b,
              !.hand = [w \in Works |-> IF w \in b THEN "current" ELSE "none"],
              !.step = "uploading"])
      BY DEF ReadBatch
    <3>2. client'[c].step = "uploading"
      BY <1>1, <3>1 DEF Become, SearchInv, SearchTypeOK, Processes
    <3> QED BY <3>2 DEF At
  <2>3. ~Perish(c)
    BY DEF Perish, FaultsCounted
  <2> QED BY <2>1, <2>2, <2>3
<1> QED BY <1>6, <1>7

(* A rebuild during which no other client is started leaves every Work it counts as    *)
(* covered in the index as it is, but for those that changed while their document was  *)
(* being uploaded, whatever state the records and the index were in when it began:     *)
(* RebuildSearchIndexScript.do_run.                                                     *)
THEOREM RebuildsRepairTheIndex == SearchSpec => RebuildsRepair
<1> DEFINE A == \A c \in alone :
                  (client[c].job = "rebuild" /\ At(c, "running") /\ At(c, "down")' /\ faults' = faults)
                  => \A w \in Works : ready[w] /\ record'[w] = "success"
                                      => \/ doc[Index(c)][w] = "current"
                                         \/ doc[Index(c)][w] = "stale" /\ w \in drifted
<1>1. SearchInv /\ AloneInv /\ FaultsCounted /\ [SearchNext]_searchVars => [A]_searchVars
  <2> SUFFICES ASSUME SearchInv, AloneInv, FaultsCounted, [SearchNext]_searchVars,
                      NEW c \in alone, client[c].job = "rebuild", At(c, "running"), At(c, "down")', faults' = faults,
                      NEW w \in Works, record'[w] = "success"
               PROVE  Covered(c, w)
    BY DEF Covered
  <2>1. EndRun(c)
    BY RunsEndAtTheirEnd
  <2>2. record[w] = "success" /\ ~client[c].cleared
    BY <2>1 DEF EndRun
  <2> QED BY <2>2 DEF AloneInv, RebuildCovers, Covers, At
<1>2. SearchSpec => [][A]_searchVars
  <2> HIDE DEF A
  <2> QED BY <1>1, SearchInvIsInductive, AloneInvIsInductive, FaultsAreCounted, PTL DEF SearchSpec
<1> QED BY <1>2 DEF RebuildsRepair

-----------------------------------------------------------------------------
(***************************************************************************)
(* Facets and the links that change them.                                  *)
(***************************************************************************)
\* A set of naturals that is not empty has a least one.
LEMMA LeastPosition ==
  ASSUME NEW S \in SUBSET Nat, S # {}
  PROVE  \E n \in S : \A j \in S : n <= j
<1>1. PICK n \in S : \A j \in S : ~ (<<j, n>> \in OpToRel(<, Nat))
  BY NatLessThanWellFounded, WFMin, Zenon
<1>2. \A j \in S : ~ (j < n)
  BY <1>1 DEF OpToRel
<1> QED BY <1>2

FacetKinds == {"page", "sorted", "database", "search", "groups"}
FacetFields == FacetGroups \cup {"entrypoint", "max_age", "media", "language", "min_score"}

\* What a faceting object of a class is, if it was made from a request.
SoundFacets(kind, c, f) ==
  /\ DOMAIN f = FacetFields
  /\ f.entrypoint = LoadEntryPoint(kind, c, f.entrypoint)
  /\ f.max_age = LoadMaxCacheAge(f.max_age)
  /\ kind # "search" => f.media = NoValue /\ f.language = NoValue /\ f.min_score = NoValue
  /\ kind = "search" => (f.min_score = NoValue => f.order = "relevance")
  /\ kind = "groups" => \A g \in FacetGroups : f[g] = NoValue
  /\ kind # "groups" => /\ \A g \in FacetGroups : f[g] \in AvailableFacets(kind, c, g)
                        /\ f.available = AvailableUnderHolds(kind, c, f.available)

LEMMA FieldsOfFacets ==
  /\ DOMAIN Unnamed = FacetFields /\ DOMAIN Refused = FacetFields
  /\ \A x \in FacetFields : Unnamed[x] = NoValue
  /\ FacetGroups \subseteq FacetFields /\ FacetGroups = {"order", "available", "collection"}
BY DEF Unnamed, Refused, FacetFields, FacetGroups

\* Nothing that is configured is nothing, or a refusal.
LEMMA NamesAreValues ==
  ASSUME NEW g \in FacetGroups
  PROVE  /\ \A v \in FacetNames[g] \cup {"relevance", DefaultSortOrder} : v # NoValue /\ v # Refused.order
         /\ {"all", "full", "now", "series", "relevance", "work_id"} \cap {NoValue, Refused.order} = {}
<1>1. Refused.order = "problem detail"
  BY DEF Refused, Unnamed, FacetGroups
<1>2. NoValue \notin {"relevance"} /\ NoValue # "problem detail"
  BY <1>1, FacetsAssumption DEF Untitled
<1>3. /\ "order" \in FacetGroups /\ "available" \in FacetGroups /\ "collection" \in FacetGroups
      /\ "series" \in FacetNames["order"] /\ "work_id" \in FacetNames["order"]
      /\ "all" \in FacetNames["available"] /\ "now" \in FacetNames["available"]
      /\ "full" \in FacetNames["collection"]
  BY DEF FacetGroups, FacetNames
<1>4. \A h \in FacetGroups : NoValue \notin FacetNames[h]
  BY FacetsAssumption
<1>5. \A v \in FacetNames[g] : v # "problem detail"
  <2>1. g = "order" => FacetNames[g] = {"title", "author", "last_update", "added", "series", "work_id", "random"}
    BY DEF FacetNames
  <2>2. g = "available" => FacetNames[g] = {"all", "now", "always", "not_now"}
    BY DEF FacetNames
  <2>3. g = "collection" => FacetNames[g] = {"full", "featured"}
    BY DEF FacetNames
  <2> QED BY <2>1, <2>2, <2>3 DEF FacetGroups
<1> QED BY <1>1, <1>2, <1>3, <1>4, <1>5 DEF DefaultSortOrder

\* The first order that the database can give is one of its orders.
LEMMA FirstDatabaseOrderIsOne ==
  ASSUME NEW orders, orders \in Seq(FacetNames.order)
  PROVE  FirstDatabaseOrder(orders) \in DatabaseOrders
<1> DEFINE usable == {i \in DOMAIN orders : orders[i] \in DatabaseOrders}
<1>1. CASE usable # {}
  <2>1. \E n \in usable : \A j \in usable : n <= j
    <3>1. usable \in SUBSET Nat
      OBVIOUS
    <3> QED BY <1>1, <3>1, LeastPosition
  <2> DEFINE first == CHOOSE i \in usable : \A j \in usable : i <= j
  <2>2. first \in usable
    BY <2>1
  <2>3. FirstDatabaseOrder(orders) = orders[first]
    BY <1>1 DEF FirstDatabaseOrder
  <2> HIDE DEF first
  <2> QED BY <2>2, <2>3
<1>2. CASE usable = {}
  BY <1>2 DEF FirstDatabaseOrder, DatabaseOrders
<1> QED BY <1>1, <1>2

\* What can be asked for is a name, and not that of a refusal.
LEMMA AvailableFacetsAreNames ==
  ASSUME NEW kind \in FacetKinds, NEW c \in Configs, NEW g \in FacetGroups
  PROVE  /\ \A v \in AvailableFacets(kind, c, g) : v # NoValue /\ v # Refused.order
         /\ DefaultFacet(kind, c, g) # NoValue
         /\ kind # "database" => DefaultFacet(kind, c, g) \in AvailableFacets(kind, c, g)
<1>1. c.enabled[g] \in Seq(FacetNames[g]) /\ c.default[g] \in FacetNames[g]
  BY FacetsAssumption
<1>2. ToSet(c.enabled[g]) \subseteq FacetNames[g]
  BY <1>1 DEF ToSet
<1>3. ASSUME kind = "database", g = "order" PROVE DefaultFacet(kind, c, g) \in FacetNames[g]
  <2>1. FirstDatabaseOrder(c.enabled[g]) \in DatabaseOrders
    BY <1>1, <1>3, FirstDatabaseOrderIsOne
  <2>2. DatabaseOrders \subseteq FacetNames[g]
    BY <1>3 DEF DatabaseOrders, FacetNames
  <2> QED BY <1>1, <1>3, <2>1, <2>2 DEF DefaultFacet
<1>4. ASSUME ~(kind = "database" /\ g = "order")
      PROVE  DefaultFacet(kind, c, g) \in FacetNames[g] \cup {"relevance", DefaultSortOrder}
  <2>1. CASE kind = "search"
    BY <2>1 DEF DefaultFacet, FacetNames, FacetGroups
  <2>2. CASE kind # "search"
    BY <1>1, <1>4, <2>2 DEF DefaultFacet
  <2> QED BY <2>1, <2>2
<1>5. DefaultFacet(kind, c, g) \in FacetNames[g] \cup {"relevance", DefaultSortOrder}
  BY <1>3, <1>4
<1>6. AvailableFacets(kind, c, g) \subseteq FacetNames[g] \cup {"relevance", DefaultSortOrder}
  BY <1>2, <1>5 DEF AvailableFacets
<1> QED BY <1>5, <1>6, NamesAreValues DEF AvailableFacets

\* The constructors keep what they are given, but for what is hidden.
LEMMA ConstructorsKeepFacets ==
  ASSUME NEW kind \in FacetKinds, kind # "groups", NEW c \in Configs, NEW values, DOMAIN values = FacetFields,
         \A g \in FacetGroups : values[g] # NoValue
  PROVE  LET made == MakeFacets(kind, c, values)
         IN /\ DOMAIN made = FacetFields
            /\ made.entrypoint = values.entrypoint /\ made.max_age = values.max_age
            /\ made.order = values.order /\ made.collection = values.collection
            /\ made.available = AvailableUnderHolds(kind, c, values.available)
            /\ kind # "search" => made.media = NoValue /\ made.language = NoValue /\ made.min_score = NoValue
            /\ kind = "search" =>
                 /\ made.media = values.media /\ made.language = values.language
                 /\ values.min_score # NoValue => made.min_score = values.min_score
                 /\ values.min_score = NoValue =>
                      made.min_score = IF values.order = "relevance" THEN NoValue ELSE DefaultMinScore
BY DEF MakeFacets, Or, FacetFields, FacetGroups

LEMMA HoldsHideOnce ==
  ASSUME NEW kind, NEW c, NEW v
  PROVE  /\ AvailableUnderHolds(kind, c, AvailableUnderHolds(kind, c, v)) = AvailableUnderHolds(kind, c, v)
         /\ AvailableUnderHolds(kind, c, v) \in {v, "now"}
         /\ AvailableUnderHolds(kind, c, v) # v => v = "all" /\ "now" \in AvailableFacets(kind, c, "available")
BY DEF AvailableUnderHolds

LEMMA EntryPointsAreLoaded ==
  ASSUME NEW kind, NEW c \in Configs, NEW name
  PROVE  /\ LoadEntryPoint(kind, c, LoadEntryPoint(kind, c, name)) = LoadEntryPoint(kind, c, name)
         /\ name \in ToSet(Selectable(kind, c.entries)) => LoadEntryPoint(kind, c, name) = name
<1> DEFINE valid == Selectable(kind, c.entries)
           loaded == LoadEntryPoint(kind, c, name)
<1>1. valid \in Seq(EntryPoints)
  <2>1. c.entries \in Seq(EntryPoints)
    BY FacetsAssumption
  <2>2. <<Everything>> \in Seq(EntryPoints)
    BY DEF EntryPoints
  <2>3. <<Everything>> \o c.entries \in Seq(EntryPoints)
    BY <2>1, <2>2
  <2> QED BY <2>1, <2>3 DEF Selectable
<1>2. valid = <<>> => ToSet(valid) = {}
  BY DEF ToSet
<1>3. valid # <<>> => Head(valid) \in ToSet(valid)
  BY <1>1 DEF ToSet
<1>4. \A n : LoadEntryPoint(kind, c, n) =
               IF valid = <<>> THEN NoValue
               ELSE IF n \in ToSet(valid) THEN n
               ELSE IF kind = "search" THEN Everything ELSE Head(valid)
  BY DEF LoadEntryPoint
<1>5. CASE valid = <<>>
  BY <1>2, <1>4, <1>5
<1>6. CASE valid # <<>>
  <2> HIDE DEF valid
  <2>1. loaded \in ToSet(valid) \/ (kind = "search" /\ loaded = Everything)
    BY <1>3, <1>4, <1>6
  <2>2. LoadEntryPoint(kind, c, loaded) = loaded
    BY <1>4, <1>6, <2>1
  <2> QED BY <1>4, <1>6, <2>2 DEF valid
<1> QED BY <1>5, <1>6

\* A request is refused, or says what it asks for.
LEMMA RequestsAreAnswered ==
  ASSUME NEW kind \in FacetKinds, kind # "groups", NEW c \in Configs, NEW args, DOMAIN args = FacetFields
  PROVE  LET made == FromRequest(kind, c, args)
             chosen(g) == Or(args[g], DefaultFacet(kind, c, g))
         IN /\ (\E g \in FacetGroups : chosen(g) \notin AvailableFacets(kind, c, g)) => made = Refused
            /\ (\A g \in FacetGroups : chosen(g) \in AvailableFacets(kind, c, g)) =>
                 /\ made # Refused /\ DOMAIN made = FacetFields
                 /\ made.entrypoint = LoadEntryPoint(kind, c, args.entrypoint)
                 /\ made.max_age = LoadMaxCacheAge(args.max_age)
                 /\ made.order = chosen("order") /\ made.collection = chosen("collection")
                 /\ made.available = AvailableUnderHolds(kind, c, chosen("available"))
                 /\ kind # "search" => made.media = NoValue /\ made.language = NoValue /\ made.min_score = NoValue
                 /\ kind = "search" =>
                      /\ made.media = args.media /\ made.language = Languages(args.language)
                      /\ args.min_score # NoValue => made.min_score = args.min_score
                      /\ args.min_score = NoValue =>
                           made.min_score = IF chosen("order") = "relevance" THEN NoValue ELSE DefaultMinScore
<1> DEFINE chosen(g) == Or(args[g], DefaultFacet(kind, c, g))
           made == FromRequest(kind, c, args)
<1>1. (\E g \in FacetGroups : chosen(g) \notin AvailableFacets(kind, c, g)) => made = Refused
  BY DEF FromRequest
<1>2. ASSUME \A g \in FacetGroups : chosen(g) \in AvailableFacets(kind, c, g)
      PROVE  /\ made # Refused /\ DOMAIN made = FacetFields
             /\ made.entrypoint = LoadEntryPoint(kind, c, args.entrypoint)
             /\ made.max_age = LoadMaxCacheAge(args.max_age)
             /\ made.order = chosen("order") /\ made.collection = chosen("collection")
             /\ made.available = AvailableUnderHolds(kind, c, chosen("available"))
             /\ kind # "search" => made.media = NoValue /\ made.language = NoValue /\ made.min_score = NoValue
             /\ kind = "search" =>
                  /\ made.media = args.media /\ made.language = Languages(args.language)
                  /\ args.min_score # NoValue => made.min_score = args.min_score
                  /\ args.min_score = NoValue =>
                       made.min_score = IF chosen("order") = "relevance" THEN NoValue ELSE DefaultMinScore
  <2> DEFINE values == [args EXCEPT
                          !.entrypoint = LoadEntryPoint(kind, c, args.entrypoint),
                          !.max_age = LoadMaxCacheAge(args.max_age),
                          !.language = Languages(args.language),
                          !.order = chosen("order"), !.available = chosen("available"),
                          !.collection = chosen("collection")]
  <2>1. made = MakeFacets(kind, c, values)
    BY <1>2 DEF FromRequest
  <2>2. /\ DOMAIN values = FacetFields
        /\ values.entrypoint = LoadEntryPoint(kind, c, args.entrypoint)
        /\ values.max_age = LoadMaxCacheAge(args.max_age)
        /\ values.language = Languages(args.language) /\ values.media = args.media
        /\ values.min_score = args.min_score
        /\ values.order = chosen("order") /\ values.available = chosen("available")
        /\ values.collection = chosen("collection")
    BY DEF FacetFields, FacetGroups
  <2>3. \A g \in FacetGroups : values[g] = chosen(g) /\ values[g] # NoValue /\ values[g] # Refused.order
    BY <1>2, <2>2, AvailableFacetsAreNames DEF FacetGroups
  <2> HIDE DEF values, chosen
  <2>4. made.order # Refused.order
    BY <2>1, <2>2, <2>3, ConstructorsKeepFacets, FieldsOfFacets
  <2> QED BY <2>1, <2>2, <2>3, <2>4, ConstructorsKeepFacets
<1> QED BY <1>1, <1>2

\* What answers a request is sound.
LEMMA AnswersAreSound ==
  ASSUME NEW kind \in FacetKinds, NEW c \in Configs, NEW args, DOMAIN args = FacetFields,
         FromRequest(kind, c, args) # Refused
  PROVE  SoundFacets(kind, c, FromRequest(kind, c, args))
<1> DEFINE made == FromRequest(kind, c, args)
<1>1. LoadMaxCacheAge(LoadMaxCacheAge(args.max_age)) = LoadMaxCacheAge(args.max_age)
  BY FacetsAssumption DEF LoadMaxCacheAge
<1>2. LoadEntryPoint(kind, c, LoadEntryPoint(kind, c, args.entrypoint)) = LoadEntryPoint(kind, c, args.entrypoint)
  BY EntryPointsAreLoaded
<1>3. CASE kind = "groups"
  <2>1. made = [Unnamed EXCEPT !.entrypoint = LoadEntryPoint(kind, c, args.entrypoint),
                               !.max_age = LoadMaxCacheAge(args.max_age)]
    BY <1>3 DEF FromRequest, MakeFacets, FacetFields, FacetGroups
  <2> QED BY <1>1, <1>2, <1>3, <2>1, FieldsOfFacets DEF SoundFacets, FacetFields, FacetGroups
<1>4. CASE kind # "groups"
  <2> DEFINE chosen(g) == Or(args[g], DefaultFacet(kind, c, g))
  <2>1. \A g \in FacetGroups : chosen(g) \in AvailableFacets(kind, c, g)
    BY <1>4, RequestsAreAnswered
  <2>2. /\ DOMAIN made = FacetFields
        /\ made.entrypoint = LoadEntryPoint(kind, c, args.entrypoint)
        /\ made.max_age = LoadMaxCacheAge(args.max_age)
        /\ made.order = chosen("order") /\ made.collection = chosen("collection")
        /\ made.available = AvailableUnderHolds(kind, c, chosen("available"))
        /\ kind # "search" => made.media = NoValue /\ made.language = NoValue /\ made.min_score = NoValue
        /\ kind = "search" => (made.min_score = NoValue => made.order = "relevance")
    <3>1. DefaultMinScore # NoValue
      BY FacetsAssumption DEF DefaultMinScore
    <3> QED BY <1>4, <2>1, <3>1, RequestsAreAnswered
  <2> HIDE DEF chosen, made
  <2>3. \A g \in FacetGroups : made[g] \in AvailableFacets(kind, c, g)
    BY <2>1, <2>2, HoldsHideOnce DEF FacetGroups
  <2>4. made.available = AvailableUnderHolds(kind, c, made.available)
    BY <2>2, HoldsHideOnce
  <2> QED BY <1>1, <1>2, <1>4, <2>2, <2>3, <2>4 DEF SoundFacets, made
<1> QED BY <1>3, <1>4

\* What a link asks for, of a selection of facets, when the configuration was c.
Asks(kind, c, args, w) ==
  /\ DOMAIN args = FacetFields /\ DOMAIN w = FacetFields
  /\ args.order = w.order /\ args.collection = w.collection
  /\ args.available = AvailableUnderHolds(kind, c, w.available)
  /\ args.entrypoint = w.entrypoint /\ args.max_age = w.max_age
  /\ args.media = w.media /\ args.language = NoValue
  /\ w.order # "relevance" => args.min_score = w.min_score
  /\ kind = "search" => (w.min_score = NoValue => w.order = "relevance")
  /\ kind # "search" => w.media = NoValue /\ w.min_score = NoValue
  /\ w.max_age = LoadMaxCacheAge(w.max_age)
  /\ \A g \in FacetGroups : w[g] \in AvailableFacets(kind, c, g)
  /\ w.entrypoint = LoadEntryPoint(kind, c, w.entrypoint)

\* What is wanted of it when the configuration is c.
WantedOf(kind, c, w) ==
  [w EXCEPT !.available = AvailableUnderHolds(kind, c, w.available),
            !.language = IF kind = "search" /\ AcceptLanguage # {} THEN AcceptLanguage ELSE NoValue]

LEMMA LinksAreAnswered ==
  ASSUME NEW kind \in FacetKinds, kind # "groups", NEW before \in Configs, NEW c \in Configs,
         NEW args, NEW w, Asks(kind, before, args, w)
  PROVE  LET made == FromRequest(kind, c, args)
             wanted == WantedOf(kind, c, w)
         IN /\ made # Refused =>
                 /\ made.order = wanted.order /\ made.collection = wanted.collection
                 /\ made.available = wanted.available \/ (wanted.available = "all" /\ made.available = "now")
                 /\ made.entrypoint = wanted.entrypoint \/ wanted.entrypoint \notin ToSet(Selectable(kind, c.entries))
            /\ c = before => /\ made # Refused
                             /\ Ordered(made) = Ordered(wanted) /\ Scoped(made) = Scoped(wanted)
<1> DEFINE made == FromRequest(kind, c, args)
           wanted == WantedOf(kind, c, w)
           chosen(g) == Or(args[g], DefaultFacet(kind, c, g))
           hidden == AvailableUnderHolds(kind, before, w.available)
<1>1. /\ DOMAIN wanted = FacetFields /\ wanted.order = w.order /\ wanted.collection = w.collection
      /\ wanted.entrypoint = w.entrypoint /\ wanted.max_age = w.max_age /\ wanted.media = w.media
      /\ wanted.min_score = w.min_score
      /\ wanted.available = AvailableUnderHolds(kind, c, w.available)
      /\ wanted.language = IF kind = "search" /\ AcceptLanguage # {} THEN AcceptLanguage ELSE NoValue
  BY DEF Asks, WantedOf, FacetFields, FacetGroups
<1>2. hidden \in {w.available, "now"} /\ (hidden # w.available => w.available = "all")
      /\ hidden \in AvailableFacets(kind, before, "available")
  BY HoldsHideOnce DEF Asks, FacetGroups
<1>3. w.order # NoValue /\ w.collection # NoValue /\ hidden # NoValue
  BY <1>2, AvailableFacetsAreNames DEF Asks, FacetGroups
<1>4. chosen("order") = w.order /\ chosen("collection") = w.collection /\ chosen("available") = hidden
  BY <1>3 DEF Asks, Or
<1> HIDE DEF wanted, chosen, hidden
<1>5. ASSUME made # Refused
      PROVE  /\ made.order = wanted.order /\ made.collection = wanted.collection
             /\ made.available = AvailableUnderHolds(kind, c, hidden)
             /\ made.entrypoint = LoadEntryPoint(kind, c, w.entrypoint)
             /\ made.max_age = w.max_age
             /\ kind # "search" => made.media = NoValue /\ made.language = NoValue /\ made.min_score = NoValue
             /\ kind = "search" =>
                  /\ made.media = w.media /\ made.language = wanted.language
                  /\ w.order # "relevance" => made.min_score = w.min_score
  <2>1. \A g \in FacetGroups : chosen(g) \in AvailableFacets(kind, c, g)
    BY <1>5, RequestsAreAnswered DEF Asks, chosen
  <2>2. NoValue # "all"
    BY NamesAreValues DEF FacetGroups
  <2>3. kind = "search" => Languages(args.language) = wanted.language
    BY <1>1, <2>2 DEF Asks, Languages
  <2>4. kind = "search" /\ w.order # "relevance" => args.min_score = w.min_score /\ w.min_score # NoValue
    BY DEF Asks
  <2>5. args.entrypoint = w.entrypoint /\ LoadMaxCacheAge(args.max_age) = w.max_age /\ args.media = w.media
        /\ DOMAIN args = FacetFields
    BY DEF Asks
  <2>6. /\ made.entrypoint = LoadEntryPoint(kind, c, args.entrypoint)
        /\ made.max_age = LoadMaxCacheAge(args.max_age)
        /\ made.order = chosen("order") /\ made.collection = chosen("collection")
        /\ made.available = AvailableUnderHolds(kind, c, chosen("available"))
        /\ kind # "search" => made.media = NoValue /\ made.language = NoValue /\ made.min_score = NoValue
        /\ kind = "search" =>
             /\ made.media = args.media /\ made.language = Languages(args.language)
             /\ args.min_score # NoValue => made.min_score = args.min_score
    BY <2>1, <2>5, RequestsAreAnswered DEF chosen
  <2> QED BY <1>1, <1>4, <2>3, <2>4, <2>5, <2>6
<1>6. ASSUME made # Refused
      PROVE  /\ made.available = wanted.available \/ (wanted.available = "all" /\ made.available = "now")
             /\ made.entrypoint = wanted.entrypoint \/ wanted.entrypoint \notin ToSet(Selectable(kind, c.entries))
  <2>1. made.available = wanted.available \/ (wanted.available = "all" /\ made.available = "now")
    <3>1. CASE hidden = w.available
      BY <1>1, <1>5, <1>6, <3>1
    <3>2. CASE hidden # w.available
      <4>1. hidden = "now" /\ w.available = "all"
        BY <1>2, <3>2
      <4>2. AvailableUnderHolds(kind, c, "now") = "now" /\ AvailableUnderHolds(kind, c, "all") \in {"all", "now"}
        BY DEF AvailableUnderHolds
      <4> QED BY <1>1, <1>5, <1>6, <4>1, <4>2
    <3> QED BY <3>1, <3>2
  <2> QED BY <1>1, <1>5, <1>6, <2>1, EntryPointsAreLoaded
<1>7. ASSUME c = before
      PROVE  made # Refused /\ Ordered(made) = Ordered(wanted) /\ Scoped(made) = Scoped(wanted)
  <2>1. \A g \in FacetGroups : chosen(g) \in AvailableFacets(kind, c, g)
    BY <1>2, <1>4, <1>7 DEF Asks, FacetGroups
  <2>2. made # Refused
    BY <2>1, RequestsAreAnswered DEF Asks, chosen
  <2>3. made.available = wanted.available
    BY <1>1, <1>5, <1>7, <2>2, HoldsHideOnce DEF hidden
  <2>4. made.entrypoint = wanted.entrypoint
    BY <1>1, <1>5, <1>7, <2>2 DEF Asks
  <2>5. made.media = wanted.media /\ made.language = wanted.language
        /\ (made.order # "relevance" => made.min_score = wanted.min_score)
    BY <1>1, <1>5, <2>2 DEF Asks
  <2>6. made.order = wanted.order /\ made.collection = wanted.collection /\ made.max_age = wanted.max_age
    BY <1>1, <1>5, <2>2
  <2> QED BY <2>2, <2>3, <2>4, <2>5, <2>6 DEF Ordered, Scoped
<1> QED BY <1>5, <1>6, <1>7 DEF made, wanted

\* Whoever chooses nothing is refused by the database only, which may not have the
\* default.
LEMMA DefaultsAreAnswered ==
  ASSUME NEW kind \in FacetKinds, NEW c \in Configs, FromRequest(kind, c, Unnamed) = Refused
  PROVE  /\ kind = "database"
         /\ \/ \E g \in FacetGroups : c.default[g] \notin ToSet(c.enabled[g])
            \/ ToSet(c.enabled.order) \cap DatabaseOrders = {}
<1>1. kind # "groups"
  <2> SUFFICES ASSUME kind = "groups" PROVE FALSE
    OBVIOUS
  <2>1. FromRequest(kind, c, Unnamed).order = NoValue
    BY FieldsOfFacets DEF FromRequest, MakeFacets, FacetFields, FacetGroups
  <2>2. Refused.order # NoValue
    BY FacetsAssumption
  <2> QED BY <2>1, <2>2
<1>2. \A g \in FacetGroups : Or(Unnamed[g], DefaultFacet(kind, c, g)) = DefaultFacet(kind, c, g)
  BY FieldsOfFacets DEF Or
<1>3. PICK g \in FacetGroups : DefaultFacet(kind, c, g) \notin AvailableFacets(kind, c, g)
  BY <1>1, <1>2, RequestsAreAnswered, FieldsOfFacets
<1>4. kind = "database"
  BY <1>3, AvailableFacetsAreNames
<1>5. CASE g # "order"
  BY <1>3, <1>4, <1>5 DEF DefaultFacet, AvailableFacets
<1>6. CASE g = "order"
  <2> DEFINE orders == c.enabled.order
             usable == {i \in DOMAIN orders : orders[i] \in DatabaseOrders}
  <2>0. orders \in Seq(FacetNames.order)
    BY FacetsAssumption DEF FacetGroups
  <2>1. ASSUME c.default[g] \in ToSet(orders), usable # {} PROVE FALSE
    <3>1. CASE c.default[g] \in DatabaseOrders
      BY <1>3, <1>4, <1>6, <2>1, <3>1 DEF DefaultFacet, AvailableFacets
    <3>2. CASE c.default[g] \notin DatabaseOrders
      <4>1. usable \in SUBSET Nat
        BY <2>0
      <4>2. \E n \in usable : \A j \in usable : n <= j
        BY <2>1, <4>1, LeastPosition
      <4> DEFINE first == CHOOSE i \in usable : \A j \in usable : i <= j
      <4>3. first \in usable
        BY <4>2
      <4>4. FirstDatabaseOrder(orders) = orders[first]
        BY <2>1 DEF FirstDatabaseOrder
      <4> HIDE DEF first
      <4>5. FirstDatabaseOrder(orders) \in ToSet(orders) \cap DatabaseOrders
        BY <4>3, <4>4 DEF ToSet
      <4> QED BY <1>3, <1>4, <1>6, <3>2, <4>5 DEF DefaultFacet, AvailableFacets
    <3> QED BY <3>1, <3>2
  <2>2. usable = {} => ToSet(orders) \cap DatabaseOrders = {}
    BY DEF ToSet
  <2> QED BY <1>4, <1>6, <2>1, <2>2
<1> QED BY <1>4, <1>5, <1>6

FacetsInv ==
  /\ feed.kind \in FacetKinds /\ config \in Configs
  /\ facets = Refused \/ SoundFacets(feed.kind, config, facets)
  /\ LinksLeadWhereTheySay

LEMMA RequestsKeepFacetsInv ==
  ASSUME FacetsInv, NEW args \in Requests, UNCHANGED <<feed, config>>,
         facets' = FromRequest(feed.kind, config, args),
         link' = [group |-> IF args = Unnamed THEN "start" ELSE "own", value |-> NoValue, from |-> NoValue, late |-> FALSE]
  PROVE  FacetsInv'
<1>1. DOMAIN args = FacetFields
  BY FacetsAssumption, FieldsOfFacets
<1>2. facets' = Refused \/ SoundFacets(feed.kind, config, facets')
  BY <1>1, AnswersAreSound DEF FacetsInv
<1>3. CASE args = Unnamed
  <2>1. facets' = Refused => /\ feed.kind = "database"
                             /\ \/ \E g \in FacetGroups : config.default[g] \notin ToSet(config.enabled[g])
                                \/ ToSet(config.enabled.order) \cap DatabaseOrders = {}
    BY <1>3, DefaultsAreAnswered DEF FacetsInv
  <2>2. link'.group = "start"
    BY <1>3
  <2> QED BY <1>2, <2>1, <2>2 DEF FacetsInv, LinksLeadWhereTheySay
<1>4. CASE args # Unnamed
  BY <1>2, <1>4 DEF FacetsInv, LinksLeadWhereTheySay
<1> QED BY <1>3, <1>4

\* The facets of a feed with what a link of it changes.
Selected(f, l) == IF l[1] = "page" THEN f ELSE [f EXCEPT ![l[1]] = l[2], !.media = NoValue]

LEMMA LinksKeepFacetsInv ==
  ASSUME FacetsInv, feed.kind # "groups", NEW c \in Configs, NEW l, NEW args, Follow(l, args, c),
         l[1] \notin {"own", "start"},
         Asks(feed.kind, config, args, Selected(facets, l))
  PROVE  FacetsInv'
<1> DEFINE w == Selected(facets, l)
<1> HIDE DEF w
<1>1. /\ facets' = FromRequest(feed.kind, c, args) /\ config' = c /\ feed' = feed
      /\ link' = [group |-> l[1], value |-> l[2], from |-> facets, late |-> c # config]
  BY DEF Follow
<1>2. facets' = Refused \/ SoundFacets(feed.kind, c, facets')
  BY <1>1, AnswersAreSound DEF FacetsInv, Asks, w
<1>3. Wanted' = WantedOf(feed.kind, c, w)
  <2>1. link'.group = l[1] /\ link'.value = l[2] /\ link'.from = facets
    BY <1>1
  <2>2. w = IF link'.group = "page" THEN link'.from
            ELSE [link'.from EXCEPT ![link'.group] = link'.value, !.media = NoValue]
    BY <2>1, Zenon DEF w, Selected
  <2> QED BY <1>1, <2>2, Zenon DEF Wanted, WantedOf
<1>4. /\ facets' # Refused =>
           /\ facets'.order = Wanted'.order /\ facets'.collection = Wanted'.collection
           /\ facets'.available = Wanted'.available \/ (Wanted'.available = "all" /\ facets'.available = "now")
           /\ facets'.entrypoint = Wanted'.entrypoint
                \/ Wanted'.entrypoint \notin ToSet(Selectable(feed.kind, c.entries))
      /\ c = config => /\ facets' # Refused
                       /\ Ordered(facets') = Ordered(Wanted') /\ Scoped(facets') = Scoped(Wanted')
  BY <1>1, <1>3, LinksAreAnswered DEF FacetsInv, w
<1>5. link'.group = l[1] /\ link'.late = (c # config)
  BY <1>1
<1>6. LinksLeadWhereTheySay'
  <2>1. link'.group \notin {"own", "start"}
    BY <1>5
  <2>2. CASE c # config
    BY <1>1, <1>4, <1>5, <2>1, <2>2 DEF LinksLeadWhereTheySay
  <2>3. CASE c = config
    BY <1>1, <1>4, <1>5, <2>1, <2>3 DEF LinksLeadWhereTheySay
  <2> QED BY <2>2, <2>3
<1> QED BY <1>1, <1>2, <1>6 DEF FacetsInv

LEMMA PagesKeepFacetsInv ==
  ASSUME FacetsInv, NEW c \in Configs, FollowPage(c)
  PROVE  FacetsInv'
<1>1. feed.kind # "groups" /\ Follow(<<"page", NoValue>>, Items(facets), c)
  BY DEF FollowPage, PageLinks
<1>2. SoundFacets(feed.kind, config, facets)
  BY <1>1 DEF FacetsInv, Follow
<1>3. Asks(feed.kind, config, Items(facets), facets)
  BY <1>1, <1>2 DEF Asks, Items, SoundFacets, FacetFields, FacetGroups
<1>4. Selected(facets, <<"page", NoValue>>) = facets
  BY DEF Selected
<1> QED BY <1>1, <1>3, <1>4, LinksKeepFacetsInv

\* A facet that is shown is a name of its group, and an entry point one of the feed's.
LEMMA FacetLinksAreKnown ==
  ASSUME FacetsInv, NEW l \in FacetLinks \cup EntryPointLinks
  PROVE  \/ feed.kind # "groups" /\ l[1] \in FacetGroups /\ l[2] \in AvailableFacets(feed.kind, config, l[1])
         \/ l[1] = "entrypoint" /\ l[2] \in ToSet(Selectable(feed.kind, config.entries))
<1>1. CASE l \in FacetLinks
  <2>1. feed.kind # "groups"
    BY <1>1 DEF FacetLinks
  <2>2. PICK g \in FacetGroups : l \in {g} \X (ChoiceIn(g) \ Untitled)
    BY <1>1 DEF FacetLinks
  <2>3. l[1] = g /\ l[2] \in AvailableFacets(feed.kind, config, g)
    BY <2>2 DEF ChoiceIn
  <2> QED BY <2>1, <2>3
<1>2. CASE l \in EntryPointLinks
  <2>1. ToSet(<<>>) = {}
    BY DEF ToSet
  <2>2. PICK e \in ToSet(IF feed.top THEN Selectable(feed.kind, config.entries) ELSE <<>>) : l = <<"entrypoint", e>>
    BY <1>2 DEF EntryPointLinks
  <2>3. e \in ToSet(Selectable(feed.kind, config.entries))
    BY <2>1, <2>2
  <2> QED BY <2>2, <2>3
<1> QED BY <1>1, <1>2

\* What a link of a feed that is not grouped asks for.
LEMMA FacetLinksAsk ==
  ASSUME NEW kind \in FacetKinds, kind # "groups", NEW c \in Configs, NEW f, SoundFacets(kind, c, f), NEW g, NEW v,
         \/ g \in FacetGroups /\ v \in AvailableFacets(kind, c, g) /\ kind # "search"
         \/ g = "entrypoint" /\ v \in ToSet(Selectable(kind, c.entries))
  PROVE  Asks(kind, c, Items(Navigate(kind, c, f, g, v)), [f EXCEPT ![g] = v, !.media = NoValue])
<1> DEFINE w == [f EXCEPT ![g] = v, !.media = NoValue]
           values == [f EXCEPT !.media = NoValue, !.language = NoValue, ![g] = v]
           made == MakeFacets(kind, c, values)
           args == Items(made)
<1>1. DOMAIN f = FacetFields
  BY DEF SoundFacets
<1>0. g \in FacetFields /\ g # "media" /\ g # "language" /\ "media" \in FacetFields /\ "language" \in FacetFields
  BY DEF FacetFields, FacetGroups
<1>2. /\ DOMAIN w = FacetFields /\ DOMAIN values = FacetFields
      /\ \A h \in FacetFields \ {"media", "language"} : values[h] = w[h]
      /\ values.media = NoValue /\ w.media = NoValue /\ values.language = NoValue
  BY <1>0, <1>1
<1>3. /\ \A h \in FacetFields \ {"media", g} : w[h] = f[h]
      /\ w[g] = v
  BY <1>0, <1>1
<1> HIDE DEF values, w
<1>4. \A h \in FacetGroups : w[h] \in AvailableFacets(kind, c, h)
  BY <1>3 DEF SoundFacets, FacetFields, FacetGroups
<1>5. \A h \in FacetGroups : values[h] # NoValue
  BY <1>2, <1>4, AvailableFacetsAreNames DEF FacetFields, FacetGroups
<1>6. w.entrypoint = LoadEntryPoint(kind, c, w.entrypoint)
  BY <1>3, EntryPointsAreLoaded DEF SoundFacets, FacetFields, FacetGroups
<1>7. w.max_age = LoadMaxCacheAge(w.max_age)
  BY <1>3 DEF SoundFacets, FacetFields, FacetGroups
<1>8. /\ kind = "search" => (w.min_score = NoValue => w.order = "relevance")
      /\ kind # "search" => w.min_score = NoValue
  BY <1>3 DEF SoundFacets, FacetFields, FacetGroups
<1>9. /\ DOMAIN args = FacetFields /\ args.language = NoValue
      /\ \A h \in FacetFields \ {"language"} : args[h] = made[h]
  BY <1>2, <1>5, ConstructorsKeepFacets DEF Items, FacetFields
<1>10. /\ made.entrypoint = values.entrypoint /\ made.max_age = values.max_age
       /\ made.order = values.order /\ made.collection = values.collection
       /\ made.available = AvailableUnderHolds(kind, c, values.available)
       /\ kind # "search" => made.media = NoValue /\ made.min_score = NoValue
       /\ kind = "search" =>
            /\ made.media = values.media
            /\ values.min_score # NoValue => made.min_score = values.min_score
  BY <1>2, <1>5, ConstructorsKeepFacets
<1> HIDE DEF made, args
<1>11. /\ values.entrypoint = w.entrypoint /\ values.max_age = w.max_age /\ values.order = w.order
       /\ values.collection = w.collection /\ values.available = w.available /\ values.min_score = w.min_score
  BY <1>2 DEF FacetFields, FacetGroups
<1>12. /\ args.entrypoint = made.entrypoint /\ args.max_age = made.max_age /\ args.order = made.order
       /\ args.collection = made.collection /\ args.available = made.available
       /\ args.media = made.media /\ args.min_score = made.min_score
  BY <1>9 DEF FacetFields, FacetGroups
<1>13. Asks(kind, c, args, w)
  BY <1>2, <1>4, <1>6, <1>7, <1>8, <1>9, <1>10, <1>11, <1>12 DEF Asks
<1> QED BY <1>13 DEF args, made, values, w, Navigate

\* Grouped feeds have entry points only.
LEMMA GroupedRequestsAreAnswered ==
  ASSUME NEW c, NEW args, DOMAIN args = FacetFields
  PROVE  LET made == FromRequest("groups", c, args)
         IN /\ DOMAIN made = FacetFields /\ made # Refused
            /\ \A h \in FacetFields \ {"entrypoint", "max_age"} : made[h] = NoValue
            /\ made.entrypoint = LoadEntryPoint("groups", c, args.entrypoint)
            /\ made.max_age = LoadMaxCacheAge(args.max_age)
<1> DEFINE made == [Unnamed EXCEPT !.entrypoint = LoadEntryPoint("groups", c, args.entrypoint),
                                   !.max_age = LoadMaxCacheAge(args.max_age)]
<1>1. FromRequest("groups", c, args) = made
  BY DEF FromRequest, MakeFacets, FacetFields, FacetGroups
<1>2. /\ DOMAIN made = FacetFields
      /\ \A h \in FacetFields \ {"entrypoint", "max_age"} : made[h] = NoValue
      /\ made.entrypoint = LoadEntryPoint("groups", c, args.entrypoint)
      /\ made.max_age = LoadMaxCacheAge(args.max_age)
  BY FieldsOfFacets DEF FacetFields
<1> HIDE DEF made
<1>3. made.order = NoValue /\ Refused.order # NoValue
  BY <1>2, FacetsAssumption DEF FacetFields, FacetGroups
<1> QED BY <1>1, <1>2, <1>3

LEMMA GroupedLinksKeepFacetsInv ==
  ASSUME FacetsInv, feed.kind = "groups", NEW c \in Configs, NEW e \in ToSet(Selectable("groups", config.entries)),
         NEW l, l = <<"entrypoint", e>>,
         Follow(l, Items(Navigate("groups", config, facets, "entrypoint", e)), c)
  PROVE  FacetsInv'
<1> DEFINE navigated == Navigate("groups", config, facets, "entrypoint", e)
           args == Items(navigated)
           w == Selected(facets, l)
<1>1. /\ SoundFacets("groups", config, facets) /\ facets' = FromRequest("groups", c, args)
      /\ config' = c /\ feed' = feed
      /\ link' = [group |-> "entrypoint", value |-> e, from |-> facets, late |-> c # config]
  BY DEF Follow, FacetsInv
<1>2. DOMAIN facets = FacetFields /\ (\A g \in FacetGroups : facets[g] = NoValue) /\ facets.max_age = LoadMaxCacheAge(facets.max_age)
      /\ facets.media = NoValue /\ facets.min_score = NoValue /\ facets.language = NoValue
  BY <1>1 DEF SoundFacets
<1>3. /\ DOMAIN args = FacetFields /\ args.entrypoint = e /\ args.max_age = facets.max_age
  <2>1. navigated = [Unnamed EXCEPT !.entrypoint = e, !.max_age = facets.max_age]
    BY <1>2 DEF Navigate, MakeFacets, FacetFields, FacetGroups
  <2> QED BY <2>1, FieldsOfFacets DEF Items, FacetFields
<1>4. Wanted' = WantedOf("groups", c, w)
  <2>1. w = [facets EXCEPT ![link'.group] = link'.value, !.media = NoValue]
    BY <1>1 DEF Selected
  <2>2. link'.group # "page" /\ link'.from = facets /\ feed'.kind = "groups" /\ config' = c
    BY <1>1
  <2> HIDE DEF w
  <2> QED BY <2>1, <2>2, Zenon DEF Wanted, WantedOf
<1>5. /\ DOMAIN w = FacetFields /\ w.entrypoint = e
      /\ \A h \in FacetFields \ {"entrypoint"} : w[h] = facets[h]
  BY <1>2 DEF Selected, FacetFields, FacetGroups
<1> HIDE DEF w, args, navigated
<1>6. AvailableUnderHolds("groups", c, NoValue) = NoValue
  BY NamesAreValues DEF AvailableUnderHolds, FacetGroups
<1>7. /\ Wanted'.order = NoValue /\ Wanted'.collection = NoValue /\ Wanted'.available = NoValue
      /\ Wanted'.entrypoint = e /\ Wanted'.max_age = facets.max_age
      /\ Wanted'.media = NoValue /\ Wanted'.language = NoValue
  BY <1>2, <1>4, <1>5, <1>6 DEF WantedOf, FacetFields, FacetGroups
<1>8. /\ facets' # Refused /\ DOMAIN facets' = FacetFields
      /\ facets'.order = NoValue /\ facets'.collection = NoValue /\ facets'.available = NoValue
      /\ facets'.entrypoint = LoadEntryPoint("groups", c, e) /\ facets'.max_age = facets.max_age
      /\ facets'.media = NoValue /\ facets'.language = NoValue
  BY <1>1, <1>2, <1>3, GroupedRequestsAreAnswered DEF FacetFields, FacetGroups
<1>9. SoundFacets("groups", c, facets')
  BY <1>1, <1>3, <1>8, AnswersAreSound DEF FacetKinds
<1>10. facets'.entrypoint = e \/ e \notin ToSet(Selectable("groups", c.entries))
  BY <1>8, EntryPointsAreLoaded
<1>11. c = config => facets'.entrypoint = e
  BY <1>8, EntryPointsAreLoaded DEF FacetsInv
<1>12. link'.group = "entrypoint" /\ link'.late = (c # config) /\ feed'.kind = "groups"
  BY <1>1
<1>13. LinksLeadWhereTheySay'
  <2>1. CASE c # config
    BY <1>1, <1>7, <1>8, <1>10, <1>12, <2>1 DEF LinksLeadWhereTheySay
  <2>2. CASE c = config
    <3>1. Ordered(facets') = Ordered(Wanted')
      BY <1>7, <1>8 DEF Ordered
    <3>2. Scoped(facets') = Scoped(Wanted')
      BY <1>7, <1>8, <1>11, <2>2 DEF Scoped
    <3> QED BY <1>8, <1>12, <2>2, <3>1, <3>2 DEF LinksLeadWhereTheySay
  <2> QED BY <2>1, <2>2
<1> QED BY <1>1, <1>9, <1>13 DEF FacetsInv

LEMMA FacetLinksKeepFacetsInv ==
  ASSUME FacetsInv, NEW c \in Configs, FollowFacet(c)
  PROVE  FacetsInv'
<1>1. PICK l \in FacetLinks \cup EntryPointLinks :
        Follow(l, Items(Navigate(feed.kind, config, facets, l[1], l[2])), c)
  BY DEF FollowFacet
<1>2. SoundFacets(feed.kind, config, facets)
  BY <1>1 DEF FacetsInv, Follow
<1>3. CASE feed.kind = "groups"
  <2>1. l[2] \in ToSet(Selectable("groups", config.entries)) /\ l = <<"entrypoint", l[2]>>
    <3>1. l \in EntryPointLinks
      BY <1>1, <1>3 DEF FacetLinks
    <3> QED BY <1>3, <3>1, FacetLinksAreKnown DEF EntryPointLinks
  <2> QED BY <1>1, <1>3, <2>1, GroupedLinksKeepFacetsInv
<1>4. CASE feed.kind # "groups"
  <2>1. \/ l[1] \in FacetGroups /\ l[2] \in AvailableFacets(feed.kind, config, l[1]) /\ feed.kind # "search"
        \/ l[1] = "entrypoint" /\ l[2] \in ToSet(Selectable(feed.kind, config.entries))
    <3>1. feed.kind = "search" => l \in EntryPointLinks
      BY <1>1 DEF FacetLinks
    <3>2. l \in EntryPointLinks => l[1] = "entrypoint"
      BY DEF EntryPointLinks
    <3>3. "entrypoint" \notin FacetGroups
      BY DEF FacetGroups
    <3> QED BY <1>1, <3>1, <3>2, <3>3, FacetLinksAreKnown
  <2>2. l[1] \notin {"page", "own", "start"}
    BY <2>1 DEF FacetGroups
  <2>3. Selected(facets, l) = [facets EXCEPT ![l[1]] = l[2], !.media = NoValue]
    BY <2>2, Zenon DEF Selected
  <2>4. feed.kind \in FacetKinds /\ config \in Configs
    BY DEF FacetsInv
  <2>5. Asks(feed.kind, config, Items(Navigate(feed.kind, config, facets, l[1], l[2])),
             [facets EXCEPT ![l[1]] = l[2], !.media = NoValue])
    BY <1>2, <1>4, <2>1, <2>4, FacetLinksAsk
  <2>6. Asks(feed.kind, config, Items(Navigate(feed.kind, config, facets, l[1], l[2])), Selected(facets, l))
    BY <2>3, <2>5, Zenon
  <2> QED BY <1>1, <1>4, <2>2, <2>6, LinksKeepFacetsInv
<1> QED BY <1>3, <1>4

(* Links lead where they say, whatever libraries may configure, however often they do  *)
(* it, and whichever links are followed, for every class of facets.                    *)
THEOREM LinksLeadOn == FacetsSpec => []LinksLeadWhereTheySay
<1>1. FacetsInit => FacetsInv
  <2> SUFFICES ASSUME FacetsInit PROVE FacetsInv
    OBVIOUS
  <2>1. PICK args \in Requests :
          /\ facets = FromRequest(feed.kind, config, args)
          /\ link = [group |-> IF args = Unnamed THEN "start" ELSE "own", value |-> NoValue, from |-> NoValue, late |-> FALSE]
    BY DEF FacetsInit
  <2>2. feed.kind \in FacetKinds /\ config \in Configs
    BY DEF FacetsInit, FacetKinds
  <2>3. facets = Refused \/ SoundFacets(feed.kind, config, facets)
    <3>1. DOMAIN args = FacetFields
      BY FacetsAssumption, FieldsOfFacets
    <3> QED BY <2>1, <2>2, <3>1, AnswersAreSound
  <2>4. LinksLeadWhereTheySay
    <3>1. CASE args = Unnamed
      <4>1. facets = Refused => /\ feed.kind = "database"
                                /\ \/ \E g \in FacetGroups : config.default[g] \notin ToSet(config.enabled[g])
                                   \/ ToSet(config.enabled.order) \cap DatabaseOrders = {}
        BY <2>1, <2>2, <3>1, DefaultsAreAnswered
      <4>2. link.group = "start"
        BY <2>1, <3>1
      <4> QED BY <4>1, <4>2 DEF LinksLeadWhereTheySay
    <3>2. CASE args # Unnamed
      BY <2>1, <3>2 DEF LinksLeadWhereTheySay
    <3> QED BY <3>1, <3>2
  <2> QED BY <2>2, <2>3, <2>4 DEF FacetsInv
<1>2. FacetsInv /\ [FacetsNext]_facetsVars => FacetsInv'
  <2> SUFFICES ASSUME FacetsInv, [FacetsNext]_facetsVars PROVE FacetsInv'
    OBVIOUS
  <2>1. CASE AskAgain
    BY <2>1, RequestsKeepFacetsInv DEF AskAgain
  <2>2. ASSUME NEW c \in Configs, FollowPage(c) PROVE FacetsInv'
    BY <2>2, PagesKeepFacetsInv
  <2>3. ASSUME NEW c \in Configs, FollowFacet(c) PROVE FacetsInv'
    BY <2>3, FacetLinksKeepFacetsInv
  <2>4. CASE UNCHANGED facetsVars
    BY <2>4 DEF facetsVars, FacetsInv, LinksLeadWhereTheySay, Wanted
  <2> QED BY <2>1, <2>2, <2>3, <2>4 DEF FacetsNext
<1>3. FacetsInv => LinksLeadWhereTheySay
  BY DEF FacetsInv
<1> QED BY <1>1, <1>2, <1>3, PTL DEF FacetsSpec

-----------------------------------------------------------------------------
(***************************************************************************)
(* What is equivalent to what.                                             *)
(***************************************************************************)
\* A function that goes on a step at a time.
HasSteps(D, A, step, N) ==
  \E f \in [0..N -> D] : \A n \in 0..N : f[n] = IF n = 0 THEN A ELSE step[f[n - 1]]

LEMMA StepsExist ==
  ASSUME NEW D, NEW A \in D, NEW step \in [D -> D], NEW N \in Nat
  PROVE  HasSteps(D, A, step, N)
<1> DEFINE Exists(m) == \E f \in [0..m -> D] : \A n \in 0..m : f[n] = IF n = 0 THEN A ELSE step[f[n - 1]]
           bad == {m \in Nat : ~Exists(m)}
<1>1. Exists(0)
  <2> DEFINE g == [n \in 0..0 |-> A]
  <2>1. g \in [0..0 -> D] /\ \A n \in 0..0 : g[n] = A /\ n = 0
    OBVIOUS
  <2> QED BY <2>1
<1>2. ASSUME NEW m \in Nat, m # 0, Exists(m - 1) PROVE Exists(m)
  <2>1. PICK f \in [0..(m - 1) -> D] : \A n \in 0..(m - 1) : f[n] = IF n = 0 THEN A ELSE step[f[n - 1]]
    BY <1>2
  <2> DEFINE g == [n \in 0..m |-> IF n = 0 THEN A ELSE step[f[n - 1]]]
  <2>2. \A n \in 0..m : n = 0 \/ n - 1 \in 0..(m - 1)
    BY <1>2
  <2>3. g \in [0..m -> D]
    BY <2>1, <2>2
  <2>4. \A n \in 0..(m - 1) : g[n] = f[n]
    BY <2>1, <2>2
  <2>5. \A n \in 0..m : g[n] = IF n = 0 THEN A ELSE step[f[n - 1]]
    BY <2>1
  <2> HIDE DEF g
  <2>6. \A n \in 0..m : g[n] = IF n = 0 THEN A ELSE step[g[n - 1]]
    BY <2>2, <2>4, <2>5
  <2> QED BY <2>3, <2>6
<1> HIDE DEF Exists
<1>3. bad = {}
  <2> SUFFICES ASSUME bad # {} PROVE FALSE
    OBVIOUS
  <2>1. PICK m \in bad : \A j \in bad : m <= j
    BY LeastPosition
  <2>2. m # 0
    BY <1>1
  <2>3. m - 1 \in Nat /\ m - 1 \notin bad
    BY <2>1, <2>2
  <2> QED BY <1>2, <2>2, <2>3
<1> QED BY <1>3 DEF Exists, HasSteps

\* A row of fn_recursive_equivalents.
Found == [ends : SUBSET Editions, strength : Nat, of : Nat]
ClaimsMade == claims \subseteq Claims

LEMMA OnwardIsFound ==
  ASSUME ClaimsMade, NEW r \in Found
  PROVE  Onward(r) \subseteq Found
<1> SUFFICES ASSUME NEW c \in claims
             PROVE  [ends |-> c.ends, strength |-> r.strength * c.strength, of |-> r.of * 100] \in Found
  BY DEF Onward
<1>1. c.ends \subseteq Editions /\ c.strength \in Nat
  BY ListAssumption DEF ClaimsMade
<1>2. r.strength \in Nat /\ r.of \in Nat
  BY DEF Found
<1>3. r.strength * c.strength \in Nat /\ r.of * 100 \in Nat
  BY <1>1, <1>2
<1> QED BY <1>1, <1>3 DEF Found

LEMMA FindEquivsSteps ==
  ASSUME ClaimsMade, NEW e \in Editions
  PROVE  /\ FindEquivs(e) \in [0..Levels -> SUBSET Found]
         /\ \A n \in 0..Levels :
              FindEquivs(e)[n] = IF n = 0 THEN {[ends |-> {e}, strength |-> 1, of |-> 1]}
                                 ELSE UNION {Onward(r) : r \in FindEquivs(e)[n - 1]}
<1> DEFINE A == {[ends |-> {e}, strength |-> 1, of |-> 1]}
           step == [X \in SUBSET Found |-> UNION {Onward(r) : r \in X}]
           f == FindEquivs(e)
<1>1. A \in SUBSET Found
  BY DEF Found
<1>2. step \in [SUBSET Found -> SUBSET Found]
  BY OnwardIsFound
<1>3. Levels \in Nat
  BY ListAssumption
<1>4. \A X \in SUBSET Found : step[X] = UNION {Onward(r) : r \in X}
  OBVIOUS
<1> HIDE DEF A, step
<1>5. PICK g \in [0..Levels -> SUBSET Found] : \A n \in 0..Levels : g[n] = IF n = 0 THEN A ELSE step[g[n - 1]]
  <2> DEFINE D == SUBSET Found
  <2>1. A \in D /\ step \in [D -> D]
    BY <1>1, <1>2
  <2> HIDE DEF D
  <2>2. HasSteps(D, A, step, Levels)
    BY <1>3, <2>1, StepsExist
  <2> QED BY <2>2 DEF D, HasSteps
<1>6. \A n \in 0..Levels : n # 0 => step[g[n - 1]] = UNION {Onward(r) : r \in g[n - 1]}
  <2> TAKE n \in 0..Levels
  <2> HAVE n # 0
  <2>1. n - 1 \in 0..Levels
    BY <1>3
  <2>2. g[n - 1] \in SUBSET Found
    BY <2>1
  <2> QED BY <1>4, <2>2
<1>7. g = [n \in 0..Levels |-> IF n = 0 THEN A ELSE UNION {Onward(r) : r \in g[n - 1]}]
  BY <1>5, <1>6
<1>8. /\ f = CHOOSE h : h = [n \in 0..Levels |-> IF n = 0 THEN A ELSE UNION {Onward(r) : r \in h[n - 1]}]
  BY DEF FindEquivs, A
<1>9. f = [n \in 0..Levels |-> IF n = 0 THEN A ELSE UNION {Onward(r) : r \in f[n - 1]}]
  BY <1>7, <1>8, Zenon
<1> HIDE DEF f
<1>10. \A n \in 0..Levels : f[n] = IF n = 0 THEN A ELSE UNION {Onward(r) : r \in f[n - 1]}
  BY <1>9
<1> DEFINE bad == {n \in 0..Levels : f[n] \notin SUBSET Found}
<1>11. bad = {}
  <2> SUFFICES ASSUME bad # {} PROVE FALSE
    OBVIOUS
  <2>1. PICK m \in bad : \A j \in bad : m <= j
    <3>1. bad \in SUBSET Nat
      BY <1>3
    <3> HIDE DEF bad
    <3> QED BY <3>1, LeastPosition
  <2>2. m \in 0..Levels /\ f[m] \notin SUBSET Found
    OBVIOUS
  <2>3. m # 0
    BY <1>1, <1>10, <2>2
  <2>4. m - 1 \in 0..Levels /\ m - 1 \notin bad
    BY <1>3, <2>1, <2>2, <2>3
  <2>5. f[m - 1] \in SUBSET Found /\ f[m] = UNION {Onward(r) : r \in f[m - 1]}
    BY <1>10, <2>2, <2>3, <2>4
  <2> QED BY <2>2, <2>5, OnwardIsFound
<1>12. f \in [0..Levels -> SUBSET Found]
  BY <1>9, <1>11
<1> QED BY <1>10, <1>12 DEF f, A

\* Claims that follow each other, with the product of their strengths.
Chain == [first : claims, last : claims, strength : Nat, of : Nat]
One(c) == [first |-> c, last |-> c, strength |-> c.strength, of |-> 100]
GrownBehind(p, c) == [first |-> p.first, last |-> c, strength |-> p.strength * c.strength, of |-> p.of * 100]
GrownInFront(c, p) == [first |-> c, last |-> p.last, strength |-> c.strength * p.strength, of |-> p.of * 100]
Turned(p) == [first |-> p.last, last |-> p.first, strength |-> p.strength, of |-> p.of]
Longer(p) == {GrownBehind(p, c) : c \in {d \in claims : p.last.ends \cap d.ends # {}}}
IsChains(C) ==
  /\ C \in [0..Levels -> SUBSET Chain]
  /\ \A n \in 0..Levels : C[n] = IF n = 0 THEN {One(c) : c \in claims} ELSE UNION {Longer(p) : p \in C[n - 1]}

LEMMA ClaimsTyped ==
  ASSUME ClaimsMade, NEW c \in claims
  PROVE  c.ends \subseteq Editions /\ c.strength \in Nat /\ c.strength <= 100
BY ListAssumption DEF ClaimsMade

LEMMA ChainsAreChains ==
  ASSUME ClaimsMade, NEW p \in Chain, NEW c \in claims
  PROVE  One(c) \in Chain /\ GrownBehind(p, c) \in Chain /\ GrownInFront(c, p) \in Chain /\ Turned(p) \in Chain
<1>1. c.strength \in Nat
  BY ClaimsTyped
<1>2. p.first \in claims /\ p.last \in claims /\ p.strength \in Nat /\ p.of \in Nat
  BY DEF Chain
<1>3. p.strength * c.strength \in Nat /\ c.strength * p.strength \in Nat /\ p.of * 100 \in Nat
  BY <1>1, <1>2
<1> QED BY <1>1, <1>2, <1>3 DEF Chain, One, GrownBehind, GrownInFront, Turned

LEMMA ChainsExist ==
  ASSUME ClaimsMade
  PROVE  \E C : IsChains(C)
<1> DEFINE D == SUBSET Chain
           A == {One(c) : c \in claims}
           step == [X \in SUBSET Chain |-> UNION {Longer(p) : p \in X}]
<1>1. A \in D
  <2>1. \A c \in claims : One(c) \in Chain
    BY ClaimsTyped DEF One, Chain
  <2> QED BY <2>1
<1>2. step \in [D -> D]
  <2>1. \A p \in Chain : Longer(p) \subseteq Chain
    BY ChainsAreChains DEF Longer
  <2> QED BY <2>1
<1>3. \A X \in D : step[X] = UNION {Longer(p) : p \in X}
  OBVIOUS
<1>4. Levels \in Nat
  BY ListAssumption
<1> HIDE DEF A, step, D
<1>5. HasSteps(D, A, step, Levels)
  BY <1>1, <1>2, <1>4, StepsExist
<1> PICK C \in [0..Levels -> D] : \A n \in 0..Levels : C[n] = IF n = 0 THEN A ELSE step[C[n - 1]]
  BY <1>5 DEF HasSteps
<1>6. \A n \in 0..Levels : n # 0 => step[C[n - 1]] = UNION {Longer(p) : p \in C[n - 1]}
  BY <1>3, <1>4
<1>7. \A n \in 0..Levels : C[n] = IF n = 0 THEN A ELSE UNION {Longer(p) : p \in C[n - 1]}
  BY <1>6
<1> QED BY <1>7 DEF IsChains, A, D

LEMMA ChainsGoOn ==
  ASSUME NEW C, IsChains(C), NEW n \in 0..Levels, n # 0
  PROVE  \A p : p \in C[n] <=> \E q \in C[n - 1], c \in claims : q.last.ends \cap c.ends # {} /\ p = GrownBehind(q, c)
<1>1. C[n] = UNION {Longer(p) : p \in C[n - 1]}
  BY DEF IsChains
<1> QED BY <1>1 DEF Longer

\* A chain may be made longer at its front as well.
LEMMA ChainsGrowAtTheFront ==
  ASSUME ClaimsMade, NEW C, IsChains(C)
  PROVE  \A n \in 0..Levels : n # 0 =>
           \A p \in C[n - 1], c \in claims : c.ends \cap p.first.ends # {} => GrownInFront(c, p) \in C[n]
<1> DEFINE Grows(n) == \A p \in C[n - 1], c \in claims : c.ends \cap p.first.ends # {} => GrownInFront(c, p) \in C[n]
           bad == {n \in 0..Levels : n # 0 /\ ~Grows(n)}
<1>0. Levels \in Nat /\ bad \in SUBSET Nat
  BY ListAssumption
<1> SUFFICES ASSUME bad # {} PROVE FALSE
  OBVIOUS
<1>1. PICK m \in bad : \A j \in bad : m <= j
  <2> HIDE DEF bad
  <2> QED BY <1>0, LeastPosition
<1>2. m \in 0..Levels /\ m # 0 /\ ~Grows(m) /\ m - 1 \in 0..Levels
  BY <1>0
<1>3. PICK p \in C[m - 1], c \in claims : c.ends \cap p.first.ends # {} /\ GrownInFront(c, p) \notin C[m]
  BY <1>2
<1>4. p \in Chain /\ p.first \in claims
  BY <1>2 DEF IsChains, Chain
<1>5. CASE m = 1
  <2>1. PICK d \in claims : p = One(d)
    <3>1. m - 1 = 0 /\ C[m - 1] = {One(d) : d \in claims}
      BY <1>2, <1>5 DEF IsChains
    <3> QED BY <1>3, <3>1
  <2>2. GrownInFront(c, p) = GrownBehind(One(c), d)
    <3>1. c.strength \in Nat /\ d.strength \in Nat
      BY ClaimsTyped
    <3> QED BY <2>1, <3>1 DEF GrownInFront, GrownBehind, One
  <2>3. One(c) \in C[m - 1] /\ One(c).last = c /\ d = p.first
    BY <1>2, <1>5, <2>1 DEF IsChains, One
  <2> QED BY <1>2, <1>3, <2>2, <2>3, ChainsGoOn
<1>6. CASE m # 1
  <2>1. m - 1 \in 0..Levels /\ m - 1 # 0 /\ m - 1 - 1 \in 0..Levels /\ m - 1 \notin bad
    BY <1>0, <1>1, <1>2, <1>6
  <2>2. PICK q \in C[m - 1 - 1], d \in claims : q.last.ends \cap d.ends # {} /\ p = GrownBehind(q, d)
    BY <2>1, ChainsGoOn
  <2>3. q \in Chain
    BY <2>1 DEF IsChains
  <2>4. p.first = q.first
    BY <2>2 DEF GrownBehind
  <2>5. GrownInFront(c, q) \in C[m - 1]
    BY <1>3, <2>1, <2>2, <2>4
  <2>6. GrownInFront(c, q).last = q.last
    BY DEF GrownInFront
  <2>7. GrownBehind(GrownInFront(c, q), d) \in C[m]
    BY <1>2, <2>2, <2>5, <2>6, ChainsGoOn
  <2>8. GrownBehind(GrownInFront(c, q), d) = GrownInFront(c, p)
    <3>1. c.strength \in Nat /\ d.strength \in Nat /\ q.strength \in Nat
      BY <2>3, ClaimsTyped DEF Chain
    <3>2. (c.strength * q.strength) * d.strength = c.strength * (q.strength * d.strength)
      BY <3>1
    <3> QED BY <2>2, <3>2 DEF GrownBehind, GrownInFront
  <2> QED BY <1>3, <2>7, <2>8
<1> QED BY <1>5, <1>6

LEMMA ChainsTurn ==
  ASSUME ClaimsMade, NEW C, IsChains(C)
  PROVE  \A n \in 0..Levels : \A p \in C[n] : Turned(p) \in C[n]
<1> DEFINE Turns(n) == \A p \in C[n] : Turned(p) \in C[n]
           bad == {n \in 0..Levels : ~Turns(n)}
<1>0. Levels \in Nat /\ bad \in SUBSET Nat
  BY ListAssumption
<1> SUFFICES ASSUME bad # {} PROVE FALSE
  OBVIOUS
<1>1. PICK m \in bad : \A j \in bad : m <= j
  <2> HIDE DEF bad
  <2> QED BY <1>0, LeastPosition
<1>2. m \in 0..Levels /\ ~Turns(m)
  BY <1>0
<1>3. PICK p \in C[m] : Turned(p) \notin C[m]
  BY <1>2
<1>4. CASE m = 0
  <2>1. PICK c \in claims : p = One(c)
    BY <1>2, <1>4 DEF IsChains
  <2>2. Turned(p) = p
    BY <2>1 DEF Turned, One
  <2> QED BY <1>3, <2>2
<1>5. CASE m # 0
  <2>1. m - 1 \in 0..Levels /\ m - 1 \notin bad
    BY <1>0, <1>1, <1>2, <1>5
  <2>2. PICK q \in C[m - 1], d \in claims : q.last.ends \cap d.ends # {} /\ p = GrownBehind(q, d)
    BY <1>2, <1>5, ChainsGoOn
  <2>3. q \in Chain
    BY <2>1 DEF IsChains
  <2>4. Turned(q) \in C[m - 1] /\ Turned(q).first = q.last
    BY <2>1 DEF Turned
  <2>5. GrownInFront(d, Turned(q)) \in C[m]
    BY <1>2, <1>5, <2>2, <2>4, ChainsGrowAtTheFront
  <2>6. GrownInFront(d, Turned(q)) = Turned(p)
    <3>1. d.strength \in Nat /\ q.strength \in Nat
      BY <2>3, ClaimsTyped DEF Chain
    <3>2. d.strength * q.strength = q.strength * d.strength
      BY <3>1
    <3> QED BY <2>2, <3>2 DEF GrownInFront, GrownBehind, Turned
  <2> QED BY <1>3, <2>5, <2>6
<1> QED BY <1>4, <1>5

Strong(p) == p.strength * 100 > Threshold * p.of
AsFound(p) == [ends |-> p.last.ends, strength |-> p.strength, of |-> p.of]
Carried(q, c) == [ends |-> c.ends, strength |-> q.strength * c.strength, of |-> q.of * 100]

LEMMA EquivsBegin ==
  ASSUME ClaimsMade, NEW e \in Editions
  PROVE  FindEquivs(e)[0] = {[ends |-> {e}, strength |-> 1, of |-> 1]}
<1>1. 0 \in 0..Levels
  BY ListAssumption
<1>2. \A n \in 0..Levels : n = 0 => FindEquivs(e)[n] = {[ends |-> {e}, strength |-> 1, of |-> 1]}
  BY FindEquivsSteps
<1> QED BY <1>1, <1>2

LEMMA EquivsGoOn ==
  ASSUME ClaimsMade, NEW e \in Editions, NEW n \in 0..Levels, n # 0
  PROVE  \A r : r \in FindEquivs(e)[n] <=>
           \E q \in FindEquivs(e)[n - 1], c \in claims :
             /\ q.ends \cap c.ends # {} /\ q.strength * c.strength > Threshold * q.of /\ r = Carried(q, c)
<1>1. FindEquivs(e)[n] = UNION {Onward(q) : q \in FindEquivs(e)[n - 1]}
  BY FindEquivsSteps
<1>2. \A q : Onward(q) = {Carried(q, c) : c \in {d \in claims : q.ends \cap d.ends # {} /\ q.strength * d.strength > Threshold * q.of}}
  BY DEF Onward, Carried
<1> QED BY <1>1, <1>2

\* A chain is as strong as its last link leaves it: no beginning of it is weaker.
LEMMA ChainsWeaken ==
  ASSUME ClaimsMade, NEW q \in Chain, NEW c \in claims
  PROVE  /\ Strong(GrownBehind(q, c)) <=> q.strength * c.strength > Threshold * q.of
         /\ Strong(GrownBehind(q, c)) => Strong(q)
<1>1. c.strength \in Nat /\ c.strength <= 100
  BY ClaimsTyped
<1>2. q.strength \in Nat /\ q.of \in Nat
  BY DEF Chain
<1>3. Threshold \in Nat
  BY ListAssumption
<1> DEFINE s == q.strength
           k == c.strength
           w == q.of
<1>4. s \in Nat /\ w \in Nat /\ k \in Nat /\ k <= 100
  BY <1>1, <1>2
<1>5. Strong(GrownBehind(q, c)) <=> (s * k) * 100 > Threshold * (w * 100)
  BY DEF Strong, GrownBehind
<1>6. Strong(q) <=> s * 100 > Threshold * w
  BY DEF Strong
<1> HIDE DEF s, k, w
<1>7. Threshold * (w * 100) = (Threshold * w) * 100
  BY <1>3, <1>4
<1>8. s * k \in Nat /\ Threshold * w \in Nat /\ s * 100 \in Nat
  BY <1>3, <1>4
<1>9. s * k <= s * 100
  BY <1>4
<1>10. (s * k) * 100 > (Threshold * w) * 100 <=> s * k > Threshold * w
  BY <1>8
<1>11. s * k > Threshold * w => s * 100 > Threshold * w
  BY <1>8, <1>9
<1> QED BY <1>5, <1>6, <1>7, <1>10, <1>11 DEF s, k, w

\* What is found from an edition is where the strong chains lead that start at it.
LEMMA ChainsAreFound ==
  ASSUME ClaimsMade, NEW C, IsChains(C), NEW e \in Editions
  PROVE  \A n \in 0..Levels : n # 0 =>
           \A r : r \in FindEquivs(e)[n] <=> \E p \in C[n - 1] : e \in p.first.ends /\ Strong(p) /\ r = AsFound(p)
<1> DEFINE F == FindEquivs(e)
           Same(n) == \A r : r \in F[n] <=> \E p \in C[n - 1] : e \in p.first.ends /\ Strong(p) /\ r = AsFound(p)
           bad == {n \in 0..Levels : n # 0 /\ ~Same(n)}
<1>0. Levels \in Nat /\ bad \in SUBSET Nat
  BY ListAssumption
<1> SUFFICES ASSUME bad # {} PROVE FALSE
  OBVIOUS
<1>1. PICK m \in bad : \A j \in bad : m <= j
  <2> HIDE DEF bad
  <2> QED BY <1>0, LeastPosition
<1>2. m \in 0..Levels /\ m # 0 /\ ~Same(m) /\ m - 1 \in 0..Levels
  BY <1>0
<1>3. \A r : r \in F[m] <=>
        \E q \in F[m - 1], c \in claims :
          /\ q.ends \cap c.ends # {} /\ q.strength * c.strength > Threshold * q.of /\ r = Carried(q, c)
  BY <1>2, EquivsGoOn
<1>4. CASE m = 1
  <2> DEFINE start == [ends |-> {e}, strength |-> 1, of |-> 1]
  <2>1. F[m - 1] = {start} /\ C[m - 1] = {One(c) : c \in claims}
    BY <1>2, <1>4, EquivsBegin DEF IsChains
  <2>2. ASSUME NEW c \in claims
        PROVE  /\ start.ends \cap c.ends # {} <=> e \in One(c).first.ends
               /\ start.strength * c.strength > Threshold * start.of <=> Strong(One(c))
               /\ Carried(start, c) = AsFound(One(c))
    <3>1. c.strength \in Nat /\ Threshold \in Nat
      BY ClaimsTyped, ListAssumption
    <3>2. 1 * c.strength = c.strength /\ Threshold * 1 = Threshold /\ 1 * 100 = 100
      BY <3>1
    <3>3. c.strength * 100 > Threshold * 100 <=> c.strength > Threshold
      BY <3>1
    <3> QED BY <3>2, <3>3 DEF One, Strong, Carried, AsFound
  <2> HIDE DEF start
  <2>3. \A r : r \in F[m] <=> \E c \in claims : e \in One(c).first.ends /\ Strong(One(c)) /\ r = AsFound(One(c))
    BY <1>3, <2>1, <2>2
  <2> HIDE DEF F
  <2> QED BY <1>2, <2>1, <2>3
<1>5. CASE m # 1
  <2>1. m - 1 # 0 /\ m - 1 \notin bad /\ m - 1 - 1 \in 0..Levels
    BY <1>0, <1>1, <1>2, <1>5
  <2>2. Same(m - 1)
    BY <1>2, <2>1
  <2>3. \A p : p \in C[m - 1] <=> \E q \in C[m - 1 - 1], c \in claims : q.last.ends \cap c.ends # {} /\ p = GrownBehind(q, c)
    BY <1>2, <2>1, ChainsGoOn
  <2>4. C[m - 1 - 1] \subseteq Chain
    BY <2>1 DEF IsChains
  <2>5. ASSUME NEW q \in C[m - 1 - 1], NEW c \in claims
        PROVE  /\ AsFound(q).ends = q.last.ends
               /\ AsFound(q).strength * c.strength > Threshold * AsFound(q).of <=> Strong(GrownBehind(q, c))
               /\ Strong(GrownBehind(q, c)) => Strong(q)
               /\ GrownBehind(q, c).first = q.first
               /\ Carried(AsFound(q), c) = AsFound(GrownBehind(q, c))
    <3>1. Strong(GrownBehind(q, c)) => Strong(q)
      BY <2>4, ChainsWeaken
    <3>2. q.strength * c.strength > Threshold * q.of <=> Strong(GrownBehind(q, c))
      BY <2>4, ChainsWeaken
    <3> QED BY <3>1, <3>2 DEF AsFound, Carried, GrownBehind
  <2> HIDE DEF F
  <2>6. ASSUME NEW r, r \in F[m] PROVE \E p \in C[m - 1] : e \in p.first.ends /\ Strong(p) /\ r = AsFound(p)
    <3>1. PICK g \in F[m - 1], c \in claims :
            g.ends \cap c.ends # {} /\ g.strength * c.strength > Threshold * g.of /\ r = Carried(g, c)
      BY <1>3, <2>6
    <3>2. PICK q \in C[m - 1 - 1] : e \in q.first.ends /\ Strong(q) /\ g = AsFound(q)
      BY <2>2
    <3>3. /\ q.last.ends \cap c.ends # {} /\ Strong(GrownBehind(q, c)) /\ GrownBehind(q, c).first = q.first
          /\ r = AsFound(GrownBehind(q, c))
      BY <2>5, <3>1, <3>2
    <3>4. GrownBehind(q, c) \in C[m - 1]
      BY <2>3, <3>3
    <3> QED BY <3>2, <3>3, <3>4
  <2>7. ASSUME NEW p \in C[m - 1], e \in p.first.ends, Strong(p) PROVE AsFound(p) \in F[m]
    <3>1. PICK q \in C[m - 1 - 1], c \in claims : q.last.ends \cap c.ends # {} /\ p = GrownBehind(q, c)
      BY <2>3
    <3>2. Strong(q) /\ e \in q.first.ends /\ AsFound(q).ends = q.last.ends
      BY <2>5, <2>7, <3>1
    <3>3. AsFound(q) \in F[m - 1]
      BY <2>2, <3>2
    <3>4. AsFound(q).strength * c.strength > Threshold * AsFound(q).of /\ AsFound(p) = Carried(AsFound(q), c)
      BY <2>5, <2>7, <3>1
    <3> QED BY <1>3, <3>1, <3>2, <3>3, <3>4
  <2> QED BY <1>2, <2>6, <2>7
<1> QED BY <1>4, <1>5

LEMMA EquivalentByChain ==
  ASSUME ClaimsMade, NEW C, IsChains(C), NEW e \in Editions
  PROVE  \A f : f \in Equivalents(e) <=>
           \/ f = e
           \/ \E n \in 0..Levels : n # 0 /\ \E p \in C[n - 1] : e \in p.first.ends /\ f \in p.last.ends /\ Strong(p)
<1> DEFINE F == FindEquivs(e)
<1>1. Equivalents(e) = UNION {r.ends : r \in UNION {F[n] : n \in 0..Levels}}
  BY DEF Equivalents
<1>2. F[0] = {[ends |-> {e}, strength |-> 1, of |-> 1]} /\ 0 \in 0..Levels
  BY EquivsBegin, ListAssumption
<1>3. \A n \in 0..Levels : n # 0 =>
        \A r : r \in F[n] <=> \E p \in C[n - 1] : e \in p.first.ends /\ Strong(p) /\ r = AsFound(p)
  BY ChainsAreFound
<1> HIDE DEF F
<1>4. \A f : f \in Equivalents(e) <=> \E n \in 0..Levels : \E r \in F[n] : f \in r.ends
  BY <1>1
<1>5. \A f : (\E r \in F[0] : f \in r.ends) <=> f = e
  BY <1>2
<1>6. \A n \in 0..Levels : n # 0 =>
        \A f : (\E r \in F[n] : f \in r.ends) <=> \E p \in C[n - 1] : e \in p.first.ends /\ f \in p.last.ends /\ Strong(p)
  <2>1. \A p : AsFound(p).ends = p.last.ends
    BY DEF AsFound
  <2> SUFFICES ASSUME NEW n \in 0..Levels, n # 0, NEW f
               PROVE  (\E r \in F[n] : f \in r.ends)
                        <=> \E p \in C[n - 1] : e \in p.first.ends /\ f \in p.last.ends /\ Strong(p)
    OBVIOUS
  <2>2. \A r : r \in F[n] <=> \E p \in C[n - 1] : e \in p.first.ends /\ Strong(p) /\ r = AsFound(p)
    BY <1>3
  <2> QED BY <2>1, <2>2
<1> QED BY <1>2, <1>4, <1>5, <1>6

(***************************************************************************)
(* It is the same which of two editions the search for equivalents begins  *)
(* at: each finds the other or neither does, and each finds itself.        *)
(***************************************************************************)
THEOREM EquivalentsFindEachOther ==
  ASSUME ClaimsMade, NEW e \in Editions, NEW f \in Editions
  PROVE  e \in Equivalents(e) /\ (f \in Equivalents(e) <=> e \in Equivalents(f))
<1>1. PICK C : IsChains(C)
  BY ChainsExist
<1>2. ASSUME NEW n \in 0..Levels, n # 0, NEW p \in C[n - 1]
      PROVE  /\ Turned(p) \in C[n - 1] /\ Turned(p).first = p.last /\ Turned(p).last = p.first
             /\ Strong(Turned(p)) <=> Strong(p)
  <2>1. n - 1 \in 0..Levels
    BY <1>2, ListAssumption
  <2> QED BY <1>1, <1>2, <2>1, ChainsTurn DEF Turned, Strong
<1>3. \A g, h \in Editions : (\E n \in 0..Levels : n # 0 /\ \E p \in C[n - 1] : g \in p.first.ends /\ h \in p.last.ends /\ Strong(p))
        => (\E n \in 0..Levels : n # 0 /\ \E p \in C[n - 1] : h \in p.first.ends /\ g \in p.last.ends /\ Strong(p))
  BY <1>2
<1> QED BY <1>1, <1>3, EquivalentByChain

-----------------------------------------------------------------------------
(***************************************************************************)
(* A custom list and what is written elsewhere about it.                   *)
(***************************************************************************)
ListFields == {"entries", "size", "registered", "unflagged", "uncounted"}
EntryFields == {"edition", "work", "first", "recent"}

ListShape(L) ==
  /\ DOMAIN L = ListFields /\ L.uncounted \in BOOLEAN
  /\ DOMAIN L.entries \subseteq 1..MaxEntries
  /\ \A i \in DOMAIN L.entries : DOMAIN L.entries[i] = EntryFields

\* The documents are right, but maybe for some Works.
DocumentsAgree(L, but) ==
  \A w \in ListWorks \ (L.registered \cup L.unflagged \cup but) : w \in documents <=> OnList(L.entries, w)

SizeAgrees(L) == ~L.uncounted => L.size = Cardinality(DOMAIN L.entries)

GoodList(L) == ListShape(L) /\ DocumentsAgree(L, {}) /\ SizeAgrees(L)

LEMMA RowsAreCounted ==
  ASSUME NEW L, ListShape(L), NEW rows \in SUBSET DOMAIN L.entries
  PROVE  /\ IsFiniteSet(DOMAIN L.entries) /\ IsFiniteSet(rows)
         /\ Cardinality(DOMAIN L.entries) \in Nat
         /\ Cardinality(DOMAIN L.entries \ rows) = Cardinality(DOMAIN L.entries) - Cardinality(rows)
<1>1. IsFiniteSet(1..MaxEntries)
  BY ListAssumption, FS_Interval
<1>2. IsFiniteSet(DOMAIN L.entries)
  BY <1>1, FS_Subset DEF ListShape
<1>3. IsFiniteSet(rows) /\ rows = DOMAIN L.entries \cap rows
  BY <1>2, FS_Subset
<1>4. Cardinality(DOMAIN L.entries) \in Nat
  BY <1>2, FS_CardinalityType
<1>5. Cardinality(DOMAIN L.entries \ rows) = Cardinality(DOMAIN L.entries) - Cardinality(DOMAIN L.entries \cap rows)
  BY <1>2, FS_Difference
<1> QED BY <1>2, <1>3, <1>4, <1>5

\* A set of naturals that is not empty has a least one, and there the next row goes.
LEMMA RowsAreFree ==
  ASSUME NEW L, Free(L) # {}
  PROVE  Min(Free(L)) \in Free(L)
<1>1. Free(L) \in SUBSET Nat
  BY ListAssumption DEF Free
<1>2. \E n \in Free(L) : \A j \in Free(L) : n <= j
  BY <1>1, LeastPosition
<1> QED BY <1>2 DEF Min

LEMMA CreatedIsGood ==
  ASSUME NEW L, ListShape(L), DocumentsAgree(L, {}), NEW e, NEW w, NEW t, Free(L) # {}
  PROVE  LET R == Created(L, e, w, t)
         IN /\ ListShape(R) /\ DocumentsAgree(R, {w})
            /\ R.size = L.size /\ R.uncounted = L.uncounted
            /\ R.registered = L.registered /\ R.unflagged = L.unflagged
            /\ DOMAIN R.entries = DOMAIN L.entries \cup {Min(Free(L))} /\ Min(Free(L)) \in Free(L)
            /\ Cardinality(DOMAIN R.entries) = Cardinality(DOMAIN L.entries) + 1
            /\ R.entries[Min(Free(L))].work = w
            /\ \A i \in DOMAIN L.entries : R.entries[i] = L.entries[i]
<1> DEFINE n == Min(Free(L))
           new == [edition |-> e, work |-> w, first |-> t, recent |-> t]
           R == Created(L, e, w, t)
<1>1. n \in Free(L)
  BY RowsAreFree
<1>2. n \in 1..MaxEntries /\ n \notin DOMAIN L.entries
  BY <1>1 DEF Free
<1>3. /\ R.entries = [i \in DOMAIN L.entries \cup {n} |-> IF i \in DOMAIN L.entries THEN L.entries[i] ELSE new]
      /\ DOMAIN R = ListFields
      /\ R.size = L.size /\ R.uncounted = L.uncounted
      /\ R.registered = L.registered /\ R.unflagged = L.unflagged
  BY DEF Created, ListShape, ListFields
<1> HIDE DEF n, R
<1>4. ListShape(R)
  BY <1>2, <1>3 DEF ListShape, EntryFields
<1>5. R.entries[n].work = w /\ \A i \in DOMAIN L.entries : R.entries[i] = L.entries[i]
  BY <1>2, <1>3
<1>6. DocumentsAgree(R, {w})
  BY <1>3, <1>5 DEF DocumentsAgree, OnList
<1>7. Cardinality(DOMAIN R.entries) = Cardinality(DOMAIN L.entries) + 1
  BY <1>2, <1>3, RowsAreCounted, FS_AddElement
<1> QED BY <1>1, <1>3, <1>4, <1>5, <1>6, <1>7 DEF n, R

LEMMA FlaggedIsGood ==
  ASSUME NEW L, ListShape(L), SizeAgrees(L), NEW ws, DocumentsAgree(L, ws)
  PROVE  GoodList(Flagged(L, ws)) /\ GoodList(Unflagged(L, ws))
<1>1. /\ DOMAIN Flagged(L, ws) = ListFields /\ Flagged(L, ws).entries = L.entries
      /\ Flagged(L, ws).registered = L.registered \cup (ws \ {NoWork})
      /\ Flagged(L, ws).unflagged = L.unflagged /\ Flagged(L, ws).size = L.size
      /\ Flagged(L, ws).uncounted = L.uncounted
  BY DEF Flagged, ListShape, ListFields
<1>2. /\ DOMAIN Unflagged(L, ws) = ListFields /\ Unflagged(L, ws).entries = L.entries
      /\ Unflagged(L, ws).registered = L.registered
      /\ Unflagged(L, ws).unflagged = L.unflagged \cup (ws \ {NoWork}) /\ Unflagged(L, ws).size = L.size
      /\ Unflagged(L, ws).uncounted = L.uncounted
  BY DEF Unflagged, ListShape, ListFields
<1>3. NoWork \notin ListWorks
  BY ListAssumption
<1> QED BY <1>1, <1>2, <1>3 DEF GoodList, ListShape, DocumentsAgree, SizeAgrees

\* Rows that go, with their Works flagged or known to be unflagged.
LEMMA WithoutIsGood ==
  ASSUME NEW L, GoodList(L), NEW rows \in SUBSET DOMAIN L.entries, NEW M,
         M \in {Flagged(L, WorksOf(L, rows)), Unflagged(L, WorksOf(L, rows))}
  PROVE  LET R == Without(M, rows)
         IN /\ ListShape(R) /\ DocumentsAgree(R, {})
            /\ R.entries = [i \in DOMAIN L.entries \ rows |-> L.entries[i]]
            /\ R.size = L.size /\ R.uncounted = L.uncounted
<1> DEFINE R == Without(M, rows)
<1>1. ListShape(L) /\ DocumentsAgree(L, {})
  BY DEF GoodList
<1>2. /\ DOMAIN M = ListFields /\ M.entries = L.entries /\ M.size = L.size /\ M.uncounted = L.uncounted
      /\ M.registered \cup M.unflagged = L.registered \cup L.unflagged \cup (WorksOf(L, rows) \ {NoWork})
  BY <1>1 DEF Flagged, Unflagged, ListShape, ListFields
<1>3. /\ DOMAIN R = ListFields /\ R.entries = [i \in DOMAIN L.entries \ rows |-> L.entries[i]]
      /\ R.size = L.size /\ R.uncounted = L.uncounted
      /\ R.registered \cup R.unflagged = L.registered \cup L.unflagged \cup (WorksOf(L, rows) \ {NoWork})
  BY <1>2 DEF Without, ListFields
<1> HIDE DEF R
<1>4. ListShape(R)
  BY <1>1, <1>3 DEF ListShape
<1>5. ASSUME NEW w \in ListWorks \ (R.registered \cup R.unflagged) PROVE w \in documents <=> OnList(R.entries, w)
  <2>1. w # NoWork
    BY ListAssumption
  <2>2. w \notin WorksOf(L, rows) /\ w \notin L.registered \cup L.unflagged
    BY <1>3, <1>5, <2>1
  <2>3. OnList(L.entries, w) <=> OnList(R.entries, w)
    BY <1>3, <2>2 DEF OnList, WorksOf
  <2> QED BY <1>1, <1>5, <2>2, <2>3 DEF DocumentsAgree
<1> QED BY <1>3, <1>4, <1>5 DEF R, DocumentsAgree

LEMMA RemovedIsGood ==
  ASSUME NEW L, GoodList(L), NEW rows \in SUBSET DOMAIN L.entries
  PROVE  GoodList(Removed(L, rows))
<1> DEFINE W == Without(Flagged(L, WorksOf(L, rows)), rows)
           R == Removed(L, rows)
<1>1. /\ ListShape(W) /\ DocumentsAgree(W, {})
      /\ W.entries = [i \in DOMAIN L.entries \ rows |-> L.entries[i]]
      /\ W.size = L.size /\ W.uncounted = L.uncounted
  BY WithoutIsGood
<1>2. R = [W EXCEPT !.size = @ - Cardinality(rows)]
  BY DEF Removed
<1> HIDE DEF W, R
<1>3. /\ DOMAIN R = ListFields /\ R.entries = W.entries /\ R.size = W.size - Cardinality(rows)
      /\ R.uncounted = W.uncounted /\ R.registered = W.registered /\ R.unflagged = W.unflagged
  BY <1>1, <1>2 DEF ListShape, ListFields
<1>4. ListShape(R) /\ DocumentsAgree(R, {})
  BY <1>1, <1>3 DEF ListShape, DocumentsAgree
<1>5. DOMAIN R.entries = DOMAIN L.entries \ rows
  BY <1>1, <1>3
<1>6. SizeAgrees(L) /\ ListShape(L)
  BY DEF GoodList
<1>7. Cardinality(DOMAIN L.entries \ rows) = Cardinality(DOMAIN L.entries) - Cardinality(rows)
  BY <1>6, RowsAreCounted
<1>8. SizeAgrees(R)
  BY <1>1, <1>3, <1>5, <1>6, <1>7 DEF SizeAgrees
<1> QED BY <1>4, <1>8 DEF GoodList, R

LEMMA DroppedIsGood ==
  ASSUME NEW L, GoodList(L), NEW rows \in SUBSET DOMAIN L.entries
  PROVE  GoodList(Dropped(L, rows))
<1> DEFINE W == Without(Unflagged(L, WorksOf(L, rows)), rows)
           R == Dropped(L, rows)
<1>1. /\ ListShape(W) /\ DocumentsAgree(W, {})
      /\ W.entries = [i \in DOMAIN L.entries \ rows |-> L.entries[i]]
      /\ W.size = L.size /\ W.uncounted = L.uncounted
  BY WithoutIsGood
<1>2. R = [W EXCEPT !.uncounted = @ \/ rows # {}]
  BY DEF Dropped
<1> HIDE DEF W, R
<1>3. /\ DOMAIN R = ListFields /\ R.entries = W.entries /\ R.size = W.size
      /\ R.uncounted = (W.uncounted \/ rows # {}) /\ R.registered = W.registered /\ R.unflagged = W.unflagged
  BY <1>1, <1>2 DEF ListShape, ListFields
<1>4. ListShape(R) /\ DocumentsAgree(R, {})
  BY <1>1, <1>3 DEF ListShape, DocumentsAgree
<1>5. SizeAgrees(L)
  BY DEF GoodList
<1>6. CASE rows # {}
  BY <1>3, <1>4, <1>6 DEF GoodList, R, SizeAgrees
<1>7. CASE rows = {}
  <2>1. DOMAIN R.entries = DOMAIN L.entries
    BY <1>1, <1>3, <1>7
  <2>2. SizeAgrees(R)
    BY <1>1, <1>3, <1>5, <1>7, <2>1 DEF SizeAgrees, ListShape
  <2> QED BY <1>4, <2>2 DEF GoodList, R
<1> QED BY <1>6, <1>7

LEMMA MergedIsGood ==
  ASSUME NEW L, GoodList(L), NEW rows \in SUBSET DOMAIN L.entries, NEW i \in rows, NEW e, NEW w, NEW t
  PROVE  LET R == Merged(L, i, rows, e, w, t)
         IN ListShape(R) /\ DocumentsAgree(R, {w}) /\ SizeAgrees(R)
<1> DEFINE F == Min({L.entries[j].first : j \in rows})
           G == Max({L.entries[j].recent : j \in rows})
           entry == [edition |-> e, work |-> w, first |-> F, recent |-> G]
           seen == Seen(entry, t)
           U == Unflagged(L, WorksOf(L, rows))
           W == Without(U, rows \ {i})
           R == Merged(L, i, rows, e, w, t)
<1>1. ListShape(L) /\ DocumentsAgree(L, {}) /\ SizeAgrees(L)
  BY DEF GoodList
<1>2. /\ DOMAIN U = ListFields /\ U.entries = L.entries /\ U.size = L.size /\ U.uncounted = L.uncounted
      /\ U.registered = L.registered /\ U.unflagged = L.unflagged \cup (WorksOf(L, rows) \ {NoWork})
  BY <1>1 DEF Unflagged, ListShape, ListFields
<1> HIDE DEF U
<1>3. /\ DOMAIN W = ListFields /\ W.entries = [j \in DOMAIN L.entries \ (rows \ {i}) |-> L.entries[j]]
      /\ W.size = L.size /\ W.uncounted = L.uncounted
      /\ W.registered = L.registered /\ W.unflagged = L.unflagged \cup (WorksOf(L, rows) \ {NoWork})
  BY <1>2 DEF Without, ListFields
<1>4. R = [W EXCEPT !.entries[i] = seen, !.uncounted = @ \/ rows # {i}]
  BY DEF Merged, U
<1> HIDE DEF F, G
<1>5. DOMAIN seen = EntryFields /\ seen.work = w
  BY DEF Seen, EntryFields
<1> HIDE DEF W, R, seen
<1>6. /\ DOMAIN R = ListFields /\ R.entries = [W.entries EXCEPT ![i] = seen]
      /\ R.size = L.size /\ R.uncounted = (L.uncounted \/ rows # {i})
      /\ R.registered = L.registered /\ R.unflagged = L.unflagged \cup (WorksOf(L, rows) \ {NoWork})
  BY <1>3, <1>4 DEF ListFields
<1>7. /\ DOMAIN R.entries = DOMAIN L.entries \ (rows \ {i}) /\ R.entries[i] = seen
      /\ \A j \in DOMAIN R.entries \ {i} : R.entries[j] = L.entries[j]
  BY <1>3, <1>6
<1>8. ListShape(R)
  BY <1>1, <1>5, <1>6, <1>7 DEF ListShape
<1>9. ASSUME NEW x \in ListWorks \ (R.registered \cup R.unflagged \cup {w}) PROVE x \in documents <=> OnList(R.entries, x)
  <2>1. x # NoWork
    BY ListAssumption
  <2>2. x \notin WorksOf(L, rows) /\ x \notin L.registered \cup L.unflagged
    BY <1>6, <1>9, <2>1
  <2>3. \A j \in rows : L.entries[j].work # x
    BY <2>2 DEF WorksOf
  <2>4. OnList(L.entries, x) <=> OnList(R.entries, x)
    BY <1>5, <1>7, <1>9, <2>3 DEF OnList
  <2> QED BY <1>1, <1>9, <2>2, <2>4 DEF DocumentsAgree
<1>10. SizeAgrees(R)
  <2>1. CASE rows # {i}
    BY <1>6, <2>1 DEF SizeAgrees
  <2>2. CASE rows = {i}
    <3>1. DOMAIN R.entries = DOMAIN L.entries
      BY <1>7, <2>2
    <3> QED BY <1>1, <1>6, <2>2, <3>1 DEF SizeAgrees, ListShape
  <2> QED BY <2>1, <2>2
<1> QED BY <1>8, <1>9, <1>10 DEF R, DocumentsAgree

\* A row more, and counted.
LEMMA CountedIsGood ==
  ASSUME NEW L, GoodList(L), NEW e, NEW w, NEW t, Free(L) # {}
  PROVE  LET R == [Created(L, e, w, t) EXCEPT !.size = @ + 1]
         IN ListShape(R) /\ DocumentsAgree(R, {w}) /\ SizeAgrees(R) /\ R.registered = L.registered
<1> DEFINE C == Created(L, e, w, t)
           R == [C EXCEPT !.size = @ + 1]
<1>1. ListShape(L) /\ DocumentsAgree(L, {}) /\ SizeAgrees(L)
  BY DEF GoodList
<1>2. /\ ListShape(C) /\ DocumentsAgree(C, {w}) /\ C.size = L.size /\ C.uncounted = L.uncounted
      /\ C.registered = L.registered
      /\ Cardinality(DOMAIN C.entries) = Cardinality(DOMAIN L.entries) + 1
  BY <1>1, CreatedIsGood
<1> HIDE DEF C
<1>3. /\ DOMAIN R = ListFields /\ R.entries = C.entries /\ R.size = L.size + 1 /\ R.uncounted = L.uncounted
      /\ R.registered = C.registered /\ R.unflagged = C.unflagged
  BY <1>2 DEF ListShape, ListFields
<1> HIDE DEF R
<1>4. ListShape(R) /\ DocumentsAgree(R, {w})
  BY <1>2, <1>3 DEF ListShape, DocumentsAgree
<1>5. SizeAgrees(R)
  BY <1>1, <1>2, <1>3 DEF SizeAgrees
<1> QED BY <1>2, <1>3, <1>4, <1>5 DEF R, C

LEMMA WithEditionIsGood ==
  ASSUME NEW L, GoodList(L), NEW e, NEW t, NEW R \in WithEdition(L, e, t)
  PROVE  GoodList(R)
<1> DEFINE w == WorkOf(e)
           rows == EntriesFor(L, e, w)
<1>1. rows \subseteq DOMAIN L.entries
  BY DEF EntriesFor
<1> HIDE DEF w
<1>2. PICK S : /\ R = Flagged(S, {w})
               /\ \/ \E i \in rows : S = Merged(L, i, rows, e, w, t)
                  \/ Free(L) # {} /\ S = [Created(L, e, w, t) EXCEPT !.size = @ + 1]
  BY DEF WithEdition, w
<1> HIDE DEF rows
<1>3. ListShape(S) /\ DocumentsAgree(S, {w}) /\ SizeAgrees(S)
  <2>1. CASE \E i \in rows : S = Merged(L, i, rows, e, w, t)
    BY <1>1, <2>1, MergedIsGood
  <2>2. CASE Free(L) # {} /\ S = [Created(L, e, w, t) EXCEPT !.size = @ + 1]
    BY <2>2, CountedIsGood
  <2> QED BY <1>2, <2>1, <2>2
<1> QED BY <1>2, <1>3, FlaggedIsGood

\* Without its own registration, which is what a caller adds.
LEMMA WithWorkIsGood ==
  ASSUME NEW L, GoodList(L), NEW e, NEW w, NEW t, NEW R \in WithWork(L, e, w, t)
  PROVE  ListShape(R) /\ DocumentsAgree(R, {w}) /\ SizeAgrees(R) /\ R.registered = L.registered
<1>1. ListShape(L) /\ DocumentsAgree(L, {}) /\ SizeAgrees(L)
  BY DEF GoodList
<1>2. CASE Free(L) # {} /\ R = [Created(L, e, w, t) EXCEPT !.size = @ + 1]
  BY <1>2, CountedIsGood
<1>3. CASE \E i \in DOMAIN L.entries : R = [L EXCEPT !.entries[i] = Seen(@, t)]
  <2>1. PICK i \in DOMAIN L.entries : R = [L EXCEPT !.entries[i] = Seen(@, t)]
    BY <1>3
  <2> DEFINE seen == Seen(L.entries[i], t)
  <2>2. DOMAIN seen = EntryFields /\ seen.work = L.entries[i].work
    BY <1>1 DEF Seen, ListShape, EntryFields
  <2>3. R = [L EXCEPT !.entries[i] = seen]
    BY <2>1
  <2> HIDE DEF seen
  <2>4. /\ DOMAIN R = ListFields /\ R.entries = [L.entries EXCEPT ![i] = seen]
        /\ R.size = L.size /\ R.uncounted = L.uncounted
        /\ R.registered = L.registered /\ R.unflagged = L.unflagged
    BY <1>1, <2>3 DEF ListShape, ListFields
  <2>5. /\ DOMAIN R.entries = DOMAIN L.entries
        /\ \A j \in DOMAIN L.entries : R.entries[j].work = L.entries[j].work /\ DOMAIN R.entries[j] = EntryFields
    BY <1>1, <2>2, <2>4 DEF ListShape
  <2>6. ListShape(R)
    BY <1>1, <2>4, <2>5 DEF ListShape
  <2>7. DocumentsAgree(R, {w})
    BY <1>1, <2>4, <2>5 DEF DocumentsAgree, OnList
  <2>8. SizeAgrees(R)
    BY <1>1, <2>4, <2>5 DEF SizeAgrees
  <2> QED BY <2>4, <2>6, <2>7, <2>8
<1> QED BY <1>2, <1>3 DEF WithWork

LEMMA MaintainedIsGood ==
  ASSUME NEW L, GoodList(L), NEW e, NEW t, NEW R \in Maintained(L, e, t)
  PROVE  GoodList(R)
<1> DEFINE was == {i \in DOMAIN entries : entries[i].edition = e}
           rows == [i \in DOMAIN L.entries |->
                      IF i \in was THEN [L.entries[i] EXCEPT !.recent = t] ELSE L.entries[i]]
<1>1. ListShape(L) /\ DocumentsAgree(L, {}) /\ SizeAgrees(L)
  BY DEF GoodList
<1> HIDE DEF was
<1>2. CASE was = {} /\ R \in WithEdition(L, e, t)
  BY <1>2, WithEditionIsGood
<1>3. CASE R = [L EXCEPT !.entries = rows]
  <2>1. /\ DOMAIN rows = DOMAIN L.entries
        /\ \A j \in DOMAIN L.entries : rows[j].work = L.entries[j].work /\ DOMAIN rows[j] = EntryFields
    BY <1>1 DEF ListShape, EntryFields
  <2> HIDE DEF rows
  <2>2. /\ DOMAIN R = ListFields /\ R.entries = rows
        /\ R.size = L.size /\ R.uncounted = L.uncounted
        /\ R.registered = L.registered /\ R.unflagged = L.unflagged
    BY <1>1, <1>3 DEF ListShape, ListFields
  <2>3. ListShape(R)
    BY <1>1, <2>1, <2>2 DEF ListShape
  <2>4. DocumentsAgree(R, {})
    BY <1>1, <2>1, <2>2 DEF DocumentsAgree, OnList
  <2>5. SizeAgrees(R)
    BY <1>1, <2>1, <2>2 DEF SizeAgrees
  <2> QED BY <2>3, <2>4, <2>5 DEF GoodList
<1> QED BY <1>2, <1>3 DEF Maintained, was

LEMMA ManagedIsGood ==
  ASSUME GoodList(theList), NEW M, NEW t, NEW R \in Managed(M, t)
  PROVE  GoodList(R)
<1>1. PICK K \in Maintained(theList, M[1], t) :
        \E L \in IF Len(M) = 1 THEN {K} ELSE Maintained(K, M[2], t) :
          R = Dropped(L, Leftover(M) \cap DOMAIN L.entries)
  BY DEF Managed
<1>2. PICK L \in IF Len(M) = 1 THEN {K} ELSE Maintained(K, M[2], t) :
        R = Dropped(L, Leftover(M) \cap DOMAIN L.entries)
  BY <1>1
<1>3. GoodList(K)
  BY <1>1, MaintainedIsGood
<1>4. GoodList(L)
  BY <1>2, <1>3, MaintainedIsGood
<1>5. Leftover(M) \cap DOMAIN L.entries \in SUBSET DOMAIN L.entries
  OBVIOUS
<1> QED BY <1>2, <1>4, <1>5, DroppedIsGood

\* What is known of the list and of what is written about it.
ListsInv ==
  /\ uncounted \in BOOLEAN /\ DOMAIN entries \subseteq 1..MaxEntries
  /\ \A i \in DOMAIN entries : DOMAIN entries[i] = EntryFields
  /\ ListsAreWrittenDown

LEMMA TheListIsGood ==
  ASSUME ListsInv
  PROVE  GoodList(theList)
<1>1. /\ DOMAIN theList = ListFields /\ theList.entries = entries /\ theList.size = size
      /\ theList.registered = registered /\ theList.unflagged = unflagged /\ theList.uncounted = uncounted
  BY DEF theList, ListFields
<1> HIDE DEF theList
<1> QED BY <1>1 DEF ListsInv, GoodList, ListShape, DocumentsAgree, SizeAgrees, ListsAreWrittenDown

LEMMA BecomesGood ==
  ASSUME NEW L, GoodList(L), Becomes(L), UNCHANGED documents
  PROVE  ListsInv'
<1>1. /\ DOMAIN L.entries \subseteq 1..MaxEntries /\ L.uncounted \in BOOLEAN
      /\ \A i \in DOMAIN L.entries : DOMAIN L.entries[i] = EntryFields
      /\ \A w \in ListWorks \ (L.registered \cup L.unflagged) : w \in documents <=> OnList(L.entries, w)
      /\ ~L.uncounted => L.size = Cardinality(DOMAIN L.entries)
  BY DEF GoodList, ListShape, DocumentsAgree, SizeAgrees
<1>2. ListsAreWrittenDown'
  BY <1>1 DEF Becomes, ListsAreWrittenDown, OnList
<1>3. /\ uncounted' \in BOOLEAN /\ DOMAIN entries' \subseteq 1..MaxEntries
      /\ \A i \in DOMAIN entries' : DOMAIN entries'[i] = EntryFields
  BY <1>1 DEF Becomes
<1> QED BY <1>2, <1>3 DEF ListsInv

LEMMA SettleIsGood ==
  ASSUME ListsInv, UNCHANGED documents, NEW i \in DOMAIN entries, NEW w, Settle(i, w)
  PROVE  ListsInv'
<1> DEFINE ws == IF entries[i].work = w THEN {} ELSE {w, entries[i].work}
           U == Unflagged(theList, ws)
           R == [U EXCEPT !.entries[i].work = w]
<1>1. /\ DOMAIN U = ListFields /\ U.entries = entries /\ U.size = size /\ U.uncounted = uncounted
      /\ U.registered = registered /\ U.unflagged = unflagged \cup (ws \ {NoWork})
  BY DEF Unflagged, theList, ListFields
<1>2. Becomes(R)
  BY DEF Settle
<1> HIDE DEF U
<1>3. /\ entries' = [entries EXCEPT ![i].work = w] /\ size' = size /\ uncounted' = uncounted
      /\ registered' = registered /\ unflagged' = unflagged \cup (ws \ {NoWork})
  BY <1>1, <1>2 DEF Becomes, ListFields
<1>4. /\ DOMAIN entries' = DOMAIN entries
      /\ \A j \in DOMAIN entries : DOMAIN entries'[j] = EntryFields /\ (j # i => entries'[j] = entries[j])
      /\ entries'[i].work = w
  BY <1>3 DEF ListsInv, EntryFields
<1>5. ASSUME NEW x \in ListWorks \ (registered' \cup unflagged') PROVE OnList(entries, x) <=> OnList(entries', x)
  <2>1. x # NoWork
    BY ListAssumption
  <2> QED BY <1>3, <1>4, <1>5, <2>1 DEF OnList
<1>6. ListsAreWrittenDown'
  BY <1>3, <1>4, <1>5 DEF ListsInv, ListsAreWrittenDown
<1> QED BY <1>3, <1>4, <1>6 DEF ListsInv

LEMMA ImportTitleIsGood ==
  ASSUME ListsInv, UNCHANGED documents, NEW e, NEW first, NEW t, ImportTitle(e, first, t)
  PROVE  ListsInv'
<1> DEFINE rows == {i \in DOMAIN entries : entries[i].edition = e}
<1>1. PICK w \in SettledWorks(e) :
        IF rows = {}
        THEN LET L == Created(theList, e, w, t)
             IN Becomes([Unflagged(L, {w}) EXCEPT
                           !.entries[Min(Free(theList))].first = first, !.uncounted = TRUE])
        ELSE LET i == CHOOSE j \in rows : TRUE
                 entry == [Seen(entries[i], t) EXCEPT !.first = Min({@, first}), !.work = w]
             IN Becomes([Unflagged(theList, IF entries[i].work = w THEN {} ELSE {w, entries[i].work})
                           EXCEPT !.entries[i] = entry])
  BY DEF ImportTitle
<1>2. GoodList(theList)
  BY TheListIsGood
<1>3. CASE rows = {}
  <2> DEFINE C == Created(theList, e, w, t)
             n == Min(Free(theList))
             U == Unflagged(C, {w})
  <2>1. Free(theList) # {}
    BY <1>3 DEF ImportTitle
  <2>2. /\ ListShape(C) /\ DocumentsAgree(C, {w}) /\ n \in DOMAIN C.entries
    BY <1>2, <2>1, CreatedIsGood DEF GoodList
  <2>3. Becomes([U EXCEPT !.entries[n].first = first, !.uncounted = TRUE])
    BY <1>1, <1>3
  <2> HIDE DEF C, n
  <2>4. /\ DOMAIN U = ListFields /\ U.entries = C.entries
        /\ U.registered = C.registered /\ U.unflagged = C.unflagged \cup ({w} \ {NoWork})
    BY <2>2 DEF Unflagged, ListShape, ListFields
  <2> HIDE DEF U
  <2>5. /\ entries' = [C.entries EXCEPT ![n].first = first] /\ uncounted' = TRUE
        /\ registered' = C.registered /\ unflagged' = C.unflagged \cup ({w} \ {NoWork})
    BY <2>3, <2>4 DEF Becomes, ListFields
  <2>6. /\ DOMAIN entries' = DOMAIN C.entries
        /\ \A j \in DOMAIN C.entries : DOMAIN entries'[j] = EntryFields /\ entries'[j].work = C.entries[j].work
    BY <2>2, <2>5 DEF ListShape, EntryFields
  <2>7. NoWork \notin ListWorks
    BY ListAssumption
  <2>8. ListsAreWrittenDown'
    BY <2>2, <2>5, <2>6, <2>7 DEF ListsAreWrittenDown, DocumentsAgree, OnList
  <2> QED BY <2>2, <2>5, <2>6, <2>8 DEF ListsInv, ListShape
<1>4. CASE rows # {}
  <2> DEFINE i == CHOOSE j \in rows : TRUE
             ws == IF entries[i].work = w THEN {} ELSE {w, entries[i].work}
             U == Unflagged(theList, ws)
             row == [Seen(entries[i], t) EXCEPT !.first = Min({@, first}), !.work = w]
  <2>1. i \in DOMAIN entries
    BY <1>4
  <2>2. Becomes([U EXCEPT !.entries[i] = row])
    BY <1>1, <1>4
  <2> HIDE DEF i
  <2>3. DOMAIN row = EntryFields /\ row.work = w
    BY <2>1 DEF Seen, ListsInv, EntryFields
  <2>4. /\ DOMAIN U = ListFields /\ U.entries = entries /\ U.size = size /\ U.uncounted = uncounted
        /\ U.registered = registered /\ U.unflagged = unflagged \cup (ws \ {NoWork})
    BY DEF Unflagged, theList, ListFields
  <2> HIDE DEF U, row
  <2>5. /\ entries' = [entries EXCEPT ![i] = row] /\ size' = size /\ uncounted' = uncounted
        /\ registered' = registered /\ unflagged' = unflagged \cup (ws \ {NoWork})
    BY <2>2, <2>4 DEF Becomes, ListFields
  <2>6. /\ DOMAIN entries' = DOMAIN entries
        /\ \A j \in DOMAIN entries : DOMAIN entries'[j] = EntryFields /\ (j # i => entries'[j] = entries[j])
        /\ entries'[i].work = w
    BY <2>1, <2>3, <2>5 DEF ListsInv
  <2>7. ASSUME NEW x \in ListWorks \ (registered' \cup unflagged') PROVE OnList(entries, x) <=> OnList(entries', x)
    <3>1. x # NoWork
      BY ListAssumption
    <3> QED BY <2>1, <2>5, <2>6, <2>7, <3>1 DEF OnList
  <2>8. ListsAreWrittenDown'
    BY <2>5, <2>6, <2>7 DEF ListsInv, ListsAreWrittenDown
  <2> QED BY <2>5, <2>6, <2>8 DEF ListsInv
<1> QED BY <1>3, <1>4

LEMMA ChangeListIsGood ==
  ASSUME ListsInv, ChangeList
  PROVE  ListsInv'
<1>1. GoodList(theList) /\ UNCHANGED documents
  BY TheListIsGood DEF ChangeList
<1>2. theList.entries = entries
  BY DEF theList
<1>3. ASSUME NEW e \in Editions, NEW t, AddEdition(e, t) PROVE ListsInv'
  BY <1>1, <1>3, WithEditionIsGood, BecomesGood DEF AddEdition
<1>4. ASSUME NEW e \in Editions, RemoveEdition(e) PROVE ListsInv'
  <2>1. EntriesFor(theList, e, WorkOf(e)) \in SUBSET DOMAIN theList.entries
    BY DEF EntriesFor
  <2> QED BY <1>1, <1>4, <2>1, RemovedIsGood, BecomesGood DEF RemoveEdition
<1>5. ASSUME NEW w \in ListWorks, NEW t, AddWork(w, t) PROVE ListsInv'
  <2>1. PICK L \in WithWork(theList, presentation[w], w, t) : Becomes(Flagged(L, {w}))
    BY <1>5 DEF AddWork
  <2>2. GoodList(Flagged(L, {w}))
    BY <1>1, WithWorkIsGood, FlaggedIsGood
  <2> QED BY <1>1, <2>1, <2>2, BecomesGood
<1>6. ASSUME NEW w \in ListWorks, RemoveWork(w) PROVE ListsInv'
  <2>1. EntriesFor(theList, presentation[w], w) \in SUBSET DOMAIN theList.entries
    BY DEF EntriesFor
  <2> QED BY <1>1, <1>6, <2>1, RemovedIsGood, BecomesGood DEF RemoveWork
<1>7. ASSUME NEW M, NEW t, MembershipUpdate(M, t) PROVE ListsInv'
  BY <1>1, <1>7, ManagedIsGood, BecomesGood DEF MembershipUpdate
<1>8. ASSUME NEW e \in Editions, NEW first, NEW t, ImportTitle(e, first, t) PROVE ListsInv'
  BY <1>1, <1>8, ImportTitleIsGood
<1>9. ASSUME NEW i \in DOMAIN entries, NEW w, Settle(i, w) PROVE ListsInv'
  BY <1>1, <1>9, SettleIsGood
<1> QED BY <1>3, <1>4, <1>5, <1>6, <1>7, <1>8, <1>9 DEF ChangeList

LEMMA PoolJoinsIsGood ==
  ASSUME ListsInv, NEW e \in Editions, PoolJoins(e)
  PROVE  ListsInv'
<1> DEFINE w == PoolWork[e]
           L == Flagged(theList, PoolRegisters(w))
<1>1. GoodList(theList) /\ UNCHANGED documents /\ w # NoWork
  BY TheListIsGood DEF PoolJoins
<1>2. DocumentsAgree(theList, {w}) /\ ListShape(theList) /\ SizeAgrees(theList)
  BY <1>1 DEF GoodList, DocumentsAgree
<1>3. GoodList(L)
  BY <1>2, FlaggedIsGood DEF PoolRegisters
<1>4. w \in L.registered
  BY <1>1 DEF Flagged, PoolRegisters, theList
<1>5. CASE Becomes(L)
  BY <1>1, <1>3, <1>5, BecomesGood
<1>6. CASE \E t \in 1..MaxListTime : \E N \in WithWork(L, presentation'[w], w, t) : Becomes(N)
  <2> HIDE DEF w, L
  <2>1. PICK t \in 1..MaxListTime : \E N \in WithWork(L, presentation'[w], w, t) : Becomes(N)
    BY <1>6
  <2>2. PICK N \in WithWork(L, presentation'[w], w, t) : Becomes(N)
    BY <2>1
  <2>3. ListShape(N) /\ DocumentsAgree(N, {w}) /\ SizeAgrees(N) /\ w \in N.registered
    BY <1>3, <1>4, WithWorkIsGood
  <2>4. GoodList(N)
    BY <2>3 DEF GoodList, DocumentsAgree
  <2> QED BY <1>1, <2>2, <2>4, BecomesGood
<1> QED BY <1>5, <1>6 DEF PoolJoins

LEMMA ListsBegin == ListsInit => ListsInv
<1> SUFFICES ASSUME ListsInit PROVE ListsInv
  OBVIOUS
<1>1. DOMAIN entries = {}
  BY DEF ListsInit
<1>2. size = Cardinality(DOMAIN entries)
  BY <1>1, FS_EmptySet DEF ListsInit
<1> QED BY <1>1, <1>2 DEF ListsInit, ListsInv, ListsAreWrittenDown, OnList

LEMMA ListsStep ==
  ASSUME ListsInv, [ListsNext]_listsVars
  PROVE  ListsInv'
<1> USE DEF ListsInv, ListsAreWrittenDown, OnList
<1>1. CASE ChangeList
  BY <1>1, ChangeListIsGood DEF ListsInv
<1>2. CASE \E e \in Editions : PoolJoins(e)
  BY <1>2, PoolJoinsIsGood
<1>3. ASSUME NEW w \in ListWorks, NEW e \in Editions, ChooseAnother(w, e) PROVE ListsInv'
  BY <1>3 DEF ChooseAnother
<1>4. ASSUME NEW c \in Claims, Equate(c) PROVE ListsInv'
  BY <1>4 DEF Equate
<1>5. ASSUME NEW w \in ListWorks, IndexListed(w) PROVE ListsInv'
  BY <1>5 DEF IndexListed
<1>6. CASE UpdateSize
  BY <1>6 DEF UpdateSize
<1>7. CASE UNCHANGED listsVars
  BY <1>7 DEF listsVars
<1> QED BY <1>1, <1>2, <1>3, <1>4, <1>5, <1>6, <1>7 DEF ListsNext

(***************************************************************************)
(* What is written about a list agrees with it: its size with its rows,    *)
(* and every document that nobody is to write again with who is on it.     *)
(***************************************************************************)
THEOREM ListsAreWrittenOut == ListsSpec => []ListsAreWrittenDown
<1>1. ListsInv => ListsAreWrittenDown
  BY DEF ListsInv
<1> QED BY <1>1, ListsBegin, ListsStep, PTL DEF ListsSpec

-----------------------------------------------------------------------------
(***************************************************************************)
(* A book stays on its list.                                               *)
(***************************************************************************)
RowsTyped(rows) == \A i \in DOMAIN rows : rows[i].edition \in Editions /\ rows[i].first \in Nat

\* A row goes on in another one, or in itself.
Continues(old, new) ==
  /\ new.first <= old.first
  /\ new.edition \in Equivalents(old.edition) \/ (old.work # NoWork /\ new.work = old.work)

Keeps(rows, later) == \A i \in DOMAIN rows : \E j \in DOMAIN later : Continues(rows[i], later[j])

\* A row of the same edition, with a first appearance that is not later.
LEMMA SameEditionGoesOn ==
  ASSUME ClaimsMade, NEW old, NEW new, old.edition \in Editions, new.edition = old.edition, new.first <= old.first
  PROVE  Continues(old, new)
BY EquivalentsFindEachOther DEF Continues

LEMMA KeptRows ==
  ASSUME ClaimsMade, NEW rows, RowsTyped(rows), NEW later, DOMAIN rows \subseteq DOMAIN later,
         \A i \in DOMAIN rows : later[i].edition = rows[i].edition /\ later[i].first <= rows[i].first
  PROVE  Keeps(rows, later)
<1> SUFFICES ASSUME NEW i \in DOMAIN rows PROVE Continues(rows[i], later[i])
  BY DEF Keeps
<1> QED BY SameEditionGoesOn DEF RowsTyped

LEMMA LeastOf ==
  ASSUME NEW S \in SUBSET Nat, S # {}
  PROVE  Min(S) \in S /\ \A x \in S : Min(S) <= x
<1>1. \E n \in S : \A j \in S : n <= j
  BY LeastPosition
<1> QED BY <1>1 DEF Min

LEMMA RemovedRows ==
  ASSUME NEW L, GoodList(L), NEW rows \in SUBSET DOMAIN L.entries
  PROVE  /\ Removed(L, rows).entries = [i \in DOMAIN L.entries \ rows |-> L.entries[i]]
         /\ Dropped(L, rows).entries = [i \in DOMAIN L.entries \ rows |-> L.entries[i]]
<1> DEFINE W == Without(Flagged(L, WorksOf(L, rows)), rows)
           V == Without(Unflagged(L, WorksOf(L, rows)), rows)
<1>1. /\ DOMAIN W = ListFields /\ W.entries = [i \in DOMAIN L.entries \ rows |-> L.entries[i]]
      /\ DOMAIN V = ListFields /\ V.entries = [i \in DOMAIN L.entries \ rows |-> L.entries[i]]
  BY WithoutIsGood DEF ListShape
<1>2. Removed(L, rows) = [W EXCEPT !.size = @ - Cardinality(rows)]
  BY DEF Removed
<1>3. Dropped(L, rows) = [V EXCEPT !.uncounted = @ \/ rows # {}]
  BY DEF Dropped
<1> HIDE DEF W, V
<1> QED BY <1>1, <1>2, <1>3 DEF ListFields

IsMerged(later, L, i, rows, e, w) ==
  /\ DOMAIN later = DOMAIN L.entries \ (rows \ {i})
  /\ later[i].edition = e /\ later[i].work = w /\ later[i].first = Min({L.entries[j].first : j \in rows})
  /\ \A j \in DOMAIN later \ {i} : later[j] = L.entries[j]

LEMMA MergedRows ==
  ASSUME NEW L, GoodList(L), NEW rows \in SUBSET DOMAIN L.entries, NEW i \in rows, NEW e, NEW w, NEW t
  PROVE  IsMerged(Merged(L, i, rows, e, w, t).entries, L, i, rows, e, w)
<1> DEFINE F == Min({L.entries[j].first : j \in rows})
           G == Max({L.entries[j].recent : j \in rows})
           entry == [edition |-> e, work |-> w, first |-> F, recent |-> G]
           seen == Seen(entry, t)
           U == Unflagged(L, WorksOf(L, rows))
           W == Without(U, rows \ {i})
           R == Merged(L, i, rows, e, w, t)
<1>1. DOMAIN U = ListFields /\ U.entries = L.entries
  BY DEF Unflagged, GoodList, ListShape, ListFields
<1> HIDE DEF U
<1>2. DOMAIN W = ListFields /\ W.entries = [j \in DOMAIN L.entries \ (rows \ {i}) |-> L.entries[j]]
  BY <1>1 DEF Without, ListFields
<1>3. R = [W EXCEPT !.entries[i] = seen, !.uncounted = @ \/ rows # {i}]
  BY DEF Merged, U
<1> HIDE DEF F, G
<1>4. seen.edition = e /\ seen.work = w /\ seen.first = F
  BY DEF Seen
<1> HIDE DEF W, R, seen
<1>5. R.entries = [W.entries EXCEPT ![i] = seen]
  BY <1>2, <1>3 DEF ListFields
<1> QED BY <1>2, <1>4, <1>5 DEF R, F, IsMerged

LEMMA CreatedRows ==
  ASSUME NEW L, GoodList(L), NEW e, NEW w, NEW t, Free(L) # {}
  PROVE  LET C == Created(L, e, w, t)
             n == Min(Free(L))
         IN /\ ListShape(C) /\ n \notin DOMAIN L.entries /\ DOMAIN C.entries = DOMAIN L.entries \cup {n}
            /\ C.entries[n] = [edition |-> e, work |-> w, first |-> t, recent |-> t]
            /\ \A i \in DOMAIN L.entries : C.entries[i] = L.entries[i]
            /\ [C EXCEPT !.size = @ + 1].entries = C.entries
<1> DEFINE n == Min(Free(L))
           new == [edition |-> e, work |-> w, first |-> t, recent |-> t]
           C == Created(L, e, w, t)
<1>1. ListShape(C)
  <2>1. ListShape(L) /\ DocumentsAgree(L, {})
    BY DEF GoodList
  <2> QED BY <2>1, CreatedIsGood
<1>2. n \notin DOMAIN L.entries
  BY RowsAreFree DEF Free
<1>3. C.entries = [i \in DOMAIN L.entries \cup {n} |-> IF i \in DOMAIN L.entries THEN L.entries[i] ELSE new]
  BY DEF Created, GoodList, ListShape, ListFields
<1> HIDE DEF C, n, new
<1>4. /\ DOMAIN C.entries = DOMAIN L.entries \cup {n} /\ C.entries[n] = new
      /\ \A i \in DOMAIN L.entries : C.entries[i] = L.entries[i]
  BY <1>2, <1>3
<1>5. [C EXCEPT !.size = @ + 1].entries = C.entries
  BY <1>1 DEF ListShape, ListFields
<1> QED BY <1>1, <1>2, <1>4, <1>5 DEF C, n, new

\* A row goes on as it is, or both it and the one it goes on in are entries of the
\* edition that is added.
LEMMA WithEditionKeeps ==
  ASSUME ClaimsMade, NEW L, GoodList(L), RowsTyped(L.entries), NEW e \in Editions, NEW t \in Nat,
         NEW R \in WithEdition(L, e, t)
  PROVE  /\ RowsTyped(R.entries)
         /\ \A i \in DOMAIN L.entries : \E j \in DOMAIN R.entries :
              Continues(L.entries[i], R.entries[j]) /\ (i = j \/ {i, j} \subseteq EntriesFor(L, e, WorkOf(e)))
<1> DEFINE w == WorkOf(e)
           rows == EntriesFor(L, e, w)
<1>1. rows \subseteq DOMAIN L.entries
  BY DEF EntriesFor
<1>2. \A i \in rows : L.entries[i].edition \in Equivalents(e) \/ (w # NoWork /\ L.entries[i].work = w)
  BY DEF EntriesFor
<1> HIDE DEF w
<1>3. PICK S : /\ R = Flagged(S, {w})
               /\ \/ \E i \in rows : S = Merged(L, i, rows, e, w, t)
                  \/ Free(L) # {} /\ S = [Created(L, e, w, t) EXCEPT !.size = @ + 1]
  BY DEF WithEdition, w
<1> HIDE DEF rows
<1>4. ListShape(S)
  <2>1. ASSUME NEW i \in rows PROVE ListShape(Merged(L, i, rows, e, w, t))
    BY <1>1, MergedIsGood
  <2>2. Free(L) # {} => ListShape([Created(L, e, w, t) EXCEPT !.size = @ + 1])
    BY CountedIsGood
  <2> QED BY <1>3, <2>1, <2>2
<1>5. R.entries = S.entries
  BY <1>3, <1>4 DEF Flagged, ListShape, ListFields
<1>6. \A i \in DOMAIN L.entries : Continues(L.entries[i], L.entries[i])
  BY SameEditionGoesOn DEF RowsTyped
<1>7. CASE \E i \in rows : S = Merged(L, i, rows, e, w, t)
  <2>1. PICK i \in rows : S = Merged(L, i, rows, e, w, t)
    BY <1>7
  <2> DEFINE firsts == {L.entries[j].first : j \in rows}
  <2>2. /\ DOMAIN S.entries = DOMAIN L.entries \ (rows \ {i})
        /\ S.entries[i].edition = e /\ S.entries[i].work = w /\ S.entries[i].first = Min(firsts)
        /\ \A j \in DOMAIN S.entries \ {i} : S.entries[j] = L.entries[j]
    <3>1. rows \in SUBSET DOMAIN L.entries
      BY <1>1
    <3>2. IsMerged(S.entries, L, i, rows, e, w)
      BY <2>1, <3>1, MergedRows
    <3> QED BY <3>2 DEF IsMerged
  <2>3. firsts \in SUBSET Nat /\ firsts # {}
    BY <1>1, <2>1 DEF RowsTyped
  <2>4. Min(firsts) \in Nat /\ \A j \in rows : Min(firsts) <= L.entries[j].first
    <3>1. \A j \in rows : L.entries[j].first \in firsts
      OBVIOUS
    <3> HIDE DEF firsts
    <3>2. Min(firsts) \in firsts /\ \A x \in firsts : Min(firsts) <= x
      BY <2>3, LeastOf
    <3> QED BY <2>3, <3>1, <3>2
  <2> HIDE DEF firsts
  <2>5. RowsTyped(S.entries)
    BY <1>1, <2>2, <2>4 DEF RowsTyped
  <2>6. ASSUME NEW j \in rows PROVE Continues(L.entries[j], S.entries[i])
    <3>1. L.entries[j].edition \in Editions
      BY <1>1 DEF RowsTyped
    <3>2. L.entries[j].edition \in Equivalents(e) => e \in Equivalents(L.entries[j].edition)
      BY <3>1, EquivalentsFindEachOther
    <3> QED BY <1>2, <2>2, <2>4, <3>2 DEF Continues
  <2>7. ASSUME NEW j \in DOMAIN L.entries
        PROVE  \E k \in DOMAIN S.entries : Continues(L.entries[j], S.entries[k]) /\ (j = k \/ {j, k} \subseteq rows)
    <3>1. CASE j \in rows
      BY <1>1, <2>1, <2>2, <2>6, <3>1
    <3>2. CASE j \notin rows
      BY <1>6, <2>1, <2>2, <3>2
    <3> QED BY <3>1, <3>2
  <2> QED BY <1>5, <2>5, <2>7 DEF rows, w
<1>8. CASE Free(L) # {} /\ S = [Created(L, e, w, t) EXCEPT !.size = @ + 1]
  <2> DEFINE C == Created(L, e, w, t)
             n == Min(Free(L))
  <2>1. /\ n \notin DOMAIN L.entries /\ DOMAIN C.entries = DOMAIN L.entries \cup {n}
        /\ C.entries[n] = [edition |-> e, work |-> w, first |-> t, recent |-> t]
        /\ \A i \in DOMAIN L.entries : C.entries[i] = L.entries[i]
        /\ S.entries = C.entries
    BY <1>8, CreatedRows
  <2> HIDE DEF C, n
  <2>2. RowsTyped(S.entries)
    BY <2>1 DEF RowsTyped
  <2>3. \A j \in DOMAIN L.entries : j \in DOMAIN S.entries /\ Continues(L.entries[j], S.entries[j])
    BY <1>6, <2>1
  <2> QED BY <1>5, <2>2, <2>3
<1> QED BY <1>3, <1>7, <1>8

LEMMA WithWorkKeeps ==
  ASSUME ClaimsMade, NEW L, GoodList(L), RowsTyped(L.entries), NEW e \in Editions, NEW w, NEW t \in Nat,
         NEW R \in WithWork(L, e, w, t)
  PROVE  RowsTyped(R.entries) /\ Keeps(L.entries, R.entries)
<1>1. CASE Free(L) # {} /\ R = [Created(L, e, w, t) EXCEPT !.size = @ + 1]
  <2> DEFINE C == Created(L, e, w, t)
             n == Min(Free(L))
  <2>1. /\ DOMAIN C.entries = DOMAIN L.entries \cup {n}
        /\ C.entries[n] = [edition |-> e, work |-> w, first |-> t, recent |-> t]
        /\ \A i \in DOMAIN L.entries : C.entries[i] = L.entries[i]
        /\ R.entries = C.entries
    BY <1>1, CreatedRows
  <2> HIDE DEF C, n
  <2>2. RowsTyped(R.entries)
    BY <2>1 DEF RowsTyped
  <2>3. \A i \in DOMAIN L.entries :
          R.entries[i].edition = L.entries[i].edition /\ R.entries[i].first <= L.entries[i].first
    BY <2>1 DEF RowsTyped
  <2> QED BY <2>1, <2>2, <2>3, KeptRows
<1>2. CASE \E i \in DOMAIN L.entries : R = [L EXCEPT !.entries[i] = Seen(@, t)]
  <2>1. PICK i \in DOMAIN L.entries : R = [L EXCEPT !.entries[i] = Seen(@, t)]
    BY <1>2
  <2> DEFINE seen == Seen(L.entries[i], t)
  <2>2. seen.edition = L.entries[i].edition /\ seen.first = L.entries[i].first
    BY DEF Seen, GoodList, ListShape, EntryFields
  <2>3. R = [L EXCEPT !.entries[i] = seen]
    BY <2>1
  <2> HIDE DEF seen
  <2>4. R.entries = [L.entries EXCEPT ![i] = seen]
    BY <2>3 DEF GoodList, ListShape, ListFields
  <2>5. /\ DOMAIN R.entries = DOMAIN L.entries
        /\ \A j \in DOMAIN L.entries :
             R.entries[j].edition = L.entries[j].edition /\ R.entries[j].first = L.entries[j].first
    BY <2>2, <2>4
  <2>6. RowsTyped(R.entries) /\ \A j \in DOMAIN L.entries : R.entries[j].first <= L.entries[j].first
    BY <2>5 DEF RowsTyped
  <2> QED BY <2>5, <2>6, KeptRows
<1> QED BY <1>1, <1>2 DEF WithWork

(***************************************************************************)
(* A MembershipManager.                                                    *)
(***************************************************************************)
Member(e) == \E i \in DOMAIN entries : entries[i].edition = e

SameRows(rows, later) ==
  /\ DOMAIN later = DOMAIN rows
  /\ \A i \in DOMAIN rows : /\ later[i].edition = rows[i].edition
                            /\ later[i].work = rows[i].work
                            /\ later[i].first = rows[i].first

LEMMA MembersAreSeen ==
  ASSUME NEW L, GoodList(L), NEW e, Member(e), NEW t, NEW R \in Maintained(L, e, t)
  PROVE  SameRows(L.entries, R.entries)
<1> DEFINE was == {i \in DOMAIN entries : entries[i].edition = e}
           rows == [i \in DOMAIN L.entries |->
                      IF i \in was THEN [L.entries[i] EXCEPT !.recent = t] ELSE L.entries[i]]
<1>1. R = [L EXCEPT !.entries = rows]
  BY DEF Maintained, Member
<1>2. \A j \in DOMAIN L.entries : DOMAIN L.entries[j] = EntryFields
  BY DEF GoodList, ListShape
<1>3. SameRows(L.entries, rows)
  BY <1>2 DEF SameRows, EntryFields
<1> HIDE DEF rows
<1>4. R.entries = rows
  BY <1>1 DEF GoodList, ListShape, ListFields
<1> QED BY <1>3, <1>4

LEMMA StrangersAreAdded ==
  ASSUME NEW L, NEW e, ~Member(e), NEW t
  PROVE  Maintained(L, e, t) = WithEdition(L, e, t)
BY DEF Maintained, Member

\* A row goes on in itself or in another one, with which it is an entry of some new
\* member who was none before.
ContinuesWith(i, j, new, M) ==
  \/ i = j
  \/ \E k \in DOMAIN M : new = M[k] /\ ~Member(new) /\ {i, j} \subseteq EntriesFor(theList, new, WorkOf(new))

LEMMA SameRowsKeep ==
  ASSUME ClaimsMade, NEW rows, RowsTyped(rows), NEW later, SameRows(rows, later)
  PROVE  /\ RowsTyped(later)
         /\ \A old, i : Continues(old, later[i]) /\ i \in DOMAIN rows <=> Continues(old, rows[i]) /\ i \in DOMAIN later
BY DEF SameRows, RowsTyped, Continues

LEMMA SameRowsFound ==
  ASSUME NEW L, NEW K, SameRows(L.entries, K.entries), NEW e, NEW w
  PROVE  EntriesFor(K, e, w) = EntriesFor(L, e, w)
BY DEF SameRows, EntriesFor

\* Before the left-over entries go.
LEMMA MembersAreKept ==
  ASSUME ClaimsMade, GoodList(theList), RowsTyped(entries), NEW t \in Nat, NEW e \in Editions, NEW f \in Editions,
         Member(e) \/ Member(f),
         NEW K \in Maintained(theList, e, t), NEW L \in Maintained(K, f, t)
  PROVE  /\ RowsTyped(L.entries)
         /\ \A i \in DOMAIN entries : \E j \in DOMAIN L.entries :
              Continues(entries[i], L.entries[j]) /\ \E new \in {e, f} : ContinuesWith(i, j, new, <<e, f>>)
<1>0. theList.entries = entries
  BY DEF theList
<1>1. GoodList(K)
  BY MaintainedIsGood
<1>2. \A i \in DOMAIN entries : Continues(entries[i], entries[i])
  BY SameEditionGoesOn DEF RowsTyped
<1>3. \A x, y \in {e, f} : \A i, j :
        ~Member(x) /\ (i = j \/ {i, j} \subseteq EntriesFor(theList, x, WorkOf(x))) => ContinuesWith(i, j, x, <<e, f>>)
  BY DEF ContinuesWith
<1>4. CASE Member(e) /\ Member(f)
  <2>1. SameRows(entries, K.entries) /\ SameRows(K.entries, L.entries)
    BY <1>0, <1>1, <1>4, MembersAreSeen
  <2>2. SameRows(entries, L.entries)
    BY <2>1 DEF SameRows
  <2>3. RowsTyped(L.entries) /\ \A i \in DOMAIN entries : i \in DOMAIN L.entries /\ Continues(entries[i], L.entries[i])
    BY <1>2, <2>2, SameRowsKeep DEF SameRows
  <2> QED BY <2>3 DEF ContinuesWith
<1>5. CASE Member(e) /\ ~Member(f)
  <2>1. SameRows(entries, K.entries)
    BY <1>0, <1>5, MembersAreSeen
  <2>2. RowsTyped(K.entries) /\ L \in WithEdition(K, f, t)
    BY <1>5, <2>1, SameRowsKeep, StrangersAreAdded
  <2>3. /\ RowsTyped(L.entries)
        /\ \A i \in DOMAIN K.entries : \E j \in DOMAIN L.entries :
             Continues(K.entries[i], L.entries[j]) /\ (i = j \/ {i, j} \subseteq EntriesFor(K, f, WorkOf(f)))
    BY <1>1, <2>2, WithEditionKeeps
  <2>4. EntriesFor(K, f, WorkOf(f)) = EntriesFor(theList, f, WorkOf(f))
    BY <1>0, <2>1, SameRowsFound
  <2>5. DOMAIN K.entries = DOMAIN entries /\ \A i \in DOMAIN entries : \A new : Continues(K.entries[i], new) => Continues(entries[i], new)
    BY <2>1 DEF SameRows, Continues
  <2> QED BY <1>3, <1>5, <2>3, <2>4, <2>5
<1>6. CASE ~Member(e) /\ Member(f)
  <2>1. K \in WithEdition(theList, e, t)
    BY <1>6, StrangersAreAdded
  <2>2. /\ RowsTyped(K.entries)
        /\ \A i \in DOMAIN entries : \E j \in DOMAIN K.entries :
             Continues(entries[i], K.entries[j]) /\ (i = j \/ {i, j} \subseteq EntriesFor(theList, e, WorkOf(e)))
    BY <1>0, <2>1, WithEditionKeeps
  <2>3. SameRows(K.entries, L.entries)
    BY <1>1, <1>6, MembersAreSeen
  <2>4. RowsTyped(L.entries) /\ DOMAIN L.entries = DOMAIN K.entries
    BY <2>2, <2>3, SameRowsKeep DEF SameRows
  <2>5. \A old, j : Continues(old, K.entries[j]) /\ j \in DOMAIN K.entries => Continues(old, L.entries[j])
    BY <2>3 DEF SameRows, Continues
  <2> QED BY <1>3, <1>6, <2>2, <2>4, <2>5
<1> QED BY <1>4, <1>5, <1>6

LEMMA MaintainedTyped ==
  ASSUME ClaimsMade, NEW L, GoodList(L), RowsTyped(L.entries), NEW e \in Editions, NEW t \in Nat,
         NEW R \in Maintained(L, e, t)
  PROVE  RowsTyped(R.entries)
<1>1. CASE Member(e)
  BY <1>1, MembersAreSeen, SameRowsKeep
<1>2. CASE ~Member(e)
  BY <1>2, StrangersAreAdded, WithEditionKeeps
<1> QED BY <1>1, <1>2

LEMMA StaysIfGoesOn ==
  ASSUME NEW i \in DOMAIN entries, NEW j \in DOMAIN entries', Continues(entries[i], entries'[j])
  PROVE  Stays(i)
BY DEF Continues, Stays

LEMMA MembershipKeeps ==
  ASSUME ClaimsMade, GoodList(theList), RowsTyped(entries), NEW t \in 1..MaxListTime,
         NEW e \in Editions, NEW f \in Editions, NEW M, M = IF e = f THEN <<e>> ELSE <<e, f>>, MembershipUpdate(M, t)
  PROVE  RowsTyped(entries') /\ \A i \in DOMAIN entries : Stays(i) \/ Dismissed(i)
<1>0. theList.entries = entries /\ t \in Nat
  BY ListAssumption DEF theList
<1>1. PICK R \in Managed(M, t) : Becomes(R)
  BY DEF MembershipUpdate
<1> DEFINE Second(K) == IF Len(M) = 1 THEN {K} ELSE Maintained(K, M[2], t)
<1>2. PICK L \in UNION {Second(K) : K \in Maintained(theList, M[1], t)} :
        R = Dropped(L, Leftover(M) \cap DOMAIN L.entries)
  BY <1>1 DEF Managed
<1>3. PICK K \in Maintained(theList, M[1], t) : L \in Second(K)
  BY <1>2
<1>4. /\ K \in Maintained(theList, e, t) /\ DOMAIN M = {1, Len(M)} /\ M[1] = e
      /\ e = f => M = <<e>> /\ L = K /\ Len(M) = 1
      /\ e # f => M = <<e, f>> /\ L \in Maintained(K, f, t) /\ M[2] = f /\ Len(M) = 2
  BY <1>2, <1>3
<1>5. GoodList(K) /\ RowsTyped(K.entries)
  BY <1>0, <1>4, MaintainedIsGood, MaintainedTyped
<1>6. GoodList(L) /\ RowsTyped(L.entries)
  BY <1>0, <1>4, <1>5, MaintainedIsGood, MaintainedTyped
<1> DEFINE gone == Leftover(M) \cap DOMAIN L.entries
<1>7. entries' = [i \in DOMAIN L.entries \ gone |-> L.entries[i]]
  <2>1. gone \in SUBSET DOMAIN L.entries
    OBVIOUS
  <2>2. entries' = R.entries
    BY <1>1 DEF Becomes
  <2> HIDE DEF gone
  <2>3. R = Dropped(L, gone)
    BY <1>2 DEF gone
  <2> QED BY <1>6, <2>1, <2>2, <2>3, RemovedRows
<1>8. RowsTyped(entries')
  BY <1>6, <1>7 DEF RowsTyped
<1>9. ASSUME NEW i \in DOMAIN entries PROVE Stays(i) \/ Dismissed(i)
  <2>1. CASE i \in Leftover(M)
    BY <2>1 DEF Dismissed
  <2>2. CASE i \notin Leftover(M)
    <3>1. entries[i].edition \in {e, f}
      BY <1>4, <2>2 DEF Leftover
    <3>2. CASE e = f
      <4>1. Member(e)
        BY <3>1, <3>2 DEF Member
      <4>2. SameRows(entries, L.entries)
        BY <1>0, <1>4, <3>2, <4>1, MembersAreSeen
      <4>3. i \in DOMAIN entries' /\ Continues(entries[i], entries'[i])
        <5>1. Continues(entries[i], entries[i])
          BY SameEditionGoesOn DEF RowsTyped
        <5>2. i \in DOMAIN L.entries /\ Continues(entries[i], L.entries[i])
          BY <4>2, <5>1 DEF SameRows, Continues
        <5> QED BY <1>7, <2>2, <5>2
      <4> QED BY <4>3, StaysIfGoesOn
    <3>3. CASE e # f
      <4>1. Member(e) \/ Member(f)
        BY <3>1 DEF Member
      <4>2. L \in Maintained(K, f, t) /\ M = <<e, f>>
        BY <1>4, <3>3
      <4>3. PICK j \in DOMAIN L.entries :
              Continues(entries[i], L.entries[j]) /\ \E new \in {e, f} : ContinuesWith(i, j, new, <<e, f>>)
        BY <1>0, <1>4, <4>1, <4>2, MembersAreKept
      <4>4. CASE j \notin Leftover(M)
        <5>1. j \in DOMAIN entries' /\ entries'[j] = L.entries[j]
          BY <1>7, <4>4
        <5> QED BY <4>3, <5>1, StaysIfGoesOn
      <4>5. CASE j \in Leftover(M)
        <5>1. PICK new \in {e, f} : ContinuesWith(i, j, new, M)
          BY <4>2, <4>3
        <5>2. i # j
          BY <2>2, <4>5
        <5>3. PICK k \in DOMAIN M : new = M[k] /\ ~Member(new) /\ {i, j} \subseteq EntriesFor(theList, new, WorkOf(new))
          BY <5>1, <5>2 DEF ContinuesWith
        <5>4. MergedWithLeftover(i, M)
          BY <4>5, <5>3 DEF MergedWithLeftover, Member
        <5> QED BY <5>4 DEF Dismissed
      <4> QED BY <4>4, <4>5
    <3> QED BY <3>2, <3>3
  <2> QED BY <2>1, <2>2
<1> QED BY <1>8, <1>9

LEMMA RemovalKeeps ==
  ASSUME ClaimsMade, GoodList(theList), RowsTyped(entries), NEW rows \in SUBSET DOMAIN entries, Becomes(Removed(theList, rows))
  PROVE  RowsTyped(entries') /\ \A i \in DOMAIN entries \ rows : Stays(i)
<1>1. theList.entries = entries
  BY DEF theList
<1>2. entries' = [i \in DOMAIN entries \ rows |-> entries[i]]
  BY <1>1, RemovedRows DEF Becomes
<1>3. \A i \in DOMAIN entries \ rows : i \in DOMAIN entries' /\ Continues(entries[i], entries'[i])
  BY <1>2, SameEditionGoesOn DEF RowsTyped
<1> QED BY <1>2, <1>3, StaysIfGoesOn DEF RowsTyped

LEMMA ListsThatKeep ==
  ASSUME NEW L, Becomes(L), RowsTyped(L.entries), Keeps(entries, L.entries)
  PROVE  RowsTyped(entries') /\ \A i \in DOMAIN entries : Stays(i)
BY StaysIfGoesOn DEF Becomes, Keeps, RowsTyped

LEMMA SettleKeeps ==
  ASSUME ClaimsMade, ListsInv, RowsTyped(entries), NEW i \in DOMAIN entries, NEW w, Settle(i, w)
  PROVE  RowsTyped(entries') /\ \A j \in DOMAIN entries : Stays(j)
<1> DEFINE ws == IF entries[i].work = w THEN {} ELSE {w, entries[i].work}
           U == Unflagged(theList, ws)
<1>1. DOMAIN U = ListFields /\ U.entries = entries
  BY DEF Unflagged, theList, ListFields
<1>2. Becomes([U EXCEPT !.entries[i].work = w])
  BY DEF Settle
<1> HIDE DEF U
<1>3. entries' = [entries EXCEPT ![i].work = w]
  BY <1>1, <1>2 DEF Becomes, ListFields
<1>4. /\ DOMAIN entries' = DOMAIN entries
      /\ \A j \in DOMAIN entries : entries'[j].edition = entries[j].edition /\ entries'[j].first = entries[j].first
  BY <1>3 DEF ListsInv, EntryFields
<1>5. \A j \in DOMAIN entries : Continues(entries[j], entries'[j])
  BY <1>4, SameEditionGoesOn DEF RowsTyped
<1> QED BY <1>4, <1>5, StaysIfGoesOn DEF RowsTyped

LEMMA ImportTitleKeeps ==
  ASSUME ClaimsMade, ListsInv, RowsTyped(entries), NEW e \in Editions, NEW t \in 1..MaxListTime, NEW first \in 1..t,
         ImportTitle(e, first, t)
  PROVE  RowsTyped(entries') /\ \A j \in DOMAIN entries : Stays(j)
<1> DEFINE rows == {i \in DOMAIN entries : entries[i].edition = e}
<1>1. PICK w \in SettledWorks(e) :
        IF rows = {}
        THEN LET L == Created(theList, e, w, t)
             IN Becomes([Unflagged(L, {w}) EXCEPT
                           !.entries[Min(Free(theList))].first = first, !.uncounted = TRUE])
        ELSE LET i == CHOOSE j \in rows : TRUE
                 entry == [Seen(entries[i], t) EXCEPT !.first = Min({@, first}), !.work = w]
             IN Becomes([Unflagged(theList, IF entries[i].work = w THEN {} ELSE {w, entries[i].work})
                           EXCEPT !.entries[i] = entry])
  BY DEF ImportTitle
<1>2. GoodList(theList) /\ theList.entries = entries
  BY TheListIsGood DEF theList
<1>3. first \in Nat
  BY ListAssumption
<1>4. DOMAIN entries \subseteq DOMAIN entries' /\ RowsTyped(entries')
      /\ \A j \in DOMAIN entries : entries'[j].edition = entries[j].edition /\ entries'[j].first <= entries[j].first
  <2>1. CASE rows = {}
    <3> DEFINE C == Created(theList, e, w, t)
               n == Min(Free(theList))
               U == Unflagged(C, {w})
    <3>1. Free(theList) # {}
      BY <2>1 DEF ImportTitle
    <3>2. /\ ListShape(C) /\ n \notin DOMAIN entries /\ DOMAIN C.entries = DOMAIN entries \cup {n}
          /\ C.entries[n] = [edition |-> e, work |-> w, first |-> t, recent |-> t]
          /\ \A i \in DOMAIN entries : C.entries[i] = entries[i]
      BY <1>2, <3>1, CreatedRows
    <3>3. Becomes([U EXCEPT !.entries[n].first = first, !.uncounted = TRUE])
      BY <1>1, <2>1
    <3> HIDE DEF C, n
    <3>4. DOMAIN U = ListFields /\ U.entries = C.entries
      BY <3>2 DEF Unflagged, ListShape, ListFields
    <3> HIDE DEF U
    <3>5. entries' = [C.entries EXCEPT ![n].first = first]
      BY <3>3, <3>4 DEF Becomes, ListFields
    <3>6. /\ DOMAIN entries' = DOMAIN entries \cup {n}
          /\ entries'[n].edition = e /\ entries'[n].first = first
          /\ \A i \in DOMAIN entries : entries'[i] = entries[i]
      BY <3>2, <3>5
    <3> QED BY <1>3, <3>6 DEF RowsTyped
  <2>2. CASE rows # {}
    <3> DEFINE i == CHOOSE j \in rows : TRUE
               ws == IF entries[i].work = w THEN {} ELSE {w, entries[i].work}
               U == Unflagged(theList, ws)
               least == Min({entries[i].first, first})
               row == [Seen(entries[i], t) EXCEPT !.first = Min({@, first}), !.work = w]
    <3>1. i \in DOMAIN entries
      BY <2>2
    <3>2. Becomes([U EXCEPT !.entries[i] = row])
      BY <1>1, <2>2
    <3> HIDE DEF i
    <3>3. row.edition = entries[i].edition /\ row.first = least
      BY <3>1 DEF Seen, ListsInv, EntryFields
    <3>4. least \in Nat /\ least <= entries[i].first
      <4>1. {entries[i].first, first} \in SUBSET Nat
        BY <1>3, <3>1 DEF RowsTyped
      <4> QED BY <4>1, LeastOf
    <3>5. DOMAIN U = ListFields /\ U.entries = entries
      BY DEF Unflagged, theList, ListFields
    <3> HIDE DEF U, row, least
    <3>6. entries' = [entries EXCEPT ![i] = row]
      BY <3>2, <3>5 DEF Becomes, ListFields
    <3> QED BY <3>1, <3>3, <3>4, <3>6 DEF RowsTyped
  <2> QED BY <2>1, <2>2
<1>5. \A j \in DOMAIN entries : Continues(entries[j], entries'[j])
  BY <1>4, SameEditionGoesOn DEF RowsTyped
<1> QED BY <1>4, <1>5, StaysIfGoesOn

\* What is known of the list, its books and what is equivalent to what.
KeptInv ==
  /\ ListsInv /\ ClaimsMade /\ RowsTyped(entries)
  /\ presentation \in [ListWorks -> Editions \cup {NoWork}]

KeptStep == RowsTyped(entries') /\ \A i \in DOMAIN entries : Stays(i) \/ Dismissed(i)

LEMMA ChangeListKeeps ==
  ASSUME KeptInv, ChangeList
  PROVE  KeptStep
<1>1. GoodList(theList) /\ ClaimsMade /\ RowsTyped(entries) /\ theList.entries = entries /\ ListsInv
  BY TheListIsGood DEF KeptInv, theList
<1>2. \A w \in ListWorks : presentation[w] \in Editions \cup {NoWork}
  BY DEF KeptInv
<1>3. \A t \in 1..MaxListTime : t \in Nat
  BY ListAssumption
<1>4. ASSUME NEW t \in 1..MaxListTime, NEW e \in Editions, AddEdition(e, t) PROVE KeptStep
  <2>1. PICK L \in WithEdition(theList, e, t) : Becomes(L)
    BY <1>4 DEF AddEdition
  <2>2. RowsTyped(L.entries) /\ Keeps(entries, L.entries)
    BY <1>1, <1>3, WithEditionKeeps DEF Keeps
  <2> QED BY <2>1, <2>2, ListsThatKeep DEF KeptStep
<1>5. ASSUME NEW e \in Editions, RemoveEdition(e) PROVE KeptStep
  <2> DEFINE rows == EntriesFor(theList, e, WorkOf(e))
  <2>1. rows \in SUBSET DOMAIN entries
    BY <1>1 DEF EntriesFor
  <2>2. Becomes(Removed(theList, rows))
    BY <1>5 DEF RemoveEdition
  <2>3. \A i \in rows : Dismissed(i)
    BY <1>5 DEF Dismissed
  <2> HIDE DEF rows
  <2> QED BY <1>1, <2>1, <2>2, <2>3, RemovalKeeps DEF KeptStep
<1>6. ASSUME NEW t \in 1..MaxListTime, NEW w \in ListWorks, AddWork(w, t) PROVE KeptStep
  <2>1. PICK L \in WithWork(theList, presentation[w], w, t) : Becomes(Flagged(L, {w}))
    BY <1>6 DEF AddWork
  <2>2. presentation[w] \in Editions
    BY <1>2, <1>6 DEF AddWork
  <2>3. RowsTyped(L.entries) /\ Keeps(entries, L.entries)
    BY <1>1, <1>3, <2>2, WithWorkKeeps
  <2>4. ListShape(L)
    BY <1>1, WithWorkIsGood
  <2>5. Flagged(L, {w}).entries = L.entries
    BY <2>4 DEF Flagged, ListShape, ListFields
  <2> QED BY <2>1, <2>3, <2>5, ListsThatKeep DEF KeptStep
<1>7. ASSUME NEW w \in ListWorks, RemoveWork(w) PROVE KeptStep
  <2> DEFINE rows == EntriesFor(theList, presentation[w], w)
  <2>1. rows \in SUBSET DOMAIN entries
    BY <1>1 DEF EntriesFor
  <2>2. Becomes(Removed(theList, rows))
    BY <1>7 DEF RemoveWork
  <2>3. \A i \in rows : Dismissed(i)
    BY <1>7 DEF Dismissed
  <2> HIDE DEF rows
  <2> QED BY <1>1, <2>1, <2>2, <2>3, RemovalKeeps DEF KeptStep
<1>8. ASSUME NEW t \in 1..MaxListTime, NEW e \in Editions, NEW f \in Editions,
             MembershipUpdate(IF e = f THEN <<e>> ELSE <<e, f>>, t)
      PROVE  KeptStep
  BY <1>1, <1>8, MembershipKeeps DEF KeptStep
<1>9. ASSUME NEW t \in 1..MaxListTime, NEW e \in Editions, NEW first \in 1..t, ImportTitle(e, first, t) PROVE KeptStep
  BY <1>1, <1>9, ImportTitleKeeps DEF KeptStep
<1>10. ASSUME NEW i \in DOMAIN entries, NEW w \in SettledWorks(entries[i].edition), Settle(i, w) PROVE KeptStep
  BY <1>1, <1>10, SettleKeeps DEF KeptStep
<1> QED BY <1>4, <1>5, <1>6, <1>7, <1>8, <1>9, <1>10 DEF ChangeList

LEMMA SameEntriesKeep ==
  ASSUME KeptInv, entries' = entries
  PROVE  KeptStep
<1>1. \A i \in DOMAIN entries : Continues(entries[i], entries'[i])
  BY SameEditionGoesOn DEF KeptInv, RowsTyped
<1> QED BY <1>1, StaysIfGoesOn DEF KeptInv, KeptStep, RowsTyped

LEMMA PoolJoinsKeeps ==
  ASSUME KeptInv, NEW e \in Editions, PoolJoins(e)
  PROVE  KeptStep /\ presentation' \in [ListWorks -> Editions \cup {NoWork}]
<1> DEFINE w == PoolWork[e]
           L == Flagged(theList, PoolRegisters(w))
<1>1. /\ w \in ListWorks /\ w # NoWork
      /\ presentation' = [presentation EXCEPT ![w] = IF @ = NoWork THEN e ELSE @]
  BY ListAssumption DEF PoolJoins
<1>2. presentation' \in [ListWorks -> Editions \cup {NoWork}] /\ presentation'[w] \in Editions
  BY <1>1 DEF KeptInv
<1>3. L.entries = entries
  BY DEF Flagged, theList
<1>4. CASE Becomes(L)
  BY <1>2, <1>3, <1>4, SameEntriesKeep DEF Becomes
<1>5. CASE \E t \in 1..MaxListTime : \E N \in WithWork(L, presentation'[w], w, t) : Becomes(N)
  <2>1. GoodList(theList)
    BY TheListIsGood DEF KeptInv
  <2>2. DocumentsAgree(theList, {w}) /\ ListShape(theList) /\ SizeAgrees(theList)
    BY <2>1 DEF GoodList, DocumentsAgree
  <2>3. GoodList(L)
    BY <2>2, FlaggedIsGood DEF PoolRegisters
  <2> HIDE DEF w, L
  <2>4. PICK t \in 1..MaxListTime : \E N \in WithWork(L, presentation'[w], w, t) : Becomes(N)
    BY <1>5
  <2>5. PICK N \in WithWork(L, presentation'[w], w, t) : Becomes(N)
    BY <2>4
  <2>6. t \in Nat
    BY ListAssumption
  <2>7. RowsTyped(N.entries) /\ Keeps(entries, N.entries)
    BY <1>2, <1>3, <2>3, <2>6, WithWorkKeeps DEF KeptInv
  <2> QED BY <1>2, <2>5, <2>7, ListsThatKeep DEF KeptStep
<1> QED BY <1>4, <1>5 DEF PoolJoins

(***************************************************************************)
(* A book stays on its list, and its first appearance there is not put     *)
(* off, until somebody removes it, a MembershipManager leaves it out, or   *)
(* merges it with one that it leaves out.                                  *)
(***************************************************************************)
THEOREM ListsKeepTheirBooks == ListsSpec => ListsAreKept
<1> DEFINE A == \A i \in DOMAIN entries : Stays(i) \/ Dismissed(i)
<1>1. ListsInit => KeptInv
  <2> SUFFICES ASSUME ListsInit PROVE KeptInv
    OBVIOUS
  <2>1. DOMAIN entries = {}
    BY DEF ListsInit
  <2> QED BY <2>1, ListsBegin DEF ListsInit, KeptInv, ClaimsMade, RowsTyped
<1>2. KeptInv /\ [ListsNext]_listsVars => KeptInv' /\ [A]_listsVars
  <2> SUFFICES ASSUME KeptInv, [ListsNext]_listsVars PROVE KeptInv' /\ [A]_listsVars
    OBVIOUS
  <2>1. ListsInv'
    BY ListsStep DEF KeptInv
  <2> SUFFICES /\ KeptStep \/ UNCHANGED listsVars
               /\ RowsTyped(entries')
               /\ ClaimsMade' /\ presentation' \in [ListWorks -> Editions \cup {NoWork}]
    BY <2>1 DEF KeptInv, KeptStep, RowsTyped
  <2> USE DEF KeptStep
  <2>2. CASE ChangeList
    BY <2>2, ChangeListKeeps DEF ChangeList, KeptInv, ClaimsMade
  <2>3. ASSUME NEW e \in Editions, PoolJoins(e) PROVE KeptStep /\ ClaimsMade' /\ presentation' \in [ListWorks -> Editions \cup {NoWork}]
    BY <2>3, PoolJoinsKeeps DEF PoolJoins, KeptInv, ClaimsMade
  <2>4. ASSUME NEW w \in ListWorks, NEW e \in Editions, ChooseAnother(w, e)
        PROVE  KeptStep /\ ClaimsMade' /\ presentation' \in [ListWorks -> Editions \cup {NoWork}]
    BY <2>4, SameEntriesKeep DEF ChooseAnother, KeptInv, ClaimsMade
  <2>5. ASSUME NEW c \in Claims, Equate(c) PROVE KeptStep /\ ClaimsMade' /\ presentation' = presentation
    BY <2>5, SameEntriesKeep DEF Equate, KeptInv, ClaimsMade
  <2>6. ASSUME NEW w \in ListWorks, IndexListed(w) PROVE KeptStep /\ ClaimsMade' /\ presentation' = presentation
    BY <2>6, SameEntriesKeep DEF IndexListed, KeptInv, ClaimsMade
  <2>7. ASSUME UpdateSize PROVE KeptStep /\ ClaimsMade' /\ presentation' = presentation
    BY <2>7, SameEntriesKeep DEF UpdateSize, KeptInv, ClaimsMade
  <2>8. ASSUME UNCHANGED listsVars PROVE RowsTyped(entries') /\ ClaimsMade' /\ presentation' = presentation
    BY <2>8 DEF listsVars, KeptInv, ClaimsMade
  <2>9. KeptInv => presentation \in [ListWorks -> Editions \cup {NoWork}]
    BY DEF KeptInv
  <2> HIDE DEF KeptStep
  <2> QED BY <2>2, <2>3, <2>4, <2>5, <2>6, <2>7, <2>8, <2>9 DEF ListsNext, KeptStep
<1>3. KeptInv => ListsAreWrittenDown
  BY DEF KeptInv, ListsInv
<1>4. ListsAreKept <=> []ListsAreWrittenDown /\ [][A]_listsVars
  BY DEF ListsAreKept, BooksStayOnTheList
<1> HIDE DEF A
<1> QED BY <1>1, <1>2, <1>3, <1>4, PTL DEF ListsSpec
=============================================================================
