----------------------------- MODULE SearchIndex -----------------------------
(***************************************************************************)
(* external_search.py's ExternalSearchIndex and the scripts that keep it:  *)
(* the index of each version of the code, the alias that searches go       *)
(* through, the SearchIndexCoverageProvider, and the script that rebuilds  *)
(* the index from nothing.  The database knows of each Work whether its    *)
(* document is up to date (WorkCoverageRecord); Elasticsearch (external)   *)
(* holds the documents.  No transaction spans the two.                     *)
(***************************************************************************)
EXTENDS Integers, FiniteSets

CONSTANTS
  Works,      \* the works there are
  Versions,   \* the versions of the search mapping, one index each
  Clients,    \* the processes that may have an ExternalSearchIndex
  Servers,    \* those of them that answer searches; the others run scripts
  MaxFaults   \* bound: starts of a server, deaths of a process, refused aliases

ASSUME SearchAssumption ==
  /\ IsFiniteSet(Works)
  /\ Servers \subseteq Clients
  /\ MaxFaults \in Nat

\* What a client is made for: to answer searches, or to run the coverage
\* provider, rebuild the index, or move the alias.
Jobs(c) == IF c \in Servers THEN {"server"} ELSE {"provider", "rebuild", "transfer"}

VARIABLES
  ready,     \* Work.presentation_ready
  record,    \* each Work's WorkCoverageRecord for update-search-index
  keeper,    \* history: the version whose index the record vouches for
  exists,    \* the indices there are
  doc,       \* each index's document for each Work: current, stale or absent
  alias,     \* the indices the alias points to
  client,    \* the ExternalSearchIndex objects: see Idle
  drifted,   \* history: the Works of which the index may know less than the record says
  alone,     \* history: the client that has been the only one since its start
  faults     \* how many of these there have been

database   == <<ready, record, keeper>>
server     == <<exists, doc, alias>>
searchVars == <<database, server, client, drifted, alone, faults>>

NoDocs == [w \in Works |-> "absent"]

\* A process without a client.  Otherwise: what it does next, the version of its
\* code, what it is for, whether it searches the alias or its own index, and of
\* its run: the batch in hand, the Works attempted so far, whether its transaction
\* has deleted the coverage records, and whether it is on its second attempt.
Idle == [step |-> "down", version |-> "none", job |-> "none", works_alias |-> "none",
         hand |-> [w \in Works |-> "none"], tried |-> {}, cleared |-> FALSE, again |-> FALSE]

SearchInit ==
  /\ ready \in [Works -> BOOLEAN]
  /\ record = [w \in Works |-> "none"] /\ keeper = [w \in Works |-> "none"]
  /\ exists = {} /\ alias = {}
  /\ doc = [v \in Versions |-> NoDocs]
  /\ client = [c \in Clients |-> Idle]
  /\ drifted = {} /\ alone = {}
  /\ faults = 0

At(c, where) == client[c].step = where
InHand(c)    == {w \in Works : client[c].hand[w] # "none"}
Index(c)     == client[c].version   \* works_index

Become(c, new) == client' = [client EXCEPT ![c] = new]
Goto(c, where) == Become(c, [client[c] EXCEPT !.step = where])

-----------------------------------------------------------------------------
(* The works.                                                              *)
Spoil(d) == IF d = "current" THEN "stale" ELSE d
SpoilInHand(cs, ws) ==
  [c \in Clients |-> [client[c] EXCEPT !.hand =
     [w \in Works |-> IF c \in cs /\ w \in ws THEN Spoil(@[w]) ELSE @[w]]]]

\* Mutant of ChangeWork: the coverage record is left as it is.
ChangeWorkQuietly(w, isReady) ==
  /\ ready' = [ready EXCEPT ![w] = isReady]
  /\ doc' = [v \in Versions |-> [doc[v] EXCEPT ![w] = Spoil(@)]]
  /\ client' = SpoilInHand(Clients, {w})
  /\ UNCHANGED <<record, keeper, exists, alias, drifted, alone, faults>>

\* Something changes a Work: set_presentation_ready_based_on_content, or one of
\* the listeners that watch its pools and its last_update_time.  All of them
\* end in external_index_needs_updating, in the same transaction.
ChangeWork(w, isReady) ==
  /\ ready' = [ready EXCEPT ![w] = isReady]
  /\ record' = [record EXCEPT ![w] = "registered"]
  /\ doc' = [v \in Versions |-> [doc[v] EXCEPT ![w] = Spoil(@)]]
  /\ client' = SpoilInHand(Clients, {w})
  /\ UNCHANGED <<keeper, exists, alias, drifted, alone, faults>>

-----------------------------------------------------------------------------
(* ExternalSearchIndex.__init__.                                           *)
Start(c) ==
  /\ At(c, "down")
  /\ \E v \in Versions, j \in Jobs(c) :
       Become(c, [Idle EXCEPT !.step = "finding index", !.version = v, !.job = j])
  /\ alone' = IF \A a \in Clients : At(a, "down") THEN {c} ELSE {}
  /\ faults' = IF c \in Servers THEN faults + 1 ELSE faults
  /\ faults' <= MaxFaults
  /\ UNCHANGED <<database, server, drifted>>

\* set_works_index_and_alias.
FindIndex(c) ==
  /\ At(c, "finding index")
  /\ Goto(c, IF Index(c) \in exists THEN "finding alias" ELSE "deleting")
  /\ UNCHANGED <<database, server, drifted, alone, faults>>

\* setup_index, its first half.  An index takes its aliases with it.
DeleteIndex(c) ==
  LET v == Index(c)
      others == {b \in Clients : Index(b) = v} IN
  /\ At(c, "deleting")
  /\ exists' = exists \ {v} /\ alias' = alias \ {v}
  /\ doc' = [doc EXCEPT ![v] = NoDocs]
  /\ client' = [SpoilInHand(others, Works) EXCEPT ![c].step = "creating"]
  /\ drifted' = drifted \cup {w \in Works : record[w] = "success" /\ keeper[w] = v}
  /\ UNCHANGED <<database, alone, faults>>

\* ... and its second, which fails when another process was quicker.  Only a
\* rebuild gets here with works_alias already set.
CreateIndex(c) ==
  /\ At(c, "creating")
  /\ exists' = exists \cup {Index(c)}
  /\ IF Index(c) \in exists THEN Become(c, Idle)
     ELSE Goto(c, IF client[c].works_alias = "none" THEN "finding alias" ELSE "clearing")
  /\ UNCHANGED <<database, doc, alias, drifted, alone, faults>>

\* The client knows what to search, and gets on with its job.
Search(c, name) ==
  LET transferred == client[c].works_alias # "none" IN
  CASE client[c].job = "transfer" /\ transferred -> Become(c, Idle)
    [] client[c].job = "transfer" /\ ~transferred ->
         Become(c, [client[c] EXCEPT !.works_alias = name, !.step = "transferring"])
    [] OTHER ->
         Become(c, [client[c] EXCEPT !.works_alias = name,
           !.step = CASE client[c].job = "rebuild"  -> "deleting"
                      [] client[c].job = "provider" -> "running"
                      [] OTHER                      -> "searching"])

\* Mutant of FindAlias: a missing alias is not put back.
FindAliasOnly(c) ==
  /\ At(c, "finding alias")
  /\ Search(c, IF Index(c) \in alias THEN "alias" ELSE "index")
  /\ UNCHANGED <<database, server, drifted, alone, faults>>

\* setup_current_alias: an alias on some other index stays where it is.
FindAlias(c) ==
  /\ At(c, "finding alias")
  /\ IF alias = {} THEN Goto(c, "putting alias")
     ELSE Search(c, IF Index(c) \in alias THEN "alias" ELSE "index")
  /\ UNCHANGED <<database, server, drifted, alone, faults>>

PutAlias(c) ==
  /\ At(c, "putting alias")
  /\ IF Index(c) \in exists
     THEN alias' = alias \cup {Index(c)} /\ Search(c, "alias")
     ELSE UNCHANGED alias /\ Become(c, Idle)
  /\ UNCHANGED <<database, exists, doc, drifted, alone, faults>>

\* The server does not acknowledge the alias: use the index.
RefuseAlias(c) ==
  /\ At(c, "putting alias")
  /\ faults < MaxFaults /\ faults' = faults + 1
  /\ Search(c, "index")
  /\ UNCHANGED <<database, server, drifted, alone>>

\* transfer_current_alias onto the index of version v.
TransferAlias(c, v) ==
  LET to(where) == Become(c, [client[c] EXCEPT !.version = v, !.step = where]) IN
  /\ At(c, "transferring")
  /\ CASE v \notin exists -> Become(c, Idle) /\ UNCHANGED alias
       [] v \in exists /\ alias = {} -> to("finding alias") /\ UNCHANGED alias
       [] v \in exists /\ alias = {v} -> Become(c, Idle) /\ UNCHANGED alias
       [] v \in exists /\ alias \ {v} # {} -> to("putting alias") /\ alias' = {}
  /\ UNCHANGED <<database, exists, doc, drifted, alone, faults>>

-----------------------------------------------------------------------------
(* RebuildSearchIndexScript and SearchIndexCoverageProvider.               *)

\* Mutant of ClearRecords: the rebuild relies on the records being right.
KeepRecords(c) ==
  /\ At(c, "clearing")
  /\ Goto(c, "running")
  /\ UNCHANGED <<database, server, drifted, alone, faults>>

\* remove_search_coverage_records, in the transaction of the first batch.
ClearRecords(c) ==
  /\ At(c, "clearing")
  /\ Become(c, [client[c] EXCEPT !.cleared = TRUE, !.step = "running"])
  /\ UNCHANGED <<database, server, drifted, alone, faults>>

\* items_that_need_coverage: no Work that is not presentation-ready, and none
\* twice in a run.
NeedsCoverage(c) ==
  {w \in Works \ client[c].tried : ready[w] /\ (client[c].cleared \/ record[w] # "success")}

\* bulk_update makes the documents of a batch.
ReadBatch(c) ==
  /\ At(c, "running")
  /\ \E b \in SUBSET NeedsCoverage(c) :
       /\ b # {}
       /\ Become(c, [client[c] EXCEPT
            !.tried = @ \cup b,
            !.hand = [w \in Works |-> IF w \in b THEN "current" ELSE "none"],
            !.step = "uploading"])
  /\ UNCHANGED <<database, server, drifted, alone, faults>>

\* The documents of `b` arrive; the others are reported as errors or, for want
\* of a presentation edition, were never made.  (Elasticsearch creates the index
\* a bulk request names, if it is not there.)
Upload(c) ==
  LET v == Index(c)
      hand == client[c].hand IN
  /\ At(c, "uploading")
  /\ \E b \in SUBSET InHand(c) :
       LET late == {w \in b : hand[w] = "stale"} IN
       /\ b # {} \/ client[c].again
       /\ doc' = [doc EXCEPT ![v] = [w \in Works |-> IF w \in b THEN hand[w] ELSE @[w]]]
       /\ exists' = IF b = {} THEN exists ELSE exists \cup {v}
       /\ client' = [SpoilInHand({a \in Clients : Index(a) = v}, late) EXCEPT
            ![c].hand = [w \in Works |-> IF w \in InHand(c) \ b THEN "failed" ELSE @[w]],
            ![c].again = FALSE,
            ![c].step = "recording"]
       /\ drifted' = drifted \cup late
  /\ UNCHANGED <<database, alias, alone, faults>>

\* The entire update failed: bulk_update makes the documents again and tries
\* once more.
RetryUpload(c) ==
  /\ At(c, "uploading")
  /\ ~client[c].again
  /\ Become(c, [client[c] EXCEPT
       !.again = TRUE,
       !.hand = [w \in Works |-> IF w \in InHand(c) THEN "current" ELSE "none"]])
  /\ UNCHANGED <<database, server, drifted, alone, faults>>

\* What process_batch_and_handle_results records when `indexed` is what counts
\* as covered.  Then the batch is committed.
RecordAs(c, indexed) ==
  /\ At(c, "recording")
  /\ record' = [w \in Works |-> CASE w \in indexed -> "success"
                                  [] w \in InHand(c) \ indexed -> "failure"
                                  [] OTHER -> IF client[c].cleared THEN "none" ELSE record[w]]
  /\ keeper' = [w \in Works |-> IF w \in indexed THEN Index(c) ELSE keeper[w]]
  /\ drifted' = (drifted \ indexed) \cup {w \in indexed : client[c].hand[w] = "stale"}
  /\ Become(c, [client[c] EXCEPT !.hand = Idle.hand, !.cleared = FALSE, !.step = "running"])
  /\ UNCHANGED <<ready, server, alone, faults>>

\* Mutant of Record: what was reported as an error is recorded as covered.
RecordAll(c) == RecordAs(c, InHand(c))

\* What was indexed is covered; what was reported, and what was ignored, has
\* failed for now.  (bulk_update blames the last Work of the batch for each
\* document that was never made, but a success of that Work is recorded after
\* its failure.)
Record(c) == RecordAs(c, {w \in InHand(c) : client[c].hand[w] # "failed"})

\* There is nothing left to cover.
EndRun(c) ==
  /\ At(c, "running")
  /\ NeedsCoverage(c) = {}
  /\ record' = [w \in Works |-> IF client[c].cleared THEN "none" ELSE record[w]]
  /\ Become(c, Idle)
  /\ UNCHANGED <<ready, keeper, server, drifted, alone, faults>>

\* SearchIndexCoverageRemover: the next run of the provider starts from scratch.
RemoveCoverage ==
  /\ record' = [w \in Works |-> "none"]
  /\ UNCHANGED <<ready, keeper, server, client, drifted, alone, faults>>

\* A server is stopped.
Stop(c) ==
  /\ At(c, "searching")
  /\ Become(c, Idle)
  /\ UNCHANGED <<database, server, drifted, alone, faults>>

\* A process dies, and its transaction with it.
Perish(c) ==
  /\ ~At(c, "down")
  /\ faults < MaxFaults /\ faults' = faults + 1
  /\ Become(c, Idle)
  /\ UNCHANGED <<database, server, drifted, alone>>

\* What a process does of itself, once it has been started.
Proceed(c) ==
  \/ FindIndex(c) \/ DeleteIndex(c) \/ CreateIndex(c) \/ FindAlias(c) \/ PutAlias(c)
  \/ \E v \in Versions : TransferAlias(c, v)
  \/ ClearRecords(c) \/ ReadBatch(c) \/ Upload(c) \/ RetryUpload(c) \/ Record(c) \/ EndRun(c)

SearchNext ==
  \/ \E w \in Works, isReady \in BOOLEAN : ChangeWork(w, isReady)
  \/ \E c \in Clients : Start(c) \/ Proceed(c) \/ RefuseAlias(c) \/ Stop(c) \/ Perish(c)
  \/ RemoveCoverage

\* A process that has been started goes on, and scripts are run again and again.
SearchFairness ==
  /\ \A c \in Clients : WF_searchVars(Proceed(c))
  /\ \A c \in Clients \ Servers : WF_searchVars(Start(c))

SearchSpec == SearchInit /\ [][SearchNext]_searchVars /\ SearchFairness

-----------------------------------------------------------------------------
\* A Work that counts as covered is in the index of the version that covered
\* it, as it is now: whatever changed it has said so, and whatever failed is not
\* recorded as done.  The exceptions are the two ways in which the database and
\* the index drift apart: the Work changed while its document was being uploaded
\* -- the success recorded afterwards erases the registration -- or its index
\* was deleted by a rebuild that died before it committed the removal of the
\* coverage records, or by a process that found the index missing just before
\* another one made it.
RecordsAreHonest ==
  \A w \in Works :
    record[w] = "success" /\ w \notin drifted => doc[keeper[w]][w] = "current"

\* A rebuild that no other client interferes with repairs all of this: at its
\* end every Work it counts as covered is in the index as it is, unless it changed
\* while its own document was being uploaded, and every other presentation-ready
\* Work will be covered by the next run.
RebuildsRepair ==
  [][\A c \in alone :
       (client[c].job = "rebuild" /\ At(c, "running") /\ At(c, "down")' /\ faults' = faults)
       => \A w \in Works : ready[w] /\ record'[w] = "success"
                           => \/ doc[Index(c)][w] = "current"
                              \/ doc[Index(c)][w] = "stale" /\ w \in drifted]_searchVars

\* A rebuild deletes the index and the alias with it, and puts back only the
\* index; a transfer of the alias may die between its two halves.  Either way
\* searches through the alias find nothing, until the next script that makes a
\* client, and is not itself in the way of another, puts the alias back.
AliasComesBack == (alias = {}) ~> (alias # {})

\* "The next time the search index WorkCoverageRecords are processed, this work
\* will be removed from the search index" (set_presentation_ready_based_on_content).
UnreadyWorksLeave ==
  \A w \in Works, v \in Versions :
    (~ready[w] /\ doc[v][w] # "absent") ~> (ready[w] \/ doc[v][w] = "absent")
=============================================================================
