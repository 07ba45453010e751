------------------------- MODULE DeliveryMechanisms -------------------------
(***************************************************************************)
(* The ways in which a distributor delivers one title: what                *)
(* metadata_layer.py's CirculationData.apply makes of them, import by      *)
(* import, and what follows for LicensePool.open_access.  The mechanisms   *)
(* (LicensePoolDeliveryMechanism, model/licensing.py) belong to the title  *)
(* and are shared by the license pools of all collections of the           *)
(* distributor, while each collection is imported by itself.  set and      *)
(* delete commit before they look at the license pools, so that an import  *)
(* that dies leaves the flags behind the mechanisms.                       *)
(*                                                                         *)
(* Left out: loans, which a deletion unlocks, mirrors (Representations),   *)
(* licenses and counters (DistributorFeed), which the rest of apply deals  *)
(* with.                                                                   *)
(***************************************************************************)
EXTENDS FiniteSets

CONSTANTS
  Collections,  \* the collections that have the title
  OtherFormats, \* mechanisms besides the download that links lead to
  NoLink        \* stands for no link

\* What the world may do with a book; "unknown" also of an unknown URI.
Rights == {"unknown", "open", "closed"}
Mechanisms == {"download"} \cup OtherFormats

ASSUME DeliveryAssumption == IsFiniteSet(Collections) /\ "download" \notin OtherFormats

VARIABLES
  rights,    \* the rights status of each mechanism, "absent" if there is no row
  open,      \* open_access of each collection's pool, "absent" if there is none
  importing, \* the import of each collection
  sure       \* history: collections whose flag nothing has disturbed

deliveryVars == <<rights, open, importing, sure>>

NoImport == [phase |-> "idle"]
Importing == {c \in Collections : importing[c] # NoImport}
Pools == {c \in Collections : open[c] # "absent"}
Flag(isOpen) == IF isOpen THEN "yes" ELSE "no"
OpenAccess == Flag(\E m \in Mechanisms : rights[m] = "open")

DeliveryInit ==
  /\ rights = [m \in Mechanisms |-> "absent"]
  /\ open = [c \in Collections |-> "absent"]
  /\ importing = [c \in Collections |-> NoImport]
  /\ sure = {}

-----------------------------------------------------------------------------
(* What an import brings.                                                  *)

\* ReplacementPolicy: from_license_source replaces formats, append_only does not.
Feeds ==
  [replace : BOOLEAN, default : Rights, others : SUBSET OtherFormats,
   link : {NoLink} \cup [rel : {"open", "generic"}, rights : {"unset", "open", "closed"}]]

LinkRights(feed) == IF feed.link.rights = "unset" THEN feed.default ELSE feed.link.rights

\* The setter of links: "An open-access link or open-access rights implies a
\* FormatData object."
ImpliedRights(feed) ==
  CASE feed.link = NoLink -> "absent"
    [] feed.link # NoLink /\ feed.link.rel = "open" /\ LinkRights(feed) = "unknown" -> "open"
    [] feed.link # NoLink /\ feed.link.rel = "open" /\ LinkRights(feed) # "unknown" -> LinkRights(feed)
    [] feed.link # NoLink /\ feed.link.rel # "open" -> IF LinkRights(feed) = "open" THEN "open" ELSE "absent"

Formats(feed) ==
  [m \in Mechanisms |-> CASE m = "download" -> ImpliedRights(feed)
                          [] m # "download" -> IF m \in feed.others THEN feed.default ELSE "absent"]

HasOpenAccessLink(feed) == feed.link # NoLink /\ feed.link.rel = "open" /\ feed.link.rights # "closed"

\* What of it matters to the mechanisms.
Imports ==
  {[formats |-> Formats(feed), replace |-> feed.replace, open |-> Flag(HasOpenAccessLink(feed))] : feed \in Feeds}

-----------------------------------------------------------------------------
(* An import.  Its session holds the flags it has set until it commits.    *)

Committed(c) ==
  open' = [d \in Collections |-> IF importing[c].flags[d] = "same" THEN open[d] ELSE importing[c].flags[d]]
NoFlags == [d \in Collections |-> "same"]

\* Other imports are under way: what they read may be out of date when they write.
Disturbed(c) ==
  [d \in Collections |-> IF d # c /\ importing[d] # NoImport THEN [importing[d] EXCEPT !.alone = FALSE] ELSE importing[d]]

\* CirculationData.license_pool and the first half of apply: the pool is made
\* if need be, and the mechanisms there are are listed.
StartImport(c, import) ==
  /\ importing[c] = NoImport
  /\ importing' =
       [Disturbed(c) EXCEPT ![c] =
          [phase |-> "formats",
           todo |-> import.formats,
           doomed |-> IF import.replace THEN {m \in Mechanisms : rights[m] # "absent" /\ import.formats[m] = "absent"} ELSE {},
           gone |-> {},
           flags |-> [NoFlags EXCEPT ![c] = IF open[c] = "absent" THEN import.open ELSE "same"],
           alone |-> Importing = {}, judged |-> FALSE]]
  /\ sure' = IF Importing = {} THEN sure ELSE {}
  /\ UNCHANGED <<rights, open>>

\* LicensePoolDeliveryMechanism.set makes the row, or changes its rights if it knows
\* better, and commits if it has done either.
SetFormat(c, m) ==
  /\ importing[c].phase = "formats" /\ importing[c].todo[m] # "absent"
  /\ IF rights[m] = "absent" \/ importing[c].todo[m] # "unknown"
     THEN /\ rights' = [rights EXCEPT ![m] = importing[c].todo[m]]
          /\ Committed(c)
          /\ importing' = [importing EXCEPT ![c].todo[m] = "absent", ![c].flags = NoFlags, ![c].phase = "judge"]
     ELSE /\ importing' = [importing EXCEPT ![c].todo[m] = "absent"]
          /\ UNCHANGED <<rights, open>>
  /\ UNCHANGED sure

Listed(c) == \A m \in Mechanisms : importing[c].todo[m] = "absent"

\* delete commits as well.  Another import that has listed the same row fails when
\* it comes to it.
DeleteFormat(c, m) ==
  /\ importing[c].phase = "formats" /\ Listed(c) /\ m \in importing[c].doomed
  /\ m \notin importing[c].gone
  /\ rights' = [rights EXCEPT ![m] = "absent"]
  /\ Committed(c)
  /\ importing' = [d \in Collections |->
       IF d = c THEN [importing[c] EXCEPT !.doomed = @ \ {m}, !.flags = NoFlags, !.phase = "judge"]
       ELSE IF importing[d] = NoImport THEN NoImport ELSE [importing[d] EXCEPT !.gone = @ \cup ({m} \cap importing[d].doomed)]]
  /\ UNCHANGED sure

\* Mutant of Judge: only the pool of the collection that is imported is looked at.
JudgeOwnPool(c) ==
  /\ importing[c].phase = "judge"
  /\ importing' = [importing EXCEPT ![c].phase = "formats", ![c].judged = TRUE,
       ![c].flags = [d \in Collections |-> IF d # c \/ open[d] = OpenAccess THEN "same" ELSE OpenAccess]]
  /\ UNCHANGED <<rights, open, sure>>

\* set_open_access_status, of all pools of the title that the session sees; what is
\* as it was is not written.
Judge(c) ==
  /\ importing[c].phase = "judge"
  /\ importing' = [importing EXCEPT ![c].phase = "formats", ![c].judged = TRUE,
       ![c].flags = [d \in Collections |-> IF open[d] \in {"absent", OpenAccess} THEN "same" ELSE OpenAccess]]
  /\ UNCHANGED <<rights, open, sure>>

\* The caller of apply commits the rest.
FinishImport(c) ==
  /\ importing[c].phase = "formats" /\ Listed(c) /\ importing[c].doomed = {}
  /\ Committed(c)
  /\ importing' = [importing EXCEPT ![c] = NoImport]
  /\ sure' = IF importing[c].alone /\ importing[c].judged THEN {d \in Collections : open'[d] # "absent"} ELSE sure
  /\ UNCHANGED rights

\* An exception or a crash: the session is rolled back.
AbortImport(c) ==
  /\ importing[c] # NoImport
  /\ importing' = [importing EXCEPT ![c] = NoImport]
  /\ sure' = {}
  /\ UNCHANGED <<rights, open>>

\* set_rights_status, called by the people who look after the collection.
SetRightsStatus(m, uri) ==
  /\ rights[m] # "absent"
  /\ rights' = [rights EXCEPT ![m] = uri]
  /\ open' = [c \in Collections |-> IF open[c] = "absent" THEN "absent" ELSE OpenAccess']
  /\ importing' = [c \in Collections |-> IF importing[c] = NoImport THEN NoImport ELSE [importing[c] EXCEPT !.alone = FALSE]]
  /\ sure' = IF Importing = {} THEN Pools ELSE {}

DeliveryNext ==
  \/ \E c \in Collections :
       \/ \E import \in Imports : StartImport(c, import)
       \/ \E m \in Mechanisms : SetFormat(c, m) \/ DeleteFormat(c, m)
       \/ Judge(c) \/ FinishImport(c) \/ AbortImport(c)
  \/ \E m \in Mechanisms, uri \in Rights : SetRightsStatus(m, uri)

DeliverySpec == DeliveryInit /\ [][DeliveryNext]_deliveryVars

-----------------------------------------------------------------------------
\* "Set .open_access based on whether there is currently an open-access
\* LicensePoolDeliveryMechanism for this LicensePool" (set_open_access_status): after
\* an import that nobody interfered with, and that knew the rights of anything or
\* removed anything, all pools of the title agree with its mechanisms, in whatever
\* state earlier imports, that overlapped or died, had left them; and they stay so
\* until imports overlap or die again.
OpenAccessIsRight == Importing = {} => \A c \in sure : open[c] = OpenAccess
=============================================================================
