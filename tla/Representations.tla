--------------------------- MODULE Representations ---------------------------
(***************************************************************************)
(* model/resource.py's Representation.get and metadata_layer.py's          *)
(* mirror_link, for one link: an import asks the web for what the link     *)
(* leads to, on condition that it has changed, keeps what it is given in   *)
(* the row for its media type, and uploads it to a mirror with s3.py's     *)
(* mirror_one.                                                             *)
(*                                                                         *)
(* What is on the web changes all the time, and no version comes back:     *)
(* all that matters of a version is whether it is still the newest one.  A *)
(* version has an etag; one without is like one whose etag is outdated.    *)
(***************************************************************************)

CONSTANTS
  Rels,       \* the relations of links that are mirrored
  Uploads,    \* what may become of an upload: done, failed
  NamesType,  \* does a 304 name the type of what has not changed?
  NoRow       \* stands for no row

ASSUME RepresentationsAssumption ==
  /\ Rels \subseteq {"open-access", "generic", "image"}
  /\ Uploads \subseteq {"done", "failed"}
  /\ NamesType \in BOOLEAN

VARIABLES
  rel,        \* the relation of the link
  web,        \* what the link leads to: its type and whether it is gone
  row,        \* the representations of the URL, by media type
  linked,     \* the media type of the representation the link's resource has
  hosted,     \* the versions on the mirror, by media type, and the thumbnail there
  suppressed, \* is the license pool suppressed?
  outcome     \* of the import that has just taken place

webVars == <<rel, web, row, linked, hosted, suppressed, outcome>>

\* The type the link mentions and another one; the latter of error pages, and what
\* str makes of no type.
Types == {"presumed", "other"}
AllTypes == Types \cup {"page", "None"}

\* failed: fetch_exception is set.  mirrored: mirror_url and mirrored_at are.
EmptyRow ==
  [content |-> "nothing", etag |-> "nothing", status |-> "none", failed |-> FALSE, mirrored |-> FALSE]

RepresentationsInit ==
  /\ rel \in Rels
  /\ web = [type |-> "presumed", gone |-> FALSE]
  /\ row = [t \in AllTypes |-> NoRow]
  /\ linked = "None"
  /\ hosted = [t \in Types \cup {"thumbnail"} |-> "nothing"]
  /\ suppressed = FALSE
  /\ outcome = "none"

-----------------------------------------------------------------------------
(* Representation.get.                                                     *)

IsUsable(r) == r # NoRow /\ ~r.failed /\ (r.content # "nothing" \/ r.status # "none")

\* get_one, 'interchangeable'.
Interchangeable == IF \A t \in AllTypes : row[t] = NoRow THEN {NoRow} ELSE {row[t] : t \in AllTypes} \ {NoRow}

\* What the web may answer somebody who has a row already: a condition may be
\* ignored, and only what is unchanged meets it.
Responses(have) ==
  {[got |-> "exception", type |-> "None"]}
  \cup [got : {"error"}, type : {"presumed", "page"}]
  \cup [got : IF web.gone THEN {"gone"} ELSE {}, type : {"presumed", "page"}]
  \cup [got : IF web.gone THEN {} ELSE {"good"}, type : {web.type}]
  \cup [got : IF ~web.gone /\ IsUsable(have) /\ have.etag = "new" THEN {"unchanged"} ELSE {},
        type : {IF NamesType THEN web.type ELSE "presumed"}]

\* The row for the type of the answer, made if need be.
RowFor(response) == IF row[response.type] = NoRow THEN EmptyRow ELSE row[response.type]

\* What becomes of that row.  If it did not go well, a usable representation is
\* returned rather than destroyed.
Received(response, have) ==
  LET r == RowFor(response) IN
  CASE response.got = "good" ->
         [r EXCEPT !.status = "good", !.content = "new", !.etag = "new"]
    [] response.got = "gone" ->
         [r EXCEPT !.status = "gone", !.content = "error page", !.etag = "nothing"]
    [] response.got = "unchanged" -> [r EXCEPT !.status = "unchanged"]
    [] response.got \in {"error", "exception"} /\ IsUsable(have) -> [r EXCEPT !.failed = TRUE]
    [] response.got = "error" /\ ~IsUsable(have) ->
         [r EXCEPT !.failed = TRUE, !.status = "error", !.content = "error page"]
    [] response.got = "exception" /\ ~IsUsable(have) ->
         [r EXCEPT !.failed = TRUE, !.status = "none", !.content = "nothing"]

-----------------------------------------------------------------------------
(* mirror_link, with what Representation.get has returned.                 *)

\* Is it of no use that something was fetched, or was nothing fetched?
DoNotMirror(response, have) ==
  LET r == Received(response, have) IN
  /\ r.failed
  /\ row' = [row EXCEPT ![response.type] = r]
  /\ linked' = response.type
  /\ suppressed' = (suppressed \/ rel = "open-access")
  /\ outcome' = IF response.got \in {"error", "exception"} THEN "not fetched" ELSE "refused"
  /\ UNCHANGED <<rel, web, hosted>>

NotThere(response, have) ==
  LET r == Received(response, have) IN
  /\ ~r.failed /\ response.got = "gone"
  /\ row' = [row EXCEPT ![response.type] = r]
  /\ linked' = response.type
  /\ outcome' = "not there"
  /\ UNCHANGED <<rel, web, hosted, suppressed>>

\* "If we fetched the representation and it hasn't changed, the previously mirrored
\* version is fine."
UpToDate(response, have) ==
  LET r == Received(response, have) IN
  /\ ~r.failed /\ response.got = "unchanged" /\ r.mirrored
  /\ row' = [row EXCEPT ![response.type] = r]
  /\ linked' = response.type
  /\ outcome' = "up to date"
  /\ UNCHANGED <<rel, web, hosted, suppressed>>

MayMirror(response, r) ==
  ~r.failed /\ (response.got = "good" \/ (response.got = "unchanged" /\ ~r.mirrored))

Book == rel \in {"open-access", "generic"}

\* mirror_one and, for a book, what follows: "If we mirrored book content
\* successfully, remove it from the database to save space."
MirrorBook(response, have) ==
  LET r == Received(response, have) IN
  /\ Book /\ MayMirror(response, r) /\ r.content # "nothing"
  /\ \E upload \in Uploads :
       LET after == [r EXCEPT !.mirrored = @ \/ upload = "done"] IN
       /\ hosted' = IF upload = "done" THEN [hosted EXCEPT ![response.type] = r.content] ELSE hosted
       /\ row' = [row EXCEPT ![response.type] =
                    IF after.mirrored THEN [after EXCEPT !.content = "nothing"] ELSE after]
  /\ linked' = response.type
  /\ outcome' = "tried"
  /\ UNCHANGED <<rel, web, suppressed>>

\* Mutant of FetchAgain: a broken image is left at that.
LeaveBroken(image) == FALSE
\* scale: does it set fetch_exception, "so we'll retry the fetch"?
FetchAgain(image) == image = "broken"

\* mirror_one and, for an image, scale: it may not need a thumbnail or not be an
\* image after all.
MirrorImage(response, have) ==
  LET r == Received(response, have) IN
  /\ ~Book /\ MayMirror(response, r) /\ r.content # "nothing"
  /\ \E upload, thumbnail \in Uploads, image \in {"large", "small", "broken"} :
       /\ hosted' = [hosted EXCEPT
            ![response.type] = IF upload = "done" THEN r.content ELSE @,
            !["thumbnail"] = CASE image = "small" -> "nothing"
                               [] image = "large" /\ thumbnail = "done" -> r.content
                               [] OTHER -> @]
       /\ row' = [row EXCEPT ![response.type] =
                    [r EXCEPT !.mirrored = @ \/ upload = "done", !.failed = FetchAgain(image)]]
  /\ linked' = response.type
  /\ outcome' = "tried"
  /\ UNCHANGED <<rel, web, suppressed>>

\* There is nothing to upload, which raises; or the process dies before the
\* import is committed, be it after an upload.
Abandon(response, have) ==
  LET r == Received(response, have) IN
  /\ \/ UNCHANGED hosted
     \/ /\ MayMirror(response, r) /\ r.content # "nothing"
        /\ hosted' = [hosted EXCEPT ![response.type] = r.content]
  /\ outcome' = "none"
  /\ UNCHANGED <<rel, web, row, linked, suppressed>>

-----------------------------------------------------------------------------
(* The web, and the people who look after the collection.                  *)
Aged(version) == IF version = "new" THEN "old" ELSE version

NewVersion(type) ==
  /\ web' = [type |-> type, gone |-> FALSE]
  /\ row' = [t \in AllTypes |-> IF row[t] = NoRow THEN NoRow
               ELSE [row[t] EXCEPT !.content = Aged(@), !.etag = Aged(@)]]
  /\ hosted' = [h \in DOMAIN hosted |-> Aged(hosted[h])]
  /\ outcome' = "none"
  /\ UNCHANGED <<rel, linked, suppressed>>

Vanish ==
  /\ web' = [web EXCEPT !.gone = ~@]
  /\ outcome' = "none"
  /\ UNCHANGED <<rel, row, linked, hosted, suppressed>>

\* "until someone fixes it manually"
Unsuppress ==
  /\ suppressed /\ suppressed' = FALSE
  /\ outcome' = "none"
  /\ UNCHANGED <<rel, web, row, linked, hosted>>

RepresentationsNext ==
  \/ \E have \in Interchangeable : \E response \in Responses(have) :
       \/ DoNotMirror(response, have) \/ NotThere(response, have) \/ UpToDate(response, have)
       \/ MirrorBook(response, have) \/ MirrorImage(response, have) \/ Abandon(response, have)
  \/ \E type \in Types : NewVersion(type)
  \/ Vanish
  \/ Unsuppress

RepresentationsSpec == RepresentationsInit /\ [][RepresentationsNext]_webVars

-----------------------------------------------------------------------------
\* "If we fetched the representation and it hasn't changed, the previously mirrored
\* version is fine. Don't mirror it again." (mirror_link): whenever an import stops
\* there, the mirror has the version that is on the web, and no thumbnail of an
\* older one -- after errors, exceptions, other media types, broken images and imports
\* that died in the middle.
MirroredVersionIsFine ==
  outcome = "up to date" => hosted[linked] = "new" /\ hosted["thumbnail"] # "old"
=============================================================================
