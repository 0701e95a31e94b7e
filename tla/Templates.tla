----------------------------- MODULE Templates -----------------------------
(***************************************************************************)
(* One template board and what Redis keeps of it: its detail, cached while *)
(* it is public, and the two lists of public templates (the browse page    *)
(* and the filtered pages).  Its content may be edited only while it is    *)
(* private (ensureTemplateContentEditable).  What may change while it is   *)
(* public (the name, attachments, assignees) is no part of the content     *)
(* here: the caches are not deleted for it, and show it a day late.        *)
(*                                                                         *)
(* Content is a version number.  A query with nested selects is several    *)
(* SELECTs outside of a transaction: the row and the content below it are  *)
(* read in two steps.                                                      *)
(***************************************************************************)
EXTENDS Naturals, FiniteSets

CONSTANTS
    Reqs,      \* slots for requests in flight
    Failures,  \* whether a statement may fail or the process may die
    MaxEdits,  \* bound on the number of edits
    None

Lists == {"browse", "filtered"}
Keys == {"detail"} \cup Lists

ASSUME TemplateAssumption ==
    /\ Failures \in BOOLEAN /\ MaxEdits \in Nat
    /\ None \notin Nat /\ None \notin BOOLEAN /\ None \notin Reqs

VARIABLES
    tpl,          \* the board: [at, content]
    detail,       \* the key tpl:detail:<id>, or NoDetail
    listed,       \* the keys tpl:browse:* and tpl:filtered:*: do they hold it
    req,          \* the requests in flight, by slot
    detailStale,  \* history: an edit or an overtaken fill made the detail untrue
    listStale,    \* history: the lists that may be untrue for the same reason
    published     \* history: the versions of the content that were public

caches == <<detail, listed, detailStale, listStale>>
vars == <<tpl, caches, req, published>>

States == {"none", "PRIVATE", "PUBLIC", "deleted"}
Template == [at: States, content: Nat]

Cached == [vis: {"none", "PRIVATE", "PUBLIC"}, content: Nat \cup {None}, torn: BOOLEAN]
NoDetail == [vis |-> "none", content |-> None, torn |-> FALSE]

Ops == {"none", "edit", "visibility", "remove", "seed",
        "view", "copy", "list"}
Stages == {"idle", "write", "clear", "row", "content", "fill", "serve", "grow"}
\* late: a write to the template came after the read of its row, or of its
\* visibility in the guard of an edit;
\* torn: it came before the read of the content.
Request == [op: Ops, at: Stages, owner: BOOLEAN, vis: States,
            content: Nat \cup {None}, keys: SUBSET Keys, late: BOOLEAN, torn: BOOLEAN]
Idle == [op |-> "none", at |-> "idle", owner |-> FALSE, vis |-> "none",
         content |-> None, keys |-> {}, late |-> FALSE, torn |-> FALSE]

Free(r) == req[r] = Idle
At(r, ops, stage) == req[r].op \in ops /\ req[r].at = stage
Become(r, rec) == req' = [req EXCEPT ![r] = rec]
Finish(r) == Become(r, Idle)
Goto(r, stage) == Become(r, [req[r] EXCEPT !.at = stage])
ReadOnly == UNCHANGED <<tpl, caches, published>>

Live == tpl.at \in {"PRIVATE", "PUBLIC"}

\* A write to the template by slot r, which goes on as rec: the requests that
\* have read its row are late from now on.
Write(r, new, rec) ==
    /\ tpl' = new
    /\ published' = IF new.at = "PUBLIC" THEN published \cup {new.content} ELSE published
    /\ req' = [q \in Reqs |-> IF q = r THEN rec
                              ELSE [req[q] EXCEPT !.late = @ \/ req[q].at \in {"content", "fill"}
                                                             \/ req[q].op = "edit"]]

\* A write that no deletion of the caches follows.
Unannounced == /\ detailStale' = (detailStale \/ detail # NoDetail)
               /\ listStale' = {k \in Lists : listed[k] # None} \cup listStale
               /\ UNCHANGED <<detail, listed>>

Arrive(r, rec) == Free(r) /\ Become(r, rec) /\ ReadOnly

\* Room for the edits of the requests in flight.
RoomForEdit ==
    tpl.content + Cardinality({r \in Reqs : req[r].op \in {"edit", "seed"}}) < MaxEdits

----------------------------------------------------------------------------
(* Edits                                                                     *)

\* makeTemplate copies a board in a transaction.
MakeTemplate ==
    /\ tpl.at = "none"
    /\ tpl' = [tpl EXCEPT !.at = "PRIVATE"]
    /\ UNCHANGED <<caches, req, published>>

\* Mutant: the visibility is not looked at.
Editable_Always == TRUE
\* ensureTemplateContentEditable.
Editable == tpl.at # "PUBLIC"

Edit(r) ==
    /\ RoomForEdit /\ Live /\ Editable
    /\ Arrive(r, [Idle EXCEPT !.op = "edit", !.at = "write"])

\* An edit that the guard let pass may find the template public by now.
EditWrite(r) ==
    /\ At(r, {"edit"}, "write")
    /\ IF Live
       THEN /\ Write(r, [tpl EXCEPT !.content = @ + 1], Idle)
            /\ IF req[r].late THEN Unannounced ELSE UNCHANGED caches
       ELSE Finish(r) /\ ReadOnly

----------------------------------------------------------------------------
(* Visibility and deletion                                                   *)

SetVisibility(r) ==
    \E v \in {"PRIVATE", "PUBLIC"} :
       Live /\ Arrive(r, [Idle EXCEPT !.op = "visibility", !.at = "write", !.vis = v])

Remove(r) == Live /\ Arrive(r, [Idle EXCEPT !.op = "remove", !.at = "write"])

AdminWrite(r) ==
    /\ At(r, {"visibility", "remove"}, "write")
    /\ IF Live
       THEN Write(r, [tpl EXCEPT !.at = IF req[r].op = "remove" THEN "deleted" ELSE req[r].vis],
                  [Idle EXCEPT !.op = req[r].op, !.at = "clear", !.keys = Keys])
       ELSE Finish(r) /\ UNCHANGED <<tpl, published>>
    /\ UNCHANGED caches

\* Mutant: the lists are left to expire.
ToClear_Detail(keys) == keys \cap {"detail"}
\* The detail first, then the two patterns side by side.
ToClear(keys) == IF "detail" \in keys THEN {"detail"} ELSE keys

\* del and delByPattern: of the keys that were there when the scan began, none
\* is missed.
Clear(r) ==
    /\ req[r].at = "clear"
    /\ IF ToClear(req[r].keys) = {}
       THEN Finish(r) /\ ReadOnly
       ELSE \E k \in ToClear(req[r].keys) :
              /\ IF k = "detail"
                 THEN detail' = NoDetail /\ detailStale' = FALSE /\ UNCHANGED <<listed, listStale>>
                 ELSE /\ listed' = [listed EXCEPT ![k] = None]
                      /\ listStale' = listStale \ {k}
                      /\ UNCHANGED <<detail, detailStale>>
              /\ Become(r, [req[r] EXCEPT !.keys = @ \ {k}])
              /\ UNCHANGED <<tpl, published>>

----------------------------------------------------------------------------
(* prisma/seed-templates.ts: every template is deleted, each new one is      *)
(* public from the start and filled statement by statement.  No cache is     *)
(* deleted.                                                                  *)

SeedDelete ==
    /\ Live
    /\ Write(None, [tpl EXCEPT !.at = "deleted"], Idle)
    /\ Unannounced

SeedCreate(r) ==
    /\ Free(r) /\ tpl.at = "none" /\ RoomForEdit
    /\ Write(r, [tpl EXCEPT !.at = "PUBLIC"], [Idle EXCEPT !.op = "seed", !.at = "grow"])
    /\ Unannounced

SeedGrow(r) ==
    /\ At(r, {"seed"}, "grow")
    /\ IF Live
       THEN Write(r, [tpl EXCEPT !.content = @ + 1], Idle) /\ Unannounced
       ELSE Finish(r) /\ ReadOnly

----------------------------------------------------------------------------
(* Readers                                                                   *)

\* Mutant: the detail of a private template is cached too.
Cacheable_Any(vis) == vis # "none"
Cacheable(vis) == vis = "PUBLIC"

\* Mutant: a template that is not public is shown to anybody.
Readable_Anybody(r) == req[r].vis \in {"PRIVATE", "PUBLIC"}
\* The check of findTemplateById, findTemplateCardById and createFromTemplate.
Readable(r) == \/ req[r].vis = "PUBLIC"
               \/ req[r].vis = "PRIVATE" /\ req[r].owner

\* fetchTemplateDetail asks Redis first.
View(r) ==
    \E o \in BOOLEAN :
       Arrive(r, [Idle EXCEPT !.op = "view", !.owner = o,
                              !.at = IF detail = NoDetail THEN "row" ELSE "serve",
                              !.vis = detail.vis, !.content = detail.content,
                              !.torn = detail.torn])

\* Mutant: a template that is not there is no error.
RowRead_Missing(r) ==
    /\ At(r, {"view"}, "row")
    /\ Become(r, [req[r] EXCEPT !.at = "content", !.vis = tpl.at])
    /\ ReadOnly
\* A template that is not there is answered with an error.
RowRead(r) ==
    /\ At(r, {"view"}, "row")
    /\ IF Live THEN Become(r, [req[r] EXCEPT !.at = "content", !.vis = tpl.at]) ELSE Finish(r)
    /\ ReadOnly

\* findTemplateCardById and createFromTemplate read the row at once.
Copy(r) ==
    \E o \in BOOLEAN :
       Live /\ Arrive(r, [Idle EXCEPT !.op = "copy", !.owner = o,
                                      !.at = "content", !.vis = tpl.at])

ContentRead(r) ==
    /\ At(r, {"view", "copy"}, "content")
    /\ Become(r, [req[r] EXCEPT
                    !.at = IF req[r].op = "view" /\ Cacheable(req[r].vis) THEN "fill" ELSE "serve",
                    !.content = IF Live THEN tpl.content ELSE None,
                    !.torn = req[r].late,
                    !.late = @ /\ req[r].op = "view" /\ Cacheable(req[r].vis)])
    /\ ReadOnly

DetailFill(r) ==
    /\ At(r, {"view"}, "fill")
    /\ detail' = [vis |-> req[r].vis, content |-> req[r].content, torn |-> req[r].torn]
    /\ detailStale' = req[r].late
    /\ Become(r, [req[r] EXCEPT !.at = "serve", !.late = FALSE])
    /\ UNCHANGED <<tpl, listed, listStale, published>>

\* The answer, or the transaction that clones what was read.
Serve(r) ==
    /\ req[r].at = "serve"
    /\ Finish(r)
    /\ ReadOnly

ViewList(r) ==
    \E k \in Lists :
       /\ listed[k] = None
       /\ Arrive(r, [Idle EXCEPT !.op = "list", !.at = "row", !.keys = {k}])

ListRead(r) ==
    /\ At(r, {"list"}, "row")
    /\ Become(r, [req[r] EXCEPT !.at = "fill", !.vis = tpl.at])
    /\ ReadOnly

ListFill(r) ==
    /\ At(r, {"list"}, "fill")
    /\ listed' = [k \in Lists |-> IF k \in req[r].keys THEN req[r].vis = "PUBLIC" ELSE listed[k]]
    /\ listStale' = IF req[r].late THEN listStale \cup req[r].keys ELSE listStale \ req[r].keys
    /\ Finish(r)
    /\ UNCHANGED <<tpl, detail, detailStale, published>>

----------------------------------------------------------------------------
\* A TTL of a day.
DetailExpires ==
    /\ detail # NoDetail
    /\ detail' = NoDetail /\ detailStale' = FALSE
    /\ UNCHANGED <<tpl, listed, listStale, req, published>>

ListExpires(k) ==
    /\ listed[k] # None
    /\ listed' = [listed EXCEPT ![k] = None]
    /\ listStale' = listStale \ {k}
    /\ UNCHANGED <<tpl, detail, detailStale, req, published>>

\* A statement fails or the process dies: keys that were to be deleted stay.
Abort(r) ==
    /\ Failures /\ ~Free(r)
    /\ LET kept == IF req[r].at = "clear" THEN req[r].keys ELSE {}
       IN  /\ detailStale' = (detailStale \/ ("detail" \in kept /\ detail # NoDetail))
           /\ listStale' = listStale \cup {k \in kept \cap Lists : listed[k] # None}
    /\ Finish(r)
    /\ UNCHANGED <<tpl, detail, listed, published>>

----------------------------------------------------------------------------
Init ==
    /\ tpl = [at |-> "none", content |-> 0]
    /\ detail = NoDetail /\ detailStale = FALSE
    /\ listed = [k \in Lists |-> None] /\ listStale = {}
    /\ req = [r \in Reqs |-> Idle]
    /\ published = {}

Step(r) ==
    \/ Edit(r) \/ EditWrite(r)
    \/ SetVisibility(r) \/ Remove(r) \/ AdminWrite(r) \/ Clear(r)
    \/ SeedCreate(r) \/ SeedGrow(r)
    \/ View(r) \/ RowRead(r) \/ Copy(r) \/ ContentRead(r) \/ DetailFill(r) \/ Serve(r)
    \/ ViewList(r) \/ ListRead(r) \/ ListFill(r)
    \/ Abort(r)

Next == \/ \E r \in Reqs : Step(r)
        \/ MakeTemplate \/ SeedDelete
        \/ DetailExpires \/ \E k \in Lists : ListExpires(k)

Spec == Init /\ [][Next]_vars

\* Redis drops a key whose TTL is over.
FairSpec == Spec /\ WF_vars(DetailExpires)

----------------------------------------------------------------------------
(* Properties                                                                *)

TypeOK ==
    /\ tpl \in Template
    /\ detail \in Cached /\ detailStale \in BOOLEAN
    /\ listed \in [Lists -> BOOLEAN \cup {None}] /\ listStale \subseteq Lists
    /\ req \in [Reqs -> Request]
    /\ \A r \in Reqs : req[r].at \in {"content", "serve"} => req[r].vis \in {"PRIVATE", "PUBLIC"}
    /\ published \subseteq Nat

\* Its deletion from Redis is still to come.
Invalidating(k) == \E r \in Reqs : req[r].at = "clear" /\ k \in req[r].keys

DetailTruthful ==
    detail # NoDetail /\ ~detailStale /\ ~Invalidating("detail") =>
       /\ tpl.at = "PUBLIC" /\ detail.vis = "PUBLIC"
       /\ detail.content = tpl.content

ListsTruthful ==
    \A k \in Lists \ listStale :
       listed[k] # None /\ ~Invalidating(k) => listed[k] = (tpl.at = "PUBLIC")

\* The cached detail is the public template as it is now, and a cached list
\* holds the template if and only if it is public.  The exceptions are a
\* deletion from Redis that is under way or failed, a fill that a write has
\* overtaken since it read the row, an edit that passed the guard before the
\* publication, and the seed.
CachesTruthful == DetailTruthful /\ ListsTruthful

\* What a reader who is not the owner is shown, or clones, was public at some
\* time, unless a write came between the read of the row and of the content.
GuestsGetPublished ==
    \A r \in Reqs :
       req[r].at = "serve" /\ Readable(r) /\ ~req[r].owner /\ ~req[r].torn =>
          req[r].content \in published

\* A template that stays private or deleted is in the end not cached, whatever
\* overtook its last fill.
HiddenInTheEnd == <>[](tpl.at \in {"PRIVATE", "deleted"}) => <>[](detail = NoDetail)

=============================================================================
