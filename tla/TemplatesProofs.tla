-------------------------- MODULE TemplatesProofs --------------------------
(* Theorems about Templates: what its caches hold and what guests are shown, *)
(* for any number of requests and edits.                                    *)
EXTENDS Templates, TLAPS

----------------------------------------------------------------------------
(* Types                                                                     *)

\* A list request is about lists, only what is public is on its way to the cache.
GoodReq ==
    {q \in Request :
       /\ q.op = "list" => q.keys \subseteq Lists
       /\ q.at = "fill" => q.op = "list" \/ (q.op = "view" /\ q.vis = "PUBLIC")
       /\ q.at = "content" => q.op \in {"view", "copy"}
       /\ q.at \in {"content", "serve"} => q.vis \in {"PRIVATE", "PUBLIC"}}

TypeInv ==
    /\ TypeOK
    /\ req \in [Reqs -> GoodReq]
    /\ detail # NoDetail => detail.vis = "PUBLIC"

LEMMA IdleGood == Idle \in GoodReq
BY DEF Idle, GoodReq, Request, Ops, Stages, States, Keys

LEMMA BecomeGood ==
  ASSUME TypeInv, NEW r \in Reqs, NEW q \in GoodReq, Become(r, q)
  PROVE  req' \in [Reqs -> GoodReq] /\ req' = [req EXCEPT ![r] = q]
BY DEF TypeInv, Become

LEMMA FinishGood ==
  ASSUME TypeInv, NEW r \in Reqs, Finish(r)
  PROVE  req' \in [Reqs -> GoodReq] /\ req' = [req EXCEPT ![r] = Idle]
BY IdleGood DEF TypeInv, Become, Finish

LEMMA ReqType ==
  ASSUME TypeInv, NEW r \in Reqs
  PROVE  req[r] \in GoodReq /\ req[r] \in Request
BY DEF TypeInv, GoodReq

\* Requests that change nothing else.
LEMMA TypeReq ==
  ASSUME TypeInv, req' \in [Reqs -> GoodReq], UNCHANGED <<tpl, detail, listed, published>>,
         detailStale' \in BOOLEAN, listStale' \subseteq Lists
  PROVE  TypeInv'
<1>1. \A r \in Reqs : req'[r] \in GoodReq /\ req'[r] \in Request
  BY DEF GoodReq
<1>2. \A r \in Reqs : req'[r].at \in {"content", "serve"} => req'[r].vis \in {"PRIVATE", "PUBLIC"}
  BY <1>1 DEF GoodReq
<1>3. req' \in [Reqs -> Request]
  BY <1>1
<1> QED
  BY <1>2, <1>3 DEF TypeInv, TypeOK

LEMMA WriteType ==
  ASSUME TypeInv, NEW r, NEW new \in Template, NEW q \in GoodReq, Write(r, new, q),
         UNCHANGED <<detail, listed>>, detailStale' \in BOOLEAN, listStale' \subseteq Lists
  PROVE  TypeInv'
<1>1. ASSUME NEW p \in Reqs
      PROVE  req'[p] \in GoodReq
  <2>1. CASE p = r
    BY <2>1 DEF Write
  <2>2. CASE p # r
    <3>1. req'[p] = [req[p] EXCEPT !.late = @ \/ req[p].at \in {"content", "fill"}
                                            \/ req[p].op = "edit"]
      BY <2>2 DEF Write
    <3>2. req'[p] \in Request
      BY <3>1, ReqType DEF Request
    <3>3. /\ req'[p].op = req[p].op /\ req'[p].at = req[p].at
          /\ req'[p].keys = req[p].keys /\ req'[p].vis = req[p].vis
      BY <3>1, ReqType DEF Request
    <3> QED
      BY <3>2, <3>3, ReqType DEF GoodReq
  <2> QED
    BY <2>1, <2>2
<1>2. req' \in [Reqs -> GoodReq]
  BY <1>1 DEF Write
<1>3. req' \in [Reqs -> Request]
  BY <1>2 DEF GoodReq
<1>4. \A p \in Reqs : req'[p].at \in {"content", "serve"} => req'[p].vis \in {"PRIVATE", "PUBLIC"}
  BY <1>1 DEF GoodReq
<1>5. tpl' \in Template /\ published' \subseteq Nat
  BY DEF Write, TypeInv, TypeOK, Template
<1> QED
  BY <1>2, <1>3, <1>4, <1>5 DEF TypeInv, TypeOK

LEMMA TypeInit == Init => TypeInv
<1> SUFFICES ASSUME Init PROVE TypeInv
  OBVIOUS
<1>1. req \in [Reqs -> GoodReq] /\ req \in [Reqs -> Request]
  BY IdleGood DEF Init, GoodReq
<1>2. \A r \in Reqs : req[r].at = "idle"
  BY DEF Init, Idle
<1>3. detail \in Cached /\ detail = NoDetail
  BY DEF Init, NoDetail, Cached
<1> QED
  BY <1>1, <1>2, <1>3 DEF Init, TypeInv, TypeOK, Template, States, Lists

LEMMA UnannouncedType ==
  ASSUME TypeOK, Unannounced
  PROVE  detailStale' \in BOOLEAN /\ listStale' \subseteq Lists /\ UNCHANGED <<detail, listed>>
BY DEF TypeOK, Unannounced

LEMMA TypeStep == TypeInv /\ [Next]_vars => TypeInv'
<1> SUFFICES ASSUME TypeInv, [Next]_vars PROVE TypeInv'
  OBVIOUS
<1> USE DEF caches
<1>0. TypeOK
  BY DEF TypeInv
<1>1. ASSUME NEW r \in Reqs, NEW q \in GoodReq, Become(r, q), ReadOnly PROVE TypeInv'
  BY <1>0, <1>1, BecomeGood, TypeReq DEF ReadOnly, TypeOK
<1>2. ASSUME NEW r \in Reqs, Finish(r), ReadOnly PROVE TypeInv'
  BY <1>1, <1>2, IdleGood DEF Finish
<1>3. ASSUME NEW r \in Reqs, Edit(r) \/ SetVisibility(r) \/ Remove(r) PROVE TypeInv'
  <2>1. PICK q \in GoodReq : Arrive(r, q)
    <3>1. CASE Edit(r)
      <4>1. [Idle EXCEPT !.op = "edit", !.at = "write"] \in GoodReq
        BY DEF Idle, GoodReq, Request, Ops, Stages, States
      <4> QED
        BY <3>1, <4>1 DEF Edit
    <3>2. CASE SetVisibility(r)
      <4>1. \A v \in {"PRIVATE", "PUBLIC"} :
               [Idle EXCEPT !.op = "visibility", !.at = "write", !.vis = v] \in GoodReq
        BY DEF Idle, GoodReq, Request, Ops, Stages, States
      <4> QED
        BY <3>2, <4>1 DEF SetVisibility
    <3>3. CASE Remove(r)
      <4>1. [Idle EXCEPT !.op = "remove", !.at = "write"] \in GoodReq
        BY DEF Idle, GoodReq, Request, Ops, Stages, States
      <4> QED
        BY <3>3, <4>1 DEF Remove
    <3> QED
      BY <1>3, <3>1, <3>2, <3>3
  <2> QED
    BY <1>1, <2>1 DEF Arrive
<1>4. ASSUME NEW r \in Reqs, View(r) \/ Copy(r) \/ ViewList(r) PROVE TypeInv'
  <2>1. PICK q \in GoodReq : Arrive(r, q)
    <3>1. CASE View(r)
      <4>1. PICK o \in BOOLEAN :
               Arrive(r, [Idle EXCEPT !.op = "view", !.owner = o,
                              !.at = IF detail = NoDetail THEN "row" ELSE "serve",
                              !.vis = detail.vis, !.content = detail.content,
                              !.torn = detail.torn])
        BY <3>1 DEF View
      <4> DEFINE q == [Idle EXCEPT !.op = "view", !.owner = o,
                              !.at = IF detail = NoDetail THEN "row" ELSE "serve",
                              !.vis = detail.vis, !.content = detail.content,
                              !.torn = detail.torn]
      <4>2. /\ detail.vis \in States /\ detail.content \in Nat \cup {None}
            /\ detail.torn \in BOOLEAN
        BY <1>0 DEF TypeOK, Cached, States
      <4>3. q \in Request
        BY <4>2 DEF Idle, Request, Ops, Stages
      <4>4. q \in GoodReq
        BY <4>3 DEF GoodReq, Idle, TypeInv
      <4> QED
        BY <4>1, <4>4
    <3>2. CASE Copy(r)
      <4>1. PICK o \in BOOLEAN :
               Live /\ Arrive(r, [Idle EXCEPT !.op = "copy", !.owner = o,
                                              !.at = "content", !.vis = tpl.at])
        BY <3>2 DEF Copy
      <4>2. [Idle EXCEPT !.op = "copy", !.owner = o, !.at = "content", !.vis = tpl.at] \in GoodReq
        BY <4>1 DEF Idle, GoodReq, Request, Ops, Stages, States, Live
      <4> QED
        BY <4>1, <4>2
    <3>3. CASE ViewList(r)
      <4>1. PICK k \in Lists :
               Arrive(r, [Idle EXCEPT !.op = "list", !.at = "row", !.keys = {k}])
        BY <3>3 DEF ViewList
      <4>2. [Idle EXCEPT !.op = "list", !.at = "row", !.keys = {k}] \in GoodReq
        BY DEF Idle, GoodReq, Request, Ops, Stages, States, Keys
      <4> QED
        BY <4>1, <4>2
    <3> QED
      BY <1>4, <3>1, <3>2, <3>3
  <2> QED
    BY <1>1, <2>1 DEF Arrive
<1>5. ASSUME NEW r \in Reqs, EditWrite(r) PROVE TypeInv'
  <2>1. CASE Live
    <3>1. [tpl EXCEPT !.content = @ + 1] \in Template
      BY <1>0 DEF TypeOK, Template
    <3>2. Write(r, [tpl EXCEPT !.content = @ + 1], Idle)
      BY <1>5, <2>1 DEF EditWrite
    <3>3. detailStale' \in BOOLEAN /\ listStale' \subseteq Lists /\ UNCHANGED <<detail, listed>>
      BY <1>0, <1>5, <2>1, UnannouncedType DEF EditWrite, TypeOK
    <3> QED
      BY <3>1, <3>2, <3>3, IdleGood, WriteType
  <2>2. CASE ~Live
    BY <1>2, <1>5, <2>2 DEF EditWrite
  <2> QED
    BY <2>1, <2>2
<1>6. ASSUME NEW r \in Reqs, AdminWrite(r) PROVE TypeInv'
  <2>1. CASE Live
    <3> DEFINE new == [tpl EXCEPT !.at = IF req[r].op = "remove" THEN "deleted" ELSE req[r].vis]
               q == [Idle EXCEPT !.op = req[r].op, !.at = "clear", !.keys = Keys]
    <3>1. new \in Template
      BY <1>0, ReqType DEF TypeOK, Template, States, Request
    <3>2. q \in GoodReq
      BY <1>6 DEF AdminWrite, At, Idle, GoodReq, Request, Ops, Stages, States
    <3>3. Write(r, new, q) /\ UNCHANGED caches
      BY <1>6, <2>1 DEF AdminWrite
    <3> HIDE DEF new, q
    <3> QED
      BY <1>0, <3>1, <3>2, <3>3, WriteType DEF TypeOK
  <2>2. CASE ~Live
    BY <1>2, <1>6, <2>2 DEF AdminWrite, ReadOnly
  <2> QED
    BY <2>1, <2>2
<1>7. ASSUME NEW r \in Reqs, Clear(r) PROVE TypeInv'
  <2>1. CASE ToClear(req[r].keys) = {}
    BY <1>2, <1>7, <2>1 DEF Clear
  <2>2. CASE ToClear(req[r].keys) # {}
    <3>1. PICK k \in ToClear(req[r].keys) :
              /\ IF k = "detail"
                 THEN detail' = NoDetail /\ detailStale' = FALSE /\ UNCHANGED <<listed, listStale>>
                 ELSE /\ listed' = [listed EXCEPT ![k] = None]
                      /\ listStale' = listStale \ {k}
                      /\ UNCHANGED <<detail, detailStale>>
              /\ Become(r, [req[r] EXCEPT !.keys = @ \ {k}])
              /\ UNCHANGED <<tpl, published>>
      BY <1>7, <2>2 DEF Clear
    <3>2. [req[r] EXCEPT !.keys = req[r].keys \ {k}] \in GoodReq
      BY ReqType DEF GoodReq, Request
    <3>3. req' \in [Reqs -> GoodReq]
      BY <3>1, <3>2, BecomeGood
    <3>4. req' \in [Reqs -> Request] /\ \A p \in Reqs :
             req'[p].at \in {"content", "serve"} => req'[p].vis \in {"PRIVATE", "PUBLIC"}
      BY <3>3 DEF GoodReq
    <3>5. /\ detail' \in Cached /\ detailStale' \in BOOLEAN
          /\ detail' # NoDetail => detail'.vis = "PUBLIC"
      <4>1. NoDetail \in Cached
        BY DEF NoDetail, Cached
      <4>2. CASE k = "detail"
        BY <3>1, <4>1, <4>2
      <4>3. CASE k # "detail"
        BY <1>0, <3>1, <4>3 DEF TypeOK, TypeInv
      <4> QED
        BY <4>2, <4>3
    <3>6. listed' \in [Lists -> BOOLEAN \cup {None}] /\ listStale' \subseteq Lists
      BY <1>0, <3>1 DEF TypeOK
    <3> QED
      BY <1>0, <3>1, <3>3, <3>4, <3>5, <3>6 DEF TypeInv, TypeOK
  <2> QED
    BY <2>1, <2>2
<1>8. ASSUME NEW r \in Reqs, SeedCreate(r) PROVE TypeInv'
  <2>1. [tpl EXCEPT !.at = "PUBLIC"] \in Template
    BY <1>0 DEF TypeOK, Template, States
  <2>2. [Idle EXCEPT !.op = "seed", !.at = "grow"] \in GoodReq
    BY DEF Idle, GoodReq, Request, Ops, Stages, States
  <2> QED
    BY <1>0, <1>8, <2>1, <2>2, WriteType, UnannouncedType DEF SeedCreate
<1>9. ASSUME NEW r \in Reqs, SeedGrow(r) PROVE TypeInv'
  <2>1. CASE Live
    <3>1. [tpl EXCEPT !.content = @ + 1] \in Template
      BY <1>0 DEF TypeOK, Template
    <3> QED
      BY <1>0, <1>9, <2>1, <3>1, IdleGood, WriteType, UnannouncedType DEF SeedGrow
  <2>2. CASE ~Live
    BY <1>2, <1>9, <2>2 DEF SeedGrow
  <2> QED
    BY <2>1, <2>2
<1>10. CASE SeedDelete
  <2>1. [tpl EXCEPT !.at = "deleted"] \in Template
    BY <1>0 DEF TypeOK, Template, States
  <2> QED
    BY <1>0, <1>10, <2>1, IdleGood, WriteType, UnannouncedType DEF SeedDelete
<1>11. ASSUME NEW r \in Reqs, RowRead(r) PROVE TypeInv'
  <2>1. CASE Live
    <3>1. [req[r] EXCEPT !.at = "content", !.vis = tpl.at] \in GoodReq
      BY <1>11, <2>1, ReqType DEF RowRead, At, GoodReq, Request, Stages, States, Live
    <3> QED
      BY <1>1, <1>11, <2>1, <3>1 DEF RowRead
  <2>2. CASE ~Live
    BY <1>2, <1>11, <2>2 DEF RowRead
  <2> QED
    BY <2>1, <2>2
<1>12. ASSUME NEW r \in Reqs, ContentRead(r) PROVE TypeInv'
  <2> DEFINE q == [req[r] EXCEPT
                    !.at = IF req[r].op = "view" /\ Cacheable(req[r].vis) THEN "fill" ELSE "serve",
                    !.content = IF Live THEN tpl.content ELSE None,
                    !.torn = req[r].late,
                    !.late = req[r].late /\ req[r].op = "view" /\ Cacheable(req[r].vis)]
  <2>1. q \in Request /\ q.op = req[r].op /\ q.vis = req[r].vis /\ q.keys = req[r].keys
        /\ q.at = IF req[r].op = "view" /\ Cacheable(req[r].vis) THEN "fill" ELSE "serve"
    BY <1>0, ReqType, ZenonT(60) DEF Request, Stages, TypeOK, Template
  <2>2. req[r].at = "content" /\ req[r].op \in {"view", "copy"}
    BY <1>12 DEF ContentRead, At
  <2>3. Become(r, q) /\ ReadOnly
    BY <1>12 DEF ContentRead
  <2> HIDE DEF q
  <2>4. q \in GoodReq
    BY <2>1, <2>2, ReqType DEF GoodReq, Cacheable
  <2> QED
    BY <1>1, <2>3, <2>4
<1>13. ASSUME NEW r \in Reqs, DetailFill(r) PROVE TypeInv'
  <2>1. /\ req[r].vis = "PUBLIC" /\ req[r].content \in Nat \cup {None}
        /\ req[r].torn \in BOOLEAN /\ req[r].late \in BOOLEAN
    BY <1>13, ReqType DEF DetailFill, At, GoodReq, Request
  <2>2. [req[r] EXCEPT !.at = "serve", !.late = FALSE] \in GoodReq
    BY <1>13, <2>1, ReqType DEF DetailFill, At, GoodReq, Request, Stages
  <2>3. req' \in [Reqs -> GoodReq]
    BY <1>13, <2>2, BecomeGood DEF DetailFill
  <2>4. req' \in [Reqs -> Request] /\ \A p \in Reqs :
             req'[p].at \in {"content", "serve"} => req'[p].vis \in {"PRIVATE", "PUBLIC"}
    BY <2>3 DEF GoodReq
  <2>5. detail' \in Cached /\ detail'.vis = "PUBLIC" /\ detailStale' \in BOOLEAN
    BY <1>13, <2>1 DEF DetailFill, Cached
  <2> QED
    BY <1>0, <1>13, <2>3, <2>4, <2>5 DEF DetailFill, TypeInv, TypeOK
<1>14. ASSUME NEW r \in Reqs, Serve(r) PROVE TypeInv'
  BY <1>2, <1>14 DEF Serve
<1>15. ASSUME NEW r \in Reqs, ListRead(r) PROVE TypeInv'
  <2>1. [req[r] EXCEPT !.at = "fill", !.vis = tpl.at] \in GoodReq
    BY <1>0, <1>15, ReqType, ZenonT(60)
       DEF ListRead, At, GoodReq, Request, Stages, TypeOK, Template
  <2> QED
    BY <1>1, <1>15, <2>1 DEF ListRead
<1>16. ASSUME NEW r \in Reqs, ListFill(r) PROVE TypeInv'
  <2>1. req[r].keys \subseteq Lists
    BY <1>16, ReqType DEF ListFill, At, GoodReq
  <2>2. req' \in [Reqs -> GoodReq]
    BY <1>16, FinishGood DEF ListFill
  <2>3. req' \in [Reqs -> Request] /\ \A p \in Reqs :
             req'[p].at \in {"content", "serve"} => req'[p].vis \in {"PRIVATE", "PUBLIC"}
    BY <2>2 DEF GoodReq
  <2>4. listed' \in [Lists -> BOOLEAN \cup {None}] /\ listStale' \subseteq Lists
    BY <1>0, <1>16, <2>1 DEF ListFill, TypeOK
  <2> QED
    BY <1>0, <1>16, <2>2, <2>3, <2>4 DEF ListFill, TypeInv, TypeOK
<1>17. ASSUME NEW r \in Reqs, Abort(r) PROVE TypeInv'
  <2>1. req' \in [Reqs -> GoodReq]
    BY <1>17, FinishGood DEF Abort
  <2>2. detailStale' \in BOOLEAN /\ listStale' \subseteq Lists
    BY <1>0, <1>17 DEF Abort, TypeOK
  <2> QED
    BY <1>17, <2>1, <2>2, TypeReq DEF Abort
<1>18. CASE MakeTemplate
  BY <1>0, <1>18 DEF MakeTemplate, TypeInv, TypeOK, Template, States
<1>19. CASE DetailExpires
  BY <1>0, <1>19 DEF DetailExpires, TypeInv, TypeOK, NoDetail, Cached
<1>20. ASSUME NEW k \in Lists, ListExpires(k) PROVE TypeInv'
  BY <1>0, <1>20 DEF ListExpires, TypeInv, TypeOK
<1>21. CASE UNCHANGED vars
  BY <1>0, <1>21 DEF vars, TypeInv, TypeOK
<1> QED
  BY <1>3, <1>4, <1>5, <1>6, <1>7, <1>8, <1>9, <1>10, <1>11, <1>12, <1>13, <1>14, <1>15, <1>16,
     <1>17, <1>18, <1>19, <1>20, <1>21 DEF Next, Step

LEMMA TypesAlways == Spec => []TypeInv
BY TypeInit, TypeStep, PTL DEF Spec

\* With their types the requests keep what the statements rely on: a template
\* that is not there is neither cached nor served.
THEOREM TypeCorrect == Spec => []TypeOK
<1>1. TypeInv => TypeOK
  BY DEF TypeInv
<1> QED
  BY <1>1, TypesAlways, PTL

----------------------------------------------------------------------------
(* What the requests in flight know                                          *)

\* As long as no write has overtaken it, a request knows the template as it is:
\* its visibility, what a view takes to the cache, and, for an edit, that it is
\* not public.
Knows(q, t) ==
    ~q.late =>
       /\ q.at = "content" => q.vis = t.at
       /\ q.op = "view" /\ q.at = "fill" => t.at = "PUBLIC" /\ q.content = t.content
       /\ q.op = "list" /\ q.at = "fill" => (q.vis = "PUBLIC") = (t.at = "PUBLIC")
       /\ q.op = "edit" => t.at # "PUBLIC"

\* What was public is on record, and so is what a guest may get.
Shows(q, public) ==
    /\ q.op = "view" /\ q.at = "fill" /\ ~q.torn => q.content \in public
    /\ q.at = "serve" /\ q.vis = "PUBLIC" /\ ~q.torn => q.content \in public

KnowInv == /\ \A r \in Reqs : Knows(req[r], tpl)
           /\ \A r \in Reqs : Shows(req[r], published)
           /\ tpl.at = "PUBLIC" => tpl.content \in published
           /\ detail # NoDetail /\ ~detail.torn => detail.content \in published

CacheInv == KnowInv /\ CachesTruthful

LEMMA CacheInit == Init => CacheInv
<1> SUFFICES ASSUME Init PROVE CacheInv
  OBVIOUS
<1>1. \A r \in Reqs : req[r].op = "none" /\ req[r].at = "idle"
  BY DEF Init, Idle
<1>2. tpl.at = "none" /\ detail = NoDetail /\ \A k \in Lists : listed[k] = None
  BY DEF Init
<1> QED
  BY <1>1, <1>2 DEF CacheInv, KnowInv, Knows, Shows, CachesTruthful, DetailTruthful, ListsTruthful

\* A step of one request that changes neither the template nor the caches, and
\* leaves no deletion behind.
LEMMA KnowStep ==
  ASSUME TypeInv, CacheInv, NEW r \in Reqs, NEW q, Become(r, q), ReadOnly,
         Knows(q, tpl), Shows(q, published), req[r].at = "clear" => req[r].keys = {}
  PROVE  CacheInv'
<1>1. /\ \A p \in Reqs \ {r} : req'[p] = req[p]
      /\ req'[r] = q
  BY DEF TypeInv, Become
<1>2. UNCHANGED <<tpl, detail, listed, detailStale, listStale, published>>
  BY DEF ReadOnly, caches
<1>3. \A p \in Reqs : Knows(req'[p], tpl)
  BY <1>1 DEF CacheInv, KnowInv, Knows
<1>4. \A p \in Reqs : Shows(req'[p], published)
  BY <1>1 DEF CacheInv, KnowInv
<1>5. KnowInv'
  BY <1>2, <1>3, <1>4 DEF CacheInv, KnowInv, Knows, Shows
<1>6. \A k \in Keys : Invalidating(k) => Invalidating(k)'
  BY <1>1 DEF Invalidating
<1>7. "detail" \in Keys /\ Lists \subseteq Keys
  BY DEF Keys
<1>8. DetailTruthful'
  BY <1>2, <1>6, <1>7 DEF CacheInv, CachesTruthful, DetailTruthful
<1>9. ListsTruthful'
  BY <1>2, <1>6, <1>7 DEF CacheInv, CachesTruthful, ListsTruthful
<1> QED
  BY <1>5, <1>8, <1>9 DEF CacheInv, CachesTruthful

LEMMA KnowFinish ==
  ASSUME TypeInv, CacheInv, NEW r \in Reqs, Finish(r), ReadOnly,
         req[r].at = "clear" => req[r].keys = {}
  PROVE  CacheInv'
<1>1. Knows(Idle, tpl) /\ Shows(Idle, published)
  BY DEF Knows, Shows, Idle
<1> QED
  BY <1>1, KnowStep DEF Finish

\* A write: nobody knows the template any more, and what is cached may be
\* untrue; the case of an edit of a template that is not public is apart.
LEMMA KnowWrite ==
  ASSUME TypeInv, CacheInv, NEW r, NEW new, NEW q, Write(r, new, q), UNCHANGED detail,
         q.at \notin {"content", "fill", "serve"}, q.op # "edit"
  PROVE  KnowInv'
<1>1. ASSUME NEW p \in Reqs
      PROVE  Knows(req'[p], tpl') /\ Shows(req'[p], published')
  <2>1. CASE p = r
    <3>1. req'[p] = q
      BY <2>1 DEF Write
    <3> QED
      BY <3>1 DEF Knows, Shows
  <2>2. CASE p # r
    <3>1. req'[p] = [req[p] EXCEPT !.late = @ \/ req[p].at \in {"content", "fill"}
                                            \/ req[p].op = "edit"]
      BY <2>2 DEF Write
    <3>2. /\ req'[p].op = req[p].op /\ req'[p].at = req[p].at /\ req'[p].torn = req[p].torn
          /\ req'[p].vis = req[p].vis /\ req'[p].content = req[p].content
          /\ req'[p].late = (req[p].late \/ req[p].at \in {"content", "fill"} \/ req[p].op = "edit")
      BY <3>1, ReqType DEF Request
    <3>3. published \subseteq published'
      BY DEF Write
    <3> QED
      BY <3>2, <3>3 DEF CacheInv, KnowInv, Knows, Shows
  <2> QED
    BY <2>1, <2>2
<1>2. /\ published \subseteq published' /\ tpl' = new
      /\ tpl'.at = "PUBLIC" => tpl'.content \in published'
  BY DEF Write
<1>3. detail' # NoDetail /\ ~detail'.torn => detail'.content \in published'
  BY <1>2 DEF CacheInv, KnowInv
<1> QED
  BY <1>1, <1>2, <1>3 DEF KnowInv

\* A write that goes unannounced marks everything that is cached.
LEMMA UnannouncedStep ==
  ASSUME TypeInv, CacheInv, NEW r, NEW new, NEW q, Write(r, new, q), Unannounced,
         q.at \notin {"content", "fill", "serve"}, q.op # "edit"
  PROVE  CacheInv'
<1>1. KnowInv' /\ UNCHANGED <<detail, listed>>
  BY KnowWrite DEF Unannounced
<1>2. DetailTruthful' /\ ListsTruthful'
  BY <1>1 DEF Unannounced, DetailTruthful, ListsTruthful
<1> QED
  BY <1>1, <1>2 DEF CacheInv, CachesTruthful

\* Who deletes from Redis after a write by r.
LEMMA WriteInvalidating ==
  ASSUME TypeInv, NEW r, NEW new, NEW q, Write(r, new, q), NEW k \in Keys, Invalidating(k),
         r \in Reqs => req[r].at # "clear"
  PROVE  Invalidating(k)'
<1>1. PICK p \in Reqs : req[p].at = "clear" /\ k \in req[p].keys
  BY DEF Invalidating
<1>2. req'[p] = [req[p] EXCEPT !.late = @ \/ req[p].at \in {"content", "fill"}
                                        \/ req[p].op = "edit"]
  BY <1>1 DEF Write
<1>3. req'[p].at = req[p].at /\ req'[p].keys = req[p].keys
  BY <1>2, ReqType DEF Request
<1> QED
  BY <1>1, <1>3 DEF Invalidating

LEMMA CacheReaders ==
  ASSUME TypeInv, CacheInv, NEW r \in Reqs,
         \/ Edit(r) \/ SetVisibility(r) \/ Remove(r) \/ View(r) \/ Copy(r) \/ ViewList(r)
         \/ RowRead(r) \/ ContentRead(r) \/ ListRead(r) \/ Serve(r)
  PROVE  CacheInv'
<1> USE DEF Knows, Shows
<1>1. ASSUME NEW q, Arrive(r, q), Knows(q, tpl), Shows(q, published) PROVE CacheInv'
  BY <1>1, KnowStep DEF Arrive, Free, Idle
<1>2. CASE Edit(r)
  BY <1>1, <1>2 DEF Edit, Editable, Idle
<1>3. CASE SetVisibility(r) \/ Remove(r) \/ ViewList(r)
  BY <1>1, <1>3 DEF SetVisibility, Remove, ViewList, Idle
<1>4. CASE View(r)
  <2>1. PICK o \in BOOLEAN :
           Arrive(r, [Idle EXCEPT !.op = "view", !.owner = o,
                              !.at = IF detail = NoDetail THEN "row" ELSE "serve",
                              !.vis = detail.vis, !.content = detail.content,
                              !.torn = detail.torn])
    BY <1>4 DEF View
  <2> DEFINE q == [Idle EXCEPT !.op = "view", !.owner = o,
                              !.at = IF detail = NoDetail THEN "row" ELSE "serve",
                              !.vis = detail.vis, !.content = detail.content,
                              !.torn = detail.torn]
  <2>2. Knows(q, tpl) /\ Shows(q, published)
    BY DEF Idle, CacheInv, KnowInv
  <2> QED
    BY <1>1, <2>1, <2>2
<1>5. CASE Copy(r)
  BY <1>1, <1>5 DEF Copy, Idle
<1>6. CASE RowRead(r)
  <2>1. CASE Live
    <3> DEFINE q == [req[r] EXCEPT !.at = "content", !.vis = tpl.at]
    <3>1. q.at = "content" /\ q.vis = tpl.at /\ q.op = "view"
      BY <1>6, ReqType DEF RowRead, At, Request
    <3>2. Become(r, q) /\ ReadOnly /\ req[r].at # "clear"
      BY <1>6, <2>1 DEF RowRead, At
    <3> HIDE DEF q
    <3> QED
      BY <3>1, <3>2, KnowStep
  <2>2. CASE ~Live
    BY <1>6, <2>2, KnowFinish DEF RowRead, At
  <2> QED
    BY <2>1, <2>2
<1>7. CASE ContentRead(r)
  <2> DEFINE cached == req[r].op = "view" /\ Cacheable(req[r].vis)
             q == [req[r] EXCEPT !.at = IF cached THEN "fill" ELSE "serve",
                                 !.content = IF Live THEN tpl.content ELSE None,
                                 !.torn = req[r].late,
                                 !.late = req[r].late /\ cached]
  <2>1. Become(r, q) /\ ReadOnly /\ req[r].at = "content" /\ req[r].op \in {"view", "copy"}
    BY <1>7 DEF ContentRead, At
  <2>2. /\ q.op = req[r].op /\ q.vis = req[r].vis /\ q.torn = req[r].late
        /\ q.at = (IF cached THEN "fill" ELSE "serve") /\ q.late = (req[r].late /\ cached)
        /\ q.content = IF Live THEN tpl.content ELSE None
    BY ReqType DEF Request
  <2> HIDE DEF q
  <2>3. ~req[r].late => req[r].vis = tpl.at
    BY <2>1 DEF CacheInv, KnowInv
  <2>4. tpl.at = "PUBLIC" => Live /\ tpl.content \in published
    BY DEF CacheInv, KnowInv, Live
  <2>5. Knows(q, tpl) /\ Shows(q, published)
    BY <2>1, <2>2, <2>3, <2>4 DEF Cacheable
  <2> QED
    BY <2>1, <2>5, KnowStep
<1>8. CASE ListRead(r)
  <2> DEFINE q == [req[r] EXCEPT !.at = "fill", !.vis = tpl.at]
  <2>1. q.at = "fill" /\ q.vis = tpl.at /\ q.op = "list"
    BY <1>8, ReqType DEF ListRead, At, Request
  <2>2. Become(r, q) /\ ReadOnly /\ req[r].at # "clear"
    BY <1>8 DEF ListRead, At
  <2> HIDE DEF q
  <2> QED
    BY <2>1, <2>2, KnowStep
<1>9. CASE Serve(r)
  BY <1>9, KnowFinish DEF Serve
<1> QED
  BY <1>2, <1>3, <1>4, <1>5, <1>6, <1>7, <1>8, <1>9

LEMMA CacheWrites ==
  ASSUME TypeInv, CacheInv, NEW r \in Reqs,
         EditWrite(r) \/ AdminWrite(r) \/ SeedCreate(r) \/ SeedGrow(r)
  PROVE  CacheInv'
<1>1. Idle.at = "idle" /\ Idle.op = "none"
  BY DEF Idle
<1>2. "detail" \in Keys /\ Lists \subseteq Keys
  BY DEF Keys
<1>3. CASE EditWrite(r) /\ ~Live
  BY <1>3, KnowFinish DEF EditWrite, At
<1>4. CASE EditWrite(r) /\ Live /\ req[r].late
  BY <1>1, <1>4, UnannouncedStep DEF EditWrite
<1>5. CASE EditWrite(r) /\ Live /\ ~req[r].late
  <2>1. /\ Write(r, [tpl EXCEPT !.content = @ + 1], Idle) /\ UNCHANGED caches
        /\ req[r].op = "edit" /\ req[r].at = "write"
    BY <1>5 DEF EditWrite, At
  <2>2. KnowInv'
    BY <1>1, <2>1, KnowWrite DEF caches
  <2>3. tpl'.at = tpl.at /\ tpl.at # "PUBLIC"
    BY <1>5, <2>1 DEF CacheInv, KnowInv, Knows, Write, TypeInv, TypeOK, Template
  <2>4. \A k \in Keys : Invalidating(k) => Invalidating(k)'
    BY <2>1, WriteInvalidating
  <2>5. DetailTruthful' /\ ListsTruthful'
    BY <1>2, <2>1, <2>3, <2>4 DEF caches, CacheInv, CachesTruthful, DetailTruthful, ListsTruthful
  <2> QED
    BY <2>2, <2>5 DEF CacheInv, CachesTruthful
<1>6. CASE AdminWrite(r) /\ Live
  <2> DEFINE new == [tpl EXCEPT !.at = IF req[r].op = "remove" THEN "deleted" ELSE req[r].vis]
             q == [Idle EXCEPT !.op = req[r].op, !.at = "clear", !.keys = Keys]
  <2>1. Write(r, new, q) /\ UNCHANGED caches /\ req[r].op \in {"visibility", "remove"}
    BY <1>6 DEF AdminWrite, At
  <2>2. q.at = "clear" /\ q.op = req[r].op /\ q.keys = Keys
    BY DEF Idle
  <2> HIDE DEF new, q
  <2>3. KnowInv'
    BY <2>1, <2>2, KnowWrite DEF caches
  <2>4. \A k \in Keys : Invalidating(k)'
    BY <2>1, <2>2 DEF Invalidating, Write
  <2>5. DetailTruthful' /\ ListsTruthful'
    BY <1>2, <2>4 DEF DetailTruthful, ListsTruthful
  <2> QED
    BY <2>3, <2>5 DEF CacheInv, CachesTruthful
<1>7. CASE AdminWrite(r) /\ ~Live
  BY <1>7, KnowFinish DEF AdminWrite, At, ReadOnly
<1>8. CASE SeedCreate(r)
  <2> DEFINE q == [Idle EXCEPT !.op = "seed", !.at = "grow"]
  <2>1. q.op = "seed" /\ q.at = "grow"
    BY DEF Idle
  <2> HIDE DEF q
  <2>2. Write(r, [tpl EXCEPT !.at = "PUBLIC"], q) /\ Unannounced
    BY <1>8 DEF SeedCreate, q
  <2> QED
    BY <2>1, <2>2, UnannouncedStep
<1>9. CASE SeedGrow(r)
  BY <1>1, <1>9, UnannouncedStep, KnowFinish DEF SeedGrow, At
<1> QED
  BY <1>3, <1>4, <1>5, <1>6, <1>7, <1>8, <1>9

LEMMA CacheFills ==
  ASSUME TypeInv, CacheInv, NEW r \in Reqs, DetailFill(r) \/ ListFill(r)
  PROVE  CacheInv'
<1> USE DEF Knows, Shows
<1>0. \A k \in Lists : k # "detail"
  BY DEF Lists
<1>1. CASE DetailFill(r)
  <2> DEFINE q == [req[r] EXCEPT !.at = "serve", !.late = FALSE]
  <2>1. /\ req[r].op = "view" /\ req[r].at = "fill" /\ req[r].vis = "PUBLIC"
        /\ detail' = [vis |-> req[r].vis, content |-> req[r].content, torn |-> req[r].torn]
        /\ detailStale' = req[r].late /\ Become(r, q)
        /\ UNCHANGED <<tpl, listed, listStale, published>>
    BY <1>1, ReqType DEF DetailFill, At, GoodReq
  <2>2. /\ q.op = "view" /\ q.at = "serve" /\ q.content = req[r].content /\ q.torn = req[r].torn
    BY <2>1, ReqType DEF Request
  <2> HIDE DEF q
  <2>3. /\ \A p \in Reqs \ {r} : req'[p] = req[p]
        /\ req'[r] = q
    BY <2>1 DEF TypeInv, Become
  <2>4. ~req[r].torn => req[r].content \in published
    BY <2>1 DEF CacheInv, KnowInv
  <2>5. \A p \in Reqs : Knows(req'[p], tpl') /\ Shows(req'[p], published')
    BY <2>1, <2>2, <2>3, <2>4 DEF CacheInv, KnowInv
  <2>6. KnowInv'
    BY <2>1, <2>4, <2>5 DEF CacheInv, KnowInv
  <2>7. ~req[r].late => tpl.at = "PUBLIC" /\ req[r].content = tpl.content
    BY <2>1 DEF CacheInv, KnowInv
  <2>8. DetailTruthful'
    BY <2>1, <2>7 DEF DetailTruthful
  <2>9. \A k \in Lists : Invalidating(k) => Invalidating(k)'
    BY <2>1, <2>3 DEF Invalidating
  <2>10. ListsTruthful'
    BY <2>1, <2>9 DEF CacheInv, CachesTruthful, ListsTruthful
  <2> QED
    BY <2>6, <2>8, <2>10 DEF CacheInv, CachesTruthful
<1>2. CASE ListFill(r)
  <2>1. /\ req[r].op = "list" /\ req[r].at = "fill" /\ req[r].keys \subseteq Lists
        /\ UNCHANGED <<tpl, detail, detailStale, published>>
    BY <1>2, ReqType DEF ListFill, At, GoodReq
  <2>2. /\ \A p \in Reqs \ {r} : req'[p] = req[p]
        /\ req'[r] = Idle
    BY <1>2 DEF ListFill, Finish, TypeInv, Become
  <2>3. \A p \in Reqs : Knows(req'[p], tpl') /\ Shows(req'[p], published')
    BY <2>1, <2>2 DEF CacheInv, KnowInv, Idle
  <2>4. KnowInv'
    BY <2>1, <2>3 DEF CacheInv, KnowInv
  <2>5. \A k \in Keys : Invalidating(k) => Invalidating(k)'
    BY <2>1, <2>2 DEF Invalidating
  <2>6. "detail" \in Keys /\ Lists \subseteq Keys
    BY DEF Keys
  <2>7. DetailTruthful'
    BY <2>1, <2>5, <2>6 DEF CacheInv, CachesTruthful, DetailTruthful
  <2>8. ASSUME NEW k \in Lists \ listStale', listed'[k] # None, ~Invalidating(k)'
        PROVE  listed'[k] = (tpl'.at = "PUBLIC")
    <3>1. CASE k \in req[r].keys
      <4>1. ~req[r].late
        BY <1>2, <2>8, <3>1 DEF ListFill
      <4>2. (req[r].vis = "PUBLIC") = (tpl.at = "PUBLIC")
        BY <2>1, <4>1 DEF CacheInv, KnowInv
      <4>3. listed'[k] = (req[r].vis = "PUBLIC")
        BY <1>2, <3>1 DEF ListFill
      <4> QED
        BY <2>1, <4>2, <4>3
    <3>2. CASE k \notin req[r].keys
      <4>1. k \in Lists \ listStale /\ listed'[k] = listed[k] /\ ~Invalidating(k)
        BY <1>2, <2>5, <2>6, <2>8, <3>2 DEF ListFill
      <4> QED
        BY <2>1, <2>8, <4>1 DEF CacheInv, CachesTruthful, ListsTruthful
    <3> QED
      BY <3>1, <3>2
  <2>9. ListsTruthful'
    BY <2>8 DEF ListsTruthful
  <2> QED
    BY <2>4, <2>7, <2>9 DEF CacheInv, CachesTruthful
<1> QED
  BY <1>1, <1>2

\* A deletion from Redis, or its failure: either way what r was to delete is
\* gone or marked.
LEMMA CacheClears ==
  ASSUME TypeInv, CacheInv, NEW r \in Reqs, Clear(r) \/ Abort(r)
  PROVE  CacheInv'
<1> USE DEF Knows, Shows
<1>0. "detail" \in Keys /\ Lists \subseteq Keys /\ "detail" \notin Lists
  BY DEF Keys, Lists
<1>1. CASE Clear(r) /\ ToClear(req[r].keys) = {}
  <2>1. req[r].keys = {}
    BY <1>1 DEF ToClear
  <2> QED
    BY <1>1, <2>1, KnowFinish DEF Clear
<1>2. CASE Clear(r) /\ ToClear(req[r].keys) # {}
  <2>1. PICK k \in ToClear(req[r].keys) :
              /\ IF k = "detail"
                 THEN detail' = NoDetail /\ detailStale' = FALSE /\ UNCHANGED <<listed, listStale>>
                 ELSE /\ listed' = [listed EXCEPT ![k] = None]
                      /\ listStale' = listStale \ {k}
                      /\ UNCHANGED <<detail, detailStale>>
              /\ Become(r, [req[r] EXCEPT !.keys = @ \ {k}])
              /\ UNCHANGED <<tpl, published>>
    BY <1>2 DEF Clear
  <2>2. /\ \A p \in Reqs \ {r} : req'[p] = req[p]
        /\ req'[r] = [req[r] EXCEPT !.keys = req[r].keys \ {k}]
    BY <2>1 DEF TypeInv, Become
  <2>3. /\ req'[r].op = req[r].op /\ req'[r].at = req[r].at /\ req'[r].late = req[r].late
        /\ req'[r].keys = req[r].keys \ {k} /\ req[r].at = "clear"
    BY <1>2, <2>2, ReqType DEF Clear, Request
  <2>4. \A p \in Reqs : Knows(req'[p], tpl') /\ Shows(req'[p], published')
    <3>1. Knows(req'[r], tpl) /\ Shows(req'[r], published)
      <4>1. Knows(req[r], tpl)
        BY DEF CacheInv, KnowInv
      <4> QED
        BY <2>3, <4>1
    <3>2. \A p \in Reqs \ {r} : Knows(req[p], tpl) /\ Shows(req[p], published)
      BY DEF CacheInv, KnowInv
    <3> HIDE DEF Knows, Shows
    <3>3. \A p \in Reqs : Knows(req'[p], tpl) /\ Shows(req'[p], published)
      BY <2>2, <3>1, <3>2
    <3> QED
      BY <2>1, <3>3
  <2>5. KnowInv'
    BY <2>1, <2>4 DEF CacheInv, KnowInv
  <2>6. \A j \in Keys \ {k} : Invalidating(j) => Invalidating(j)'
    BY <2>2, <2>3 DEF Invalidating
  <2>7. DetailTruthful'
    <3>1. CASE k = "detail"
      BY <2>1, <3>1 DEF DetailTruthful
    <3>2. CASE k # "detail"
      BY <1>0, <2>1, <2>6, <3>2 DEF CacheInv, CachesTruthful, DetailTruthful
    <3> QED
      BY <3>1, <3>2
  <2>8. ASSUME NEW j \in Lists \ listStale', listed'[j] # None, ~Invalidating(j)'
        PROVE  listed'[j] = (tpl'.at = "PUBLIC")
    <3>1. j # k
      BY <1>0, <2>1, <2>8 DEF TypeInv, TypeOK
    <3>2. j \in Lists \ listStale /\ listed'[j] = listed[j] /\ ~Invalidating(j)
      BY <1>0, <2>1, <2>6, <2>8, <3>1 DEF TypeInv, TypeOK
    <3> QED
      BY <2>1, <2>8, <3>2 DEF CacheInv, CachesTruthful, ListsTruthful
  <2> QED
    BY <2>5, <2>7, <2>8 DEF CacheInv, CachesTruthful, ListsTruthful
<1>3. CASE Abort(r)
  <2>1. /\ \A p \in Reqs \ {r} : req'[p] = req[p]
        /\ req'[r] = Idle /\ UNCHANGED <<tpl, detail, listed, published>>
    BY <1>3 DEF Abort, Finish, TypeInv, Become
  <2>2. \A p \in Reqs : Knows(req'[p], tpl') /\ Shows(req'[p], published')
    BY <2>1 DEF CacheInv, KnowInv, Idle
  <2>3. KnowInv'
    BY <2>1, <2>2 DEF CacheInv, KnowInv
  <2>4. \A k \in Keys : Invalidating(k) =>
           Invalidating(k)' \/ (req[r].at = "clear" /\ k \in req[r].keys)
    BY <2>1 DEF Invalidating
  <2>5. DetailTruthful'
    BY <1>0, <1>3, <2>1, <2>4 DEF Abort, CacheInv, CachesTruthful, DetailTruthful
  <2>6. ASSUME NEW k \in Lists \ listStale', listed'[k] # None, ~Invalidating(k)'
        PROVE  listed'[k] = (tpl'.at = "PUBLIC")
    <3>1. k \in Lists \ listStale /\ ~(req[r].at = "clear" /\ k \in req[r].keys)
      BY <1>3, <2>1, <2>6 DEF Abort
    <3>2. ~Invalidating(k)
      BY <1>0, <2>4, <2>6, <3>1
    <3> QED
      BY <2>1, <2>6, <3>1, <3>2 DEF CacheInv, CachesTruthful, ListsTruthful
  <2> QED
    BY <2>3, <2>5, <2>6 DEF CacheInv, CachesTruthful, ListsTruthful
<1> QED
  BY <1>1, <1>2, <1>3

LEMMA CacheStep == TypeInv /\ CacheInv /\ [Next]_vars => CacheInv'
<1> SUFFICES ASSUME TypeInv, CacheInv, [Next]_vars PROVE CacheInv'
  OBVIOUS
<1>1. ASSUME NEW r \in Reqs, Step(r) PROVE CacheInv'
  BY <1>1, CacheReaders, CacheWrites, CacheFills, CacheClears DEF Step
<1>2. CASE MakeTemplate
  <2>1. tpl.at = "none" /\ tpl'.at = "PRIVATE" /\ UNCHANGED <<caches, req, published>>
    BY <1>2 DEF MakeTemplate, TypeInv, TypeOK, Template
  <2>2. ASSUME NEW r \in Reqs PROVE Knows(req'[r], tpl') /\ Shows(req'[r], published')
    <3>1. req[r].at = "content" => req[r].vis \in {"PRIVATE", "PUBLIC"}
      BY ReqType DEF GoodReq
    <3> QED
      BY <2>1, <3>1 DEF CacheInv, KnowInv, Knows, Shows
  <2>3. KnowInv'
    BY <2>1, <2>2 DEF caches, CacheInv, KnowInv
  <2>4. DetailTruthful' /\ ListsTruthful'
    BY <2>1 DEF caches, CacheInv, CachesTruthful, DetailTruthful, ListsTruthful, Invalidating
  <2> QED
    BY <2>3, <2>4 DEF CacheInv, CachesTruthful
<1>3. CASE SeedDelete
  <2>1. Idle.at = "idle" /\ Idle.op = "none"
    BY DEF Idle
  <2> QED
    BY <1>3, <2>1, UnannouncedStep DEF SeedDelete
<1>4. CASE DetailExpires
  <2>1. KnowInv'
    BY <1>4 DEF DetailExpires, CacheInv, KnowInv, Knows, Shows
  <2>2. DetailTruthful' /\ ListsTruthful'
    BY <1>4 DEF DetailExpires, CacheInv, CachesTruthful, DetailTruthful, ListsTruthful, Invalidating
  <2> QED
    BY <2>1, <2>2 DEF CacheInv, CachesTruthful
<1>5. ASSUME NEW k \in Lists, ListExpires(k) PROVE CacheInv'
  <2>1. KnowInv'
    BY <1>5 DEF ListExpires, CacheInv, KnowInv, Knows, Shows
  <2>2. DetailTruthful'
    BY <1>5 DEF ListExpires, CacheInv, CachesTruthful, DetailTruthful, Invalidating
  <2>3. ListsTruthful'
    BY <1>5 DEF ListExpires, CacheInv, CachesTruthful, ListsTruthful, Invalidating, TypeInv, TypeOK
  <2> QED
    BY <2>1, <2>2, <2>3 DEF CacheInv, CachesTruthful
<1>6. CASE UNCHANGED vars
  BY <1>6 DEF vars, caches, CacheInv, KnowInv, Knows, Shows, CachesTruthful, DetailTruthful,
     ListsTruthful, Invalidating
<1> QED
  BY <1>1, <1>2, <1>3, <1>4, <1>5, <1>6 DEF Next

LEMMA CacheAlways == Spec => []CacheInv
BY CacheInit, CacheStep, TypesAlways, PTL DEF Spec

\* Where no deletion is under way or failed and no write has overtaken the fill,
\* the caches say what the database says.
THEOREM CachesSafe == Spec => []CachesTruthful
<1>1. CacheInv => CachesTruthful
  BY DEF CacheInv
<1> QED
  BY <1>1, CacheAlways, PTL

\* Guests are shown, and clone, what was public, unless a write came between the
\* two reads.
THEOREM GuestsSafe == Spec => []GuestsGetPublished
<1>1. CacheInv => GuestsGetPublished
  BY DEF CacheInv, KnowInv, Shows, GuestsGetPublished, Readable
<1> QED
  BY <1>1, CacheAlways, PTL
=============================================================================
