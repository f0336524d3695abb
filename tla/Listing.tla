-------------------------------- MODULE Listing --------------------------------
(***************************************************************************)
(* GET /api/jobs and GET /api/jobs/{job_id}/operations: one page of a      *)
(* collection and the number of its documents, read by two calls while     *)
(* other handlers insert and delete.  The user walks through the pages     *)
(* with the numbers the answers give.                                      *)
(*                                                                         *)
(* No call sorts, so documents come in the order of their record ids, of   *)
(* the collection or of the index on job_id: 1, 2, ... here.  A call       *)
(* meets them one by one, and sees the writes that happen meanwhile in     *)
(* the part it has not reached.  The program counts with u32 and computes  *)
(* what to skip in u64.                                                    *)
(***************************************************************************)
EXTENDS Integers, FiniteSets, FiniteSetsExt

CONSTANTS
  MaxDocuments,  \* bound: record ids, each used once
  Jobs,
  JobOf,         \* the job_id field of the document with that record id
  NoFilter,      \* doc! {}: what get_jobs asks for
  Absent,        \* a parameter the query string leaves out
  MaxNumber,     \* u32::MAX, the largest page number and size
  DefaultSize,   \* PageParams::DEFAULT_SIZE: 30 in the program
  MaxSize        \* PageParams::MAX_SIZE: 100 in the program

Documents == 1 .. MaxDocuments
Numbers == 0 .. MaxNumber

ASSUME ListingAssumption ==
  /\ MaxDocuments \in Nat
  /\ JobOf \in [Documents -> Jobs]
  /\ NoFilter \notin Jobs
  /\ MaxNumber \in Nat /\ MaxSize \in Numbers \ {0} /\ DefaultSize \in 1 .. MaxSize
  /\ Absent \notin Numbers

VARIABLES
  docs,     \* the documents of the collection
  fresh,    \* the record ids not used so far
  at,       \* where the handler of the user's request stands
  ask,      \* the filter and the parameters of the request
  toSkip,   \* documents find has yet to skip
  cursor,   \* the last document the running call has met
  items,    \* the documents of the page
  total,    \* what count_documents has counted
  quiet,    \* history: nothing was written since the request came
  lost,     \* history: documents deleted since the request came
  shown,    \* history: what the earlier pages of the walk showed
  start,    \* history: what was there for the walk when it began
  late,     \* history: documents that came up since then behind a later id
  gone      \* history: documents deleted since then

collection == <<docs, fresh>>
request == <<at, ask, toSkip, cursor, items, total>>
walk == <<shown, start, late, gone>>
vars == <<collection, request, quiet, lost, walk>>

------------------------------------------------------------------------------
(* PageParams and the arguments of the calls.                              *)

DefaultPage == 1
LargerOf(a, b) == IF a >= b THEN a ELSE b
SmallerOf(a, b) == IF a <= b THEN a ELSE b

(* Faulty variant: a page of 0 passes.                                     *)
GivenPage(given) == IF given = Absent THEN DefaultPage ELSE given

Page(given) == LargerOf(IF given = Absent THEN DefaultPage ELSE given, 1)

Size(given) ==
  SmallerOf(LargerOf(IF given = Absent THEN DefaultSize ELSE given, 1), MaxSize)

(* Faulty variants: the product in u32; the size forgotten; pages from 0.  *)
NarrowSkip(page, size) == ((page - 1) * size) % (MaxNumber + 1)
SkipPages(page, size) == page - 1
SkipThrough(page, size) == page * size

(* page - 1 is a u32, and the product does not wrap in u64.                *)
Skip(page, size) == ((page - 1) % (MaxNumber + 1)) * size

(* MongoDB takes a limit of 0 for none.                                    *)
Room(limit) == limit = 0 \/ Cardinality(items) < limit

Matches(d, filter) == filter = NoFilter \/ JobOf[d] = filter

(* What a call that stands at the cursor has yet to meet.                  *)
Ahead == {d \in docs : d > cursor /\ Matches(d, ask.filter)}

------------------------------------------------------------------------------
(* The handler.                                                            *)

FindSkips ==
  /\ at = "find"
  /\ toSkip > 0
  /\ Ahead # {}
  /\ toSkip' = toSkip - 1
  /\ cursor' = Min(Ahead)
  /\ UNCHANGED <<collection, at, ask, items, total, quiet, lost, walk>>

FindTakes ==
  /\ at = "find"
  /\ toSkip = 0
  /\ Room(Size(ask.size))
  /\ Ahead # {}
  /\ items' = items \cup {Min(Ahead)}
  /\ cursor' = Min(Ahead)
  /\ UNCHANGED <<collection, at, ask, toSkip, total, quiet, lost, walk>>

FindEnds ==
  /\ at = "find"
  /\ Ahead = {} \/ (toSkip = 0 /\ ~Room(Size(ask.size)))
  /\ at' = "count"
  /\ cursor' = 0
  /\ UNCHANGED <<collection, ask, toSkip, items, total, quiet, lost, walk>>

(* Faulty variant: the count has the limit of the page.                    *)
CountPage ==
  /\ at = "count"
  /\ Ahead # {}
  /\ total' = SmallerOf(total + 1, Size(ask.size))
  /\ cursor' = Min(Ahead)
  /\ UNCHANGED <<collection, at, ask, toSkip, items, quiet, lost, walk>>

CountDocument ==
  /\ at = "count"
  /\ Ahead # {}
  /\ total' = total + 1
  /\ cursor' = Min(Ahead)
  /\ UNCHANGED <<collection, at, ask, toSkip, items, quiet, lost, walk>>

Answer ==
  /\ at = "count"
  /\ Ahead = {}
  /\ at' = "answered"
  /\ UNCHANGED <<collection, ask, toSkip, cursor, items, total, quiet, lost, walk>>

(* A call returns an error, and the user gets it instead of a page.        *)
CallFails ==
  /\ at \in {"find", "count"}
  /\ at' = "failed"
  /\ UNCHANGED <<collection, ask, toSkip, cursor, items, total, quiet, lost, walk>>

------------------------------------------------------------------------------
(* The user.                                                               *)

Request(filter, page, size) ==
  /\ at' = "find"
  /\ ask' = [filter |-> filter, page |-> page, size |-> size]
  /\ toSkip' = Skip(Page(page), Size(size))
  /\ cursor' = 0
  /\ items' = {}
  /\ total' = 0
  /\ quiet' = TRUE
  /\ lost' = 0
  /\ UNCHANGED collection

(* What a page should be, from its definition: the wanted-size documents   *)
(* behind those of the pages before it.                                    *)
WantedPage(given) == IF given \in {Absent, 0} THEN 1 ELSE given
WantedSize(given) ==
  CASE given = Absent -> DefaultSize
    [] given = 0 -> 1
    [] given \in 1 .. MaxSize -> given
    [] OTHER -> MaxSize
Collected(filter) == {d \in docs : filter \in {NoFilter, JobOf[d]}}
Behind(n, S) == {d \in S : Cardinality({e \in S : e <= d}) > n}
Before(page, size) == (WantedPage(page) - 1) * WantedSize(size)

(* The handler keeps nothing of a request, so one walk is enough: another  *)
(* one is another behaviour, from the documents then there.                *)
StartWalk(filter, page, size) ==
  /\ at = "idle"
  /\ Request(filter, page, size)
  /\ shown' = {}
  /\ start' = Behind(Before(page, size), Collected(filter))
  /\ late' = 0
  /\ gone' = 0

(* A full page: there may be another one behind it.                        *)
NextPage ==
  /\ at = "answered"
  /\ Cardinality(items) = Size(ask.size)
  /\ Page(ask.page) + 1 \in Numbers
  /\ Request(ask.filter, Page(ask.page) + 1, Size(ask.size))
  /\ shown' = shown \cup items
  /\ UNCHANGED <<start, late, gone>>

Retry ==
  /\ at = "failed"
  /\ Request(ask.filter, ask.page, ask.size)
  /\ UNCHANGED walk

------------------------------------------------------------------------------
(* The other handlers.                                                     *)

(* insert_one and insert_many.  A record id is given before the document   *)
(* can be seen, so a document may come up after one with a later id.       *)
Insert(d) ==
  /\ d \in fresh
  /\ docs' = docs \cup {d}
  /\ fresh' = fresh \ {d}
  /\ quiet' = (quiet /\ ~Matches(d, ask.filter))
  /\ late' = IF Matches(d, ask.filter) /\ \E e \in Documents \ fresh :
                   e > d /\ Matches(e, ask.filter)
               THEN late + 1 ELSE late
  /\ UNCHANGED <<request, lost, shown, start, gone>>

(* delete_one and delete_many.                                             *)
Delete(d) ==
  /\ d \in docs
  /\ docs' = docs \ {d}
  /\ quiet' = (quiet /\ ~Matches(d, ask.filter))
  /\ lost' = IF Matches(d, ask.filter) THEN lost + 1 ELSE lost
  /\ gone' = IF Matches(d, ask.filter) THEN gone + 1 ELSE gone
  /\ UNCHANGED <<fresh, request, shown, start, late>>

------------------------------------------------------------------------------
Params == {Absent} \cup Numbers
Filters == {NoFilter} \cup Jobs

Init ==
  /\ docs \in SUBSET Documents
  /\ fresh = Documents \ docs
  /\ at = "idle"
  /\ ask = [filter |-> NoFilter, page |-> Absent, size |-> Absent]
  /\ toSkip = 0 /\ cursor = 0 /\ items = {} /\ total = 0
  /\ quiet = TRUE /\ lost = 0
  /\ shown = {} /\ start = {} /\ late = 0 /\ gone = 0

Handler ==
  FindSkips \/ FindTakes \/ FindEnds \/ CountDocument \/ Answer \/ CallFails

User ==
  \/ \E filter \in Filters, page, size \in Params : StartWalk(filter, page, size)
  \/ NextPage
  \/ Retry

Others == \E d \in Documents : Insert(d) \/ Delete(d)

Next == Handler \/ User \/ Others

Spec == Init /\ [][Next]_vars

------------------------------------------------------------------------------
(* Types; an answer carries a page of at least 1 and a size within limits. *)
TypeOK ==
  /\ docs \subseteq Documents /\ fresh \subseteq Documents \ docs
  /\ at \in {"idle", "find", "count", "answered", "failed"}
  /\ ask \in [filter : Filters, page : Params, size : Params]
  /\ Page(ask.page) \in Numbers \ {0} /\ Size(ask.size) \in 1 .. MaxSize
  /\ toSkip \in Nat /\ cursor \in {0} \cup Documents
  /\ items \subseteq Documents /\ Cardinality(items) <= Size(ask.size)
  /\ total \in 0 .. MaxDocuments
  /\ quiet \in BOOLEAN /\ lost \in 0 .. gone
  /\ shown \subseteq Documents /\ start \subseteq Documents
  /\ late \in 0 .. MaxDocuments /\ gone \in 0 .. MaxDocuments

(* The page the user gets is the one asked for, of the size asked for, and *)
(* the total that of the filter, whatever the numbers in the query string: *)
(* 0, absent, too large, or a page far behind the end (PageParams, skip    *)
(* and limit).  Only when nothing was written meanwhile can that be said.  *)
PageExact ==
  at = "answered" /\ quiet =>
    LET all == Collected(ask.filter)
        before == Before(ask.page, ask.size)
    IN  /\ items = Behind(before, all)
                     \ Behind(before + WantedSize(ask.size), all)
        /\ total = Cardinality(all)

(* The total, read after the items, falls short of what the pages up to    *)
(* this one hold by no more than was deleted while the request was served. *)
TotalCovers ==
  at = "answered" /\ items # {} =>
    Before(ask.page, ask.size) + Cardinality(items) <= total + lost

(* Walking on, a user sees a document again only if others came up late,   *)
(* before ones already there, and no more than came late: documents that   *)
(* come at the end, and deletes, repeat nothing.                           *)
RepeatsNeedInserts ==
  at = "answered" => Cardinality(items \cap shown) <= late

(* When the walk comes to a page that is not full, it has shown every      *)
(* document that was there from beginning to end, but for as many as were  *)
(* deleted: each delete moves the later ones by one place, over the edge   *)
(* of a page the user already has.                                         *)
MissesNeedDeletes ==
  at = "answered" /\ Cardinality(items) < Size(ask.size) =>
    Cardinality((start \cap docs) \ (shown \cup items)) <= gone
===============================================================================
