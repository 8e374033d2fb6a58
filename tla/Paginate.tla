------------------------------ MODULE Paginate ------------------------------
(***************************************************************************)
(* A walk over a paginated collection: the termination rules of            *)
(* Paginator::advance and the two loops that drive them, PageWalk::fetch   *)
(* (which follows Link: rel="next" and hands items out one by one) and     *)
(* walk of `gea api --paginate` (which counts pages and hands out all at   *)
(* the end).  Every header is optional and a proxy may strip it from any   *)
(* single response, the server clamps the page size without saying so, and *)
(* rows may be added while the walk is under way.                          *)
(*                                                                         *)
(* The hazard is a walk that stops early and exits 0: the answer is short  *)
(* and nothing says so.                                                    *)
(***************************************************************************)
EXTENDS Integers, Sequences, FiniteSets, Functions

CONSTANTS MaxRows,      \* bound on the collection
          MaxNulls,     \* bound on the rows the server fails to convert
          PageSizes,    \* page sizes the server may settle on
          Limits,       \* what --limit may say, None for no --limit
          StartPages,   \* what ?page the request may carry to begin with
          Honouring,    \* whether servers honour ?page: {TRUE}, or both
          MAX_PAGES,    \* the ceiling of rule (f)
          None

ASSUME PaginateAssumption ==
    /\ MaxRows \in Nat /\ MaxNulls \in Nat
    /\ PageSizes \subseteq Nat \ {0}
    /\ None \notin Nat \union {"LinkExhausted", "EmptyPage", "UserLimit", "TotalReached",
                            "ShortPageWithoutLink", "Runaway"}
    /\ Limits \subseteq Nat \union {None}
    /\ StartPages \subseteq Nat \ {0}
    /\ Honouring \subseteq BOOLEAN
    /\ MAX_PAGES \in Nat \ {0, 1}

VARIABLES driver,      \* "stream" (PageWalk) or "walk" (gea api --paginate)
          userLimit,   \* --limit
          start,       \* the page the first request asks for
          pageSize,    \* the size the server clamps every page to
          headers,     \* the headers that are not stripped from all responses
          honours,     \* whether the server honours ?page
          total,       \* rows there are now
          nulls,       \* rows the server answers null for
          page,        \* the page the next request asks for
          got,         \* rows kept so far, in order
          taken,       \* how many of them the consumer has been handed
          cumulative, firstPageSize, totalCount, pagesSeen,   \* Paginator
          status,      \* "running", "stopped" or "failed"
          reason,      \* why
          atStart      \* rows there were when the walk began

config == <<driver, userLimit, start, pageSize, headers, honours, nulls, atStart>>
paginator == <<cumulative, firstPageSize, totalCount, pagesSeen>>
vars == <<config, total, page, got, taken, paginator, status, reason>>

-----------------------------------------------------------------------------
(* The server.                                                             *)

Lesser(a, b) == IF a <= b THEN a ELSE b

(* The rows on page p.                                                     *)
RowsOn(p) ==
    LET first == IF honours THEN (p - 1) * pageSize ELSE 0
        size  == IF first >= total THEN 0 ELSE Lesser(pageSize, total - first)
    IN  [i \in 1..size |-> first + i]

HasNext(p) == honours => p * pageSize < total

(* The k-th smallest member of a set of integers.                          *)
Nth(S, k) == CHOOSE i \in S : Cardinality({j \in S : j <= i}) = k

(* What decode_items makes of a page: rows that are null are left out, and *)
(* the others stay in their order.                                         *)
decode_items(rows) ==
    LET kept == {i \in DOMAIN rows : rows[i] \notin nulls}
    IN  [k \in 1..Cardinality(kept) |-> rows[Nth(kept, k)]]

-----------------------------------------------------------------------------
(* The rules of Paginator::advance.  They look at the page that came (was  *)
(* there a Link header, did it hold a next, how many items were there), at *)
(* the counts this page has already been added to, and at the size of the  *)
(* first page as it was known before.                                      *)

Saturated(count) == userLimit # None /\ count >= userLimit

LinkExhausted(pg) == pg.link /\ ~pg.next
EmptyPage(pg) == pg.returned = 0
TotalReached == totalCount' # None /\ cumulative' >= totalCount'

ShortAgainstLimitAsked(pg) == ~pg.link /\ pg.returned < pageSize + 1
ShortPageWithoutLink(pg) ==
    ~pg.link /\ firstPageSize # None /\ pg.returned < firstPageSize

RunawayTooEarly == pagesSeen' + 1 >= MAX_PAGES
Runaway == pagesSeen' >= MAX_PAGES

(* What the page means for the walk, by the first rule that applies.       *)
advance(pg) ==
    IF LinkExhausted(pg) THEN "LinkExhausted"                      \* (a)
    ELSE IF EmptyPage(pg) THEN "EmptyPage"                         \* (b)
    ELSE IF Saturated(cumulative') THEN "UserLimit"                \* (e)
    ELSE IF TotalReached THEN "TotalReached"                       \* (d)
    ELSE IF ShortPageWithoutLink(pg) THEN "ShortPageWithoutLink"   \* (c)
    ELSE IF Runaway THEN "Runaway"                                 \* (f)
    ELSE "More"

keepAll(returned) == returned
keep(returned) ==
    IF userLimit = None THEN returned
    ELSE IF cumulative >= userLimit THEN 0
    ELSE Lesser(returned, userLimit - cumulative)

-----------------------------------------------------------------------------
Init ==
    /\ driver \in {"stream", "walk"}
    /\ userLimit \in Limits
    /\ start \in StartPages
    /\ pageSize \in PageSizes
    /\ honours \in Honouring
    /\ headers \in IF honours THEN SUBSET {"link", "total"} ELSE {{}}
    /\ atStart \in 0..MaxRows
    /\ total = atStart
    /\ nulls \in {N \in SUBSET (1..MaxRows) : Cardinality(N) <= MaxNulls}
    /\ page = start
    /\ got = <<>> /\ taken = 0
    /\ cumulative = 0 /\ firstPageSize = None /\ totalCount = None /\ pagesSeen = 0
    /\ status = "running" /\ reason = None

(* Somebody adds a row at the end of the collection.                       *)
Grow ==
    /\ status = "running"
    /\ total < MaxRows
    /\ total' = total + 1
    /\ UNCHANGED <<config, page, got, taken, paginator, status, reason>>

(* Paginator counts the page.                                              *)
Count(returned, sawTotal) ==
    /\ pagesSeen' = pagesSeen + 1
    /\ cumulative' = cumulative + returned
    /\ firstPageSize' = IF firstPageSize = None THEN returned ELSE firstPageSize
    /\ totalCount' = IF sawTotal THEN total ELSE totalCount

NextPageAgain(pg) ==
    IF driver = "stream" /\ pg.next THEN page + 1 ELSE pagesSeen'

(* Where the walk turns to next: PageWalk follows the server's link, walk  *)
(* of gea api asks for the page after the number of pages it has seen.     *)
NextPage(pg) ==
    IF driver = "stream" /\ pg.next THEN page + 1 ELSE pagesSeen' + 1

(* A page arrives.  The headers it carries are those the proxy has left.   *)
Receive(sawLink, sawTotal) ==
    LET rows == decode_items(RowsOn(page))
        pg == [link |-> sawLink, next |-> sawLink /\ HasNext(page),
               returned |-> Len(rows)]
        verdict == advance(pg)
    IN  /\ Count(pg.returned, sawTotal)
        /\ got' = got \o SubSeq(rows, 1, keep(pg.returned))
        /\ CASE verdict = "More" ->
                  /\ page' = NextPage(pg)
                  /\ UNCHANGED <<taken, status, reason>>
             [] verdict = "Runaway" ->
                  /\ status' = "failed" /\ reason' = verdict
                  /\ UNCHANGED <<page, taken>>
             [] OTHER ->
                  /\ status' = "stopped" /\ reason' = verdict
                  /\ taken' = IF driver = "walk" THEN Len(got') ELSE taken
                  /\ UNCHANGED page
        /\ UNCHANGED <<config, total>>

Response ==
    \E sawLink, sawTotal \in BOOLEAN :
        /\ sawLink => "link" \in headers
        /\ sawTotal => "total" \in headers
        /\ Receive(sawLink, sawTotal)

(* The request or the decoding of its answer fails, and so does the walk.  *)
Fails ==
    /\ status' = "failed" /\ reason' = "Error"
    /\ UNCHANGED <<config, total, page, got, taken, paginator>>

FetchStalled ==
    /\ driver = "stream" /\ status = "running" /\ taken = Len(got)
    /\ ~Saturated(cumulative)
    /\ Response \/ Fails

(* PageWalk::fetch, once the consumer has used up the buffer.  A --limit   *)
(* that is already satisfied (--limit 0) costs no request.                 *)
Fetch ==
    /\ driver = "stream" /\ status = "running" /\ taken = Len(got)
    /\ \/ Saturated(cumulative) /\ status' = "stopped" /\ reason' = "UserLimit"
          /\ UNCHANGED <<config, total, page, got, taken, paginator>>
       \/ ~Saturated(cumulative) /\ (Response \/ Fails)

(* The consumer is handed the next item of the buffer.                     *)
Hand ==
    /\ driver = "stream" /\ status # "failed" /\ taken < Len(got)
    /\ taken' = taken + 1
    /\ UNCHANGED <<config, total, page, got, paginator, status, reason>>

(* One turn of walk's loop.                                                *)
Walk ==
    /\ driver = "walk" /\ status = "running"
    /\ Response \/ Fails

Next == Grow \/ Fetch \/ Hand \/ Walk

Spec == Init /\ [][Next]_vars

(* Requests end, and the consumer keeps asking for items.                  *)
FairSpec == Spec /\ WF_vars(Fetch \/ Hand \/ Walk)

-----------------------------------------------------------------------------
TypeOK ==
    /\ driver \in {"stream", "walk"} /\ userLimit \in Limits /\ start \in StartPages
    /\ pageSize \in PageSizes /\ honours \in BOOLEAN
    /\ headers \subseteq {"link", "total"} /\ (~honours => headers = {})
    /\ nulls \subseteq 1..MaxRows
    /\ atStart \in 0..MaxRows /\ total \in atStart..MaxRows
    /\ page \in Nat \ {0}
    /\ got \in Seq(1..MaxRows)
    /\ taken \in 0..Len(got)
    /\ cumulative \in Nat
    /\ firstPageSize \in Nat \union {None}
    /\ totalCount \in Nat \union {None}
    /\ pagesSeen \in 0..MAX_PAGES
    /\ status \in {"running", "stopped", "failed"}

(* Of a server that converts every row, a walk that ends well without      *)
(* --limit has every row that was there when it began, whichever headers   *)
(* were stripped from whichever page and however small the server clamped  *)
(* the pages.                                                              *)
Complete ==
    status = "stopped" /\ userLimit = None /\ nulls = {}
        => 1..atStart \subseteq Range(got)

(* What decode_items says of a server that answers null for some rows:     *)
(* "the list is short by the rows the server could not produce".           *)
ShortByNullsOnly ==
    status = "stopped" /\ userLimit = None
        => (1..atStart) \ nulls \subseteq Range(got)

(* No row of a server that honours ?page is handed out twice, even when    *)
(* the Link header is lost halfway and the walk falls back to ?page=N.     *)
NoRowTwice == honours => IsInjective(got)

(* --limit N hands out the first N rows: never more, with none but null    *)
(* rows left out in between, and fewer of a server that converts every row *)
(* only if there are no more.                                              *)
LimitRespected ==
    userLimit # None =>
        /\ Len(got) <= userLimit
        /\ reason = "UserLimit" => Len(got) = userLimit
        /\ status = "stopped" /\ honours /\ Len(got) < userLimit /\ nulls = {}
              => 1..atStart \subseteq Range(got)
        /\ honours => \A i \in DOMAIN got :
              \A row \in (1..atStart) \ nulls : row < got[i] => row \in Range(got)

(* "Pagination did not terminate" is the server's fault: it is never said  *)
(* of a collection that honours ?page and ends before the last page the    *)
(* ceiling allows, nor of one that does not grow and fits below it.        *)
RunawayJustified ==
    reason = "Runaway" /\ honours =>
        /\ total > (MAX_PAGES - 1) * pageSize
        /\ total = atStart /\ nulls = {} => total >= MAX_PAGES * pageSize

(* A walk whose requests end does so too, of its own accord, even against  *)
(* a server that serves page 1 for ever and says nothing.                  *)
Terminates == <>(status # "running")

-----------------------------------------------------------------------------
(* The inductive invariant of a walk that starts at page 1.                *)

(* Rows are numbered in the order of the listing: those up to Seen are on  *)
(* pages that have been read.                                              *)
Seen == pagesSeen * pageSize
Unlimited == userLimit = None \/ Len(got) < userLimit

(* Both drivers turn to the page after the last one read.                  *)
InStep == status = "running" => page = pagesSeen + 1 /\ pagesSeen < MAX_PAGES /\ reason = None

(* What was counted was kept, up to --limit.                               *)
Counted ==
    /\ cumulative <= Seen
    /\ status = "running" \/ Unlimited => Len(got) = cumulative
    /\ userLimit # None => Len(got) <= userLimit
    /\ status = "running" /\ pagesSeen > 0 /\ userLimit # None => cumulative < userLimit
    /\ reason = "UserLimit" => userLimit # None /\ Len(got) = userLimit

(* What is remembered of earlier pages is out of date in one direction.    *)
Remembered ==
    /\ totalCount # None => atStart <= totalCount /\ honours
    /\ firstPageSize # None <=> pagesSeen > 0
    /\ firstPageSize # None => firstPageSize <= pageSize /\ firstPageSize <= total
    /\ firstPageSize # None /\ total = atStart /\ nulls = {}
          => firstPageSize = Lesser(pageSize, total)

(* The rows that were kept are those of the pages read, in order, and none *)
(* that was there from the beginning is left out in between.               *)
Ordered ==
    honours =>
        /\ \A i \in DOMAIN got : got[i] <= Seen
        /\ \A i, j \in DOMAIN got : i < j => got[i] < got[j]
        /\ Len(got) = cumulative =>
              \A row \in (1..atStart) \ nulls : row <= Seen => row \in Range(got)
        /\ \A i \in DOMAIN got :
              \A row \in (1..atStart) \ nulls : row < got[i] => row \in Range(got)

(* A walk that stops before --limit has read to the end of what there was. *)
Exhausted ==
    status = "stopped" /\ Unlimited /\ nulls = {} =>
        atStart <= Seen /\ (honours \/ atStart = 0)

IInv == TypeOK /\ InStep /\ Counted /\ Remembered /\ Ordered /\ Exhausted /\ RunawayJustified
=============================================================================
