------------------------------- MODULE BulkExport -------------------------------
(***************************************************************************)
(* The bulk API: a consumer walks a merchant's payments, customers,        *)
(* refunds or events page by page, in the order of (updated_at, id), while *)
(* the write side goes on.  A row is stamped before its transaction        *)
(* commits, and the replica shows it later still: "appear" is both.        *)
(***************************************************************************)
EXTENDS RateLimiter

CONSTANTS
    RowIds,         \* keys of the exported table, in the order of the index
    PageSize        \* the limit parameter

ASSUME RowIdsAssumption == RowIds \subseteq Nat /\ PageSize \in Nat \ {0}
\* No cursor is the absent cursor.
ASSUME NoCursorAssumption == None \notin Nat \X RowIds

VARIABLES
    resource,       \* which of the four tables this behaviour writes and exports
    table,          \* on the replica: [at, ver], None before its INSERT
    pending,        \* the stamp of the change to the row that is under way, or None
    walk            \* the client: cursor, versions it got, versions it was passed by

bulkVars == <<resource, table, pending, walk>>

Resources == {"payments", "customers", "refunds", "events"}
NewWalk == [cursor |-> None, got |-> {}, behind |-> {}, over |-> FALSE]
Gone == [at |-> 0, ver |-> 0]       \* a deleted row: its id is not used again
Shown(x) == table[x] \notin {None, Gone}
Key(x) == <<table[x].at, x>>

BulkInit ==
    /\ resource \in Resources
    /\ table = [x \in RowIds |-> None]
    /\ pending = [x \in RowIds |-> None]
    /\ walk = [c \in Consumers |-> NewWalk]

-----------------------------------------------------------------------------
(* The write side, as the replica shows it                                 *)

\* The row comparison (updated_at, id) > (t, id).
After(k, cursor) == k[1] > cursor[1] \/ (k[1] = cursor[1] /\ k[2] > cursor[2])

Passed(w, k) == w.over \/ (w.cursor # None /\ ~After(k, w.cursor))

\* A version appears; a walk that is past its place will not see it.
Appear(x, at, ver) ==
    /\ table' = [table EXCEPT ![x] = [at |-> at, ver |-> ver]]
    /\ walk' = [c \in Consumers |->
                  IF Passed(walk[c], <<at, x>>)
                  THEN [walk[c] EXCEPT !.behind = @ \cup {<<x, ver>>}] ELSE walk[c]]

\* Events are only inserted; other rows are stamped again by their updates.
StampRow(x) ==
    /\ pending[x] = None /\ table[x] # Gone /\ Spend("write")
    /\ resource = "events" => ~Shown(x)
    /\ pending' = [pending EXCEPT ![x] = now]
    /\ UNCHANGED <<resource, table, walk>>

AppearRow(x) ==
    /\ pending[x] # None
    /\ Appear(x, pending[x], IF Shown(x) THEN table[x].ver + 1 ELSE 1)
    /\ pending' = [pending EXCEPT ![x] = None]
    /\ NoCost /\ UNCHANGED resource

\* An UPDATE that leaves the column of the cursor alone.
ChangeUnstamped(x) ==
    /\ Shown(x) /\ pending[x] = None /\ Spend("write")
    /\ Appear(x, table[x].at, table[x].ver + 1)
    /\ UNCHANGED <<resource, pending>>

\* create_refund raises amount_refunded and leaves updated_at alone; the outbox sets
\* the status of an event, which the export shows, and created_at stays.
RefundPayment(x) == resource = "payments" /\ ChangeUnstamped(x)
MarkPublished(x) == resource = "events" /\ Shown(x) /\ table[x].ver = 1 /\ ChangeUnstamped(x)

DeleteCustomerRow(x) ==
    /\ resource = "customers" /\ Shown(x) /\ pending[x] = None /\ Spend("write")
    /\ table' = [table EXCEPT ![x] = Gone]
    /\ UNCHANGED <<resource, pending, walk>>

-----------------------------------------------------------------------------
(* The export                                                              *)

Found(w) == {x \in RowIds : Shown(x) /\ (w.cursor # None => After(Key(x), w.cursor))}

\* ORDER BY updated_at, id LIMIT n, and the last of such rows.
FirstRows(rows, n) == {x \in rows : Cardinality({y \in rows : After(Key(x), Key(y))}) < n}
LastRow(rows) == CHOOSE x \in rows : \A y \in rows \ {x} : After(Key(x), Key(y))

\* Mutant: the cursor is taken from the row fetched to learn has_more.
BuildBulkResponse_ExtraRow(found) ==
    LET rows == FirstRows(found, PageSize + 1) IN
    [data |-> FirstRows(rows, PageSize),
     next_cursor |-> IF Cardinality(rows) > PageSize THEN Key(LastRow(rows)) ELSE None]

\* LIMIT PageSize + 1: the extra row only tells that there is more.
BuildBulkResponse(found) ==
    LET rows == FirstRows(found, PageSize + 1)
        data == FirstRows(rows, PageSize)
    IN  [data |-> data,
         next_cursor |-> IF Cardinality(rows) > PageSize THEN Key(LastRow(data)) ELSE None]

\* One query; the client reads the page and keeps its cursor.
ExportPage(r) ==
    LET c == req[r].c
        page == BuildBulkResponse(Found(walk[c]))
    IN
    /\ req[r].step = "serve" /\ req[r].op = "page" /\ ~walk[c].over
    /\ walk' = [walk EXCEPT ![c] = [walk[c] EXCEPT
                  !.cursor = page.next_cursor,
                  !.got = @ \cup {<<x, table[x].ver>> : x \in page.data},
                  !.over = page.next_cursor = None]]
    /\ Finish(r)
    /\ NoCost
    /\ UNCHANGED <<now, consumers, access, cache, token, offSince, missed, resource, table, pending>>

\* resolve_merchant_schema refuses a merchant that is not active, unless it still has
\* the schema in its cache: which of the two it is, is left open.
RefuseExport(r) ==
    /\ req[r].step = "serve" /\ req[r].op = "page"
    /\ Finish(r)
    /\ NoCost
    /\ UNCHANGED <<now, consumers, access, cache, token, offSince, missed>> /\ UNCHANGED bulkVars

GetPayments(r) == resource = "payments" /\ ExportPage(r)
GetCustomers(r) == resource = "customers" /\ ExportPage(r)
GetRefunds(r) == resource = "refunds" /\ ExportPage(r)
GetEvents(r) == resource = "events" /\ ExportPage(r)

\* The list of assigned merchants, which has no pages.
GetAssignedMerchants(r) ==
    /\ req[r].step = "serve" /\ req[r].op = "list"
    /\ Finish(r)
    /\ NoCost
    /\ UNCHANGED <<now, consumers, access, cache, token, offSince, missed>> /\ UNCHANGED bulkVars

WritesNext ==
    \E x \in RowIds :
        StampRow(x) \/ AppearRow(x) \/ RefundPayment(x) \/ MarkPublished(x) \/ DeleteCustomerRow(x)

ExportNext ==
    \E r \in Requests :
        \/ GetPayments(r) \/ GetCustomers(r) \/ GetRefunds(r) \/ GetEvents(r)
        \/ RefuseExport(r) \/ GetAssignedMerchants(r)
=============================================================================
