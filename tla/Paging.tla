------------------------------- MODULE Paging -------------------------------
(***************************************************************************)
(* The seven paged lists: a client asks for a page and follows the nextUrl *)
(* of each answer, while other clients add rows.  A page is read by one    *)
(* query and counted by another.  No code deletes a row of the five lists  *)
(* that answer, so a table only grows.  Assumptions: no two rows share a   *)
(* place in their list's order, as names and addresses do not and the      *)
(* moments of createdAt hardly ever do; and nothing renames a user, a role *)
(* or a privilege during the walk, as the save of a body with its id would.*)
(***************************************************************************)
EXTENDS Integers, FiniteSets

CONSTANTS
    Keys,           \* places of a row in its list's order
    Dates,          \* places a client may give as from and to
    Searches,       \* sets of rows that a search or a filter may match
    Pages, PerPages \* the page and the page size a client may ask for

ASSUME PagingConstants ==
    /\ Keys \subseteq Nat /\ IsFiniteSet(Keys)
    /\ Dates \subseteq Nat /\ Searches \subseteq SUBSET Keys
    /\ Pages \subseteq Int /\ PerPages \subseteq Int

Lists == {"history", "logs", "users", "roles", "privileges", "fleets", "vehicles"}
Uncounted == -1

VARIABLES
    table,          \* rows of the list, by their place
    at,             \* where the client's walk stands
    list, filter, page, perPage,    \* what it asks
    found,          \* the rows the page's query returned
    queried,        \* it has returned
    total,          \* the count, when there is one
    next,           \* page of the nextUrl, 0 for null
    seen,           \* rows of the pages answered
    served,         \* how many they were, repeats counted
    before,         \* rows that matched when the walk began, on page 1
    arrived,        \* rows that came since
    late            \* rows that came after the present page's count and before its query

vars == <<table, at, list, filter, page, perPage, found, queried, total, next, seen, served,
          before, arrived, late>>
asked == <<list, filter, perPage>>

Init ==
    /\ table \in SUBSET Keys
    /\ at = "idle" /\ list = "history" /\ filter = {} /\ page = 1 /\ perPage = 1
    /\ found = {} /\ queried = FALSE /\ total = Uncounted /\ next = 0
    /\ seen = {} /\ served = 0 /\ before = {} /\ arrived = {} /\ late = {}

Matching == table \cap filter

-----------------------------------------------------------------------------
Ask(l, p, size, f) ==
    /\ at = "idle"
    /\ at' = "queries"
    /\ list' = l /\ filter' = f /\ page' = p /\ perPage' = size
    /\ before' = IF p = 1 THEN table \cap f ELSE {}
    /\ UNCHANGED <<table, found, queried, total, next, seen, served, arrived, late>>

\* One vehicle's readings, newest first, between the dates that are given.
GetHistory(p, size, from, to) == Ask("history", p, size, {k \in Keys : from <= k /\ k <= to})

\* Audit records, newest first, that match the expressions and the dates.
SearchLogs(p, size, f) == Ask("logs", p, size, f)

\* Users by email, roles and privileges by name, where the name contains the search.
GetAllUsers(p, size, f) == Ask("users", p, size, f)
GetAllRoles(p, size, f) == Ask("roles", p, size, f)
GetAllPrivileges(p, size, f) == Ask("privileges", p, size, f)

\* Their controllers declare req without @Req, so it is undefined.
GetAllFleets(p, size) == Ask("fleets", p, size, Keys)
GetAllVehicles(p, size, f) == Ask("vehicles", p, size, f)
WithoutRequest == {"fleets", "vehicles"}

\* The audit log is in MongoDB; searchLogs starts the two queries together, TypeORM counts
\* after it has found.
InMongo == {"logs"}
CountsInParallel == {"logs"}

-----------------------------------------------------------------------------
\* Mutant: the page number taken for a row number.
SkipPage(p, size) == p - 1

Skip(p, size) == (p - 1) * size

\* Mutant: the query without take or limit.
TakeAll(l, size) == Cardinality(Keys)

\* 0 is no limit to either database; a negative limit is its absolute value to MongoDB.
Take(l, size) ==
    IF size = 0 THEN Cardinality(Keys) ELSE IF l \in InMongo /\ size < 0 THEN -size ELSE size

\* A negative offset is an error in both databases, a negative limit in Postgres.
Fails(l, p, size) == Skip(p, size) < 0 \/ (size < 0 /\ l \notin InMongo)

\* Rows after the first Skip of them, as many as Take says.
PageOf(rows, l, p, size) ==
    {k \in rows : LET place == Cardinality({j \in rows : j >= k})
                  IN  Skip(p, size) < place /\ place <= Skip(p, size) + Take(l, size)}

\* TypeORM concludes the count from a page that has not the size asked for and is not
\* an empty one after others, and asks for it otherwise.
Concludes(rows) ==
    /\ list \notin CountsInParallel
    /\ Cardinality(rows) # perPage
    /\ rows # {} \/ Skip(page, perPage) = 0

Find ==
    /\ at = "queries" /\ ~queried
    /\ IF Fails(list, page, perPage)
         THEN at' = "refused" /\ UNCHANGED <<found, queried, total>>
         ELSE LET rows == PageOf(Matching, list, page, perPage) IN
              /\ found' = rows
              /\ queried' = TRUE
              /\ total' = IF Concludes(rows) THEN Skip(page, perPage) + Cardinality(rows)
                          ELSE total
              /\ UNCHANGED at
    /\ UNCHANGED <<table, asked, page, next, seen, served, before, arrived, late>>

Count ==
    /\ at = "queries" /\ total = Uncounted
    /\ queried \/ list \in CountsInParallel
    /\ total' = Cardinality(Matching)
    /\ UNCHANGED <<table, at, asked, page, found, queried, next, seen, served, before,
                   arrived, late>>

-----------------------------------------------------------------------------
TotalPages(n, size) == (n + size - 1) \div size

\* Mutants: the last page left out; one page too many.
NextPageShort(p, n, size) == IF p + 1 < TotalPages(n, size) THEN p + 1 ELSE 0
NextPageOpen(p, n, size) == IF p <= TotalPages(n, size) THEN p + 1 ELSE 0

NextPage(p, n, size) == IF p < TotalPages(n, size) THEN p + 1 ELSE 0

\* generatePagination: it refuses a page or size below 1, whatever was read, and reads
\* req.query; then the answer goes out with its nextUrl.
GeneratePagination ==
    /\ at = "queries" /\ queried /\ total # Uncounted
    /\ IF page < 1 \/ perPage < 1 \/ list \in WithoutRequest
         THEN at' = "refused" /\ UNCHANGED <<next, seen, served>>
         ELSE /\ at' = "answered"
              /\ next' = NextPage(page, total, perPage)
              /\ seen' = seen \cup found
              /\ served' = served + Cardinality(found)
    /\ UNCHANGED <<table, asked, page, found, queried, total, before, arrived, late>>

\* The client opens nextUrl, which repeats its query, with the next page.
Follow ==
    /\ at = "answered" /\ next # 0
    /\ at' = "queries"
    /\ page' = next
    /\ found' = {} /\ queried' = FALSE /\ total' = Uncounted /\ next' = 0 /\ late' = {}
    /\ UNCHANGED <<table, asked, seen, served, before, arrived>>

\* A reading, an audit record, a user, a role or a privilege is saved. A reading that
\* was stamped first may be committed last, so it comes at any place.
Insert(k) ==
    /\ at \in {"queries", "answered"}
    /\ k \notin table
    /\ table' = table \cup {k}
    /\ arrived' = arrived \cup {k}
    /\ late' = IF at = "queries" /\ total # Uncounted /\ ~queried THEN late \cup {k} ELSE late
    /\ UNCHANGED <<at, asked, page, found, queried, total, next, seen, served, before>>

Next ==
    \/ \E p \in Pages, size \in PerPages :
         \/ \E from, to \in Dates : GetHistory(p, size, from, to)
         \/ GetAllFleets(p, size)
         \/ \E f \in Searches :
              \/ SearchLogs(p, size, f) \/ GetAllUsers(p, size, f) \/ GetAllRoles(p, size, f)
              \/ GetAllPrivileges(p, size, f) \/ GetAllVehicles(p, size, f)
    \/ Find \/ Count \/ GeneratePagination \/ Follow
    \/ \E k \in Keys : Insert(k)

Spec == Init /\ [][Next]_vars

-----------------------------------------------------------------------------
TypeOK ==
    /\ table \subseteq Keys
    /\ at \in {"idle", "queries", "answered", "refused"}
    /\ list \in Lists /\ filter \subseteq Keys /\ page \in Int /\ perPage \in Int
    /\ found \subseteq table \cap filter /\ (perPage >= 1 => Cardinality(found) <= perPage)
    /\ queried \in BOOLEAN /\ total \in {Uncounted} \cup Nat /\ next \in Nat
    /\ seen \subseteq table \cap filter /\ served \in Nat
    /\ before \subseteq table /\ arrived \subseteq table /\ late \subseteq arrived

\* A client that follows nextUrl from page 1 to null sees every row that matched when
\* it began, whatever is added meanwhile, if no two rows share a place (rows of one
\* createdAt do). The one exception then is the audit log: a record added between the
\* count and the query of its last page may push one out of sight.
WalkIsComplete ==
    at = "answered" /\ next = 0 => Cardinality(before \ seen) <= Cardinality(late)

\* The pages of a walk repeat a row only because one arrived: there are at most as many
\* repeats as rows that came since the walk began, if no two rows share a place.
RepeatsAreArrivals ==
    served - Cardinality(seen) <= Cardinality(arrived)

\* A nextUrl never leads to an empty page: the count it was computed from is of
\* another moment than the page it leads to.
NextHasRows ==
    at = "answered" /\ page > 1 /\ found = {} => seen = {}
=============================================================================
