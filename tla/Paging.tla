------------------------------- MODULE Paging -------------------------------
(***************************************************************************)
(* Page, PageInput and PageResult, and a client that asks for one page     *)
(* after the other until it has the last of totalPages.                    *)
(***************************************************************************)
EXTENDS Calls, Sequences

CONSTANTS
    DefaultPage, DefaultSize,
    MaxSize     \* helloscala.page.max-size

ASSUME PagingAssumption ==
    /\ DefaultPage \in Nat \ {0} /\ DefaultSize \in Nat \ {0}
    /\ MaxSize \in Nat \ {0}

SafeSize(size) == IF size < MaxSize THEN size ELSE MaxSize

\* Mutant: page numbers start with zero.
OffsetFromZero(page, size) == ToInt(page * SafeSize(size))

Offset(page, size) == IF page < 2 THEN 0 ELSE ToInt((page - 1) * SafeSize(size))

TotalPages(total, size) == ToInt((total + size) \div size)

\* The page of PageInput.default, and of PageInput(params): the size is given
\* where the page is meant.
FirstPage(params) == IF params THEN DefaultSize ELSE DefaultPage

\* A client that lists `total' rows by pages of a size.
ListPages(total, size, params) ==
    CallOf("pages", [total |-> total, size |-> size, params |-> params],
           [page |-> FirstPage(params), rows |-> <<>>])

\* LIMIT and OFFSET.
Rows(total, offset, limit) ==
    LET last == IF offset + limit < total THEN offset + limit ELSE total
    IN [i \in 1 .. (IF last < offset THEN 0 ELSE last - offset) |-> offset + i]

PageNext ==
    /\ Running("pages")
    /\ LET total == call.args.total
           size == call.args.size
           page == call.locals.page
       IN \/ size = 0 /\ Throw("Arithmetic")
          \/ /\ size > 0 /\ page > TotalPages(total, size)
             /\ Return(call.locals.rows)
          \/ /\ size > 0 /\ page <= TotalPages(total, size)
             /\ Continue([page |-> page + 1,
                          rows |-> call.locals.rows
                                     \o Rows(total, Offset(page, size), SafeSize(size))])

\* No sum or product is more than an Int.
PagesFit(total, size, params) ==
    total + size <= IntMax /\ (FirstPage(params) - 1) * SafeSize(size) <= IntMax

\* When nothing overflows: a client that starts with PageInput.default sees the rows in their order,
\* each once, and all of them if it asks for no more than the largest size a
\* page has: totalPages is never too small then, although it counts an empty
\* page when the rows fill the last one.  With a larger size it is too small.
\* A client that starts with PageInput(params) misses the pages before.
\* (Page.offset, PageResult.totalPages, PageInput.apply)
PagesListAll ==
    Returned("pages") /\ PagesFit(call.args.total, call.args.size, call.args.params) =>
       LET total == call.args.total
           size == call.args.size
           skipped == Offset(FirstPage(call.args.params), size)
           seen == IF size <= MaxSize THEN total ELSE TotalPages(total, size) * MaxSize
           last == IF seen < total THEN seen ELSE total
       IN call.result = [i \in 1 .. (IF last < skipped THEN 0 ELSE last - skipped) |-> skipped + i]

==============================================================================
