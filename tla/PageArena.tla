----------------------------- MODULE PageArena -----------------------------
(***************************************************************************)
(* The packet arena: support::GenericArena (not under src/, modelled from  *)
(* the spec, Sec. 3 "Arena Page" and 4.1) over detail::PageAllocator of    *)
(* minrpc_server.h.  An arena is a record value held by the server:        *)
(*   live  - FALSE once FreeAll released every page;                      *)
(*   pages - the sizes of the pages held, in order of acquisition;        *)
(*   cur   - index of the page allocations are carved from (0: none);     *)
(*   off   - the allocation offset inside that page.                      *)
(***************************************************************************)
EXTENDS Integers, Sequences

kPageSize == 2 * 1024          \* PageAllocator::kPageSize = 2 << 10
HeaderBytes == 24              \* sizeof(ArenaPageHeader)

\* Mutant: the page count rounded down.
PageBytesFloor(min_size) == (min_size \div kPageSize) * kPageSize

\* PageAllocator::allocate(min_size): the whole pages covering min_size.
PageBytes(min_size) == ((min_size + kPageSize - 1) \div kPageSize) * kPageSize

EmptyArena == [live |-> TRUE, pages |-> <<>>, cur |-> 0, off |-> 0]

\* RecycleAll: every page is kept; allocation restarts in the first page.
RecycleAll(a) == [a EXCEPT !.cur = IF a.pages = <<>> THEN 0 ELSE 1,
                           !.off = HeaderBytes]

\* FreeAll: every page is handed back to the device layer.
FreeAll(a) == [live |-> FALSE, pages |-> <<>>, cur |-> 0, off |-> 0]

Fits(a, n) == a.cur > 0 /\ a.off + n <= a.pages[a.cur]

\* The outcomes of allocate_(n): a bump in the current page, the next page
\* reclaimed by RecycleAll when it is large enough, or a fresh page from
\* PageAllocator::allocate, whose TVMDeviceAllocDataSpace may fail.
Allocate(a, n) ==
  IF Fits(a, n)
  THEN {[ok |-> TRUE, arena |-> [a EXCEPT !.off = @ + n]]}
  ELSE IF a.cur < Len(a.pages) /\ HeaderBytes + n <= a.pages[a.cur + 1]
  THEN {[ok |-> TRUE, arena |-> [a EXCEPT !.cur = @ + 1, !.off = HeaderBytes + n]]}
  ELSE {[ok |-> TRUE,
         arena |-> [a EXCEPT !.pages = Append(@, PageBytes(HeaderBytes + n)),
                             !.cur = Len(a.pages) + 1,
                             !.off = HeaderBytes + n]],
        [ok |-> FALSE, arena |-> a]}
=============================================================================
