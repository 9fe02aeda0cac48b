---- MODULE ResultPages ----
(***************************************************************************)
(* Paging of search results: `_page_surplus` and `_serve_stored_page` of   *)
(* engine/retrieval/pipeline.py over the page store of paging.py.  A       *)
(* search answers with `top_k` documents, writes the surplus to            *)
(* `retrieve_pages` and names it by a cursor; a later request with the     *)
(* cursor is served from the stored snapshot.                              *)
(*                                                                         *)
(* A document of search number s is <<s, i>>, its rank i in that search's  *)
(* ranking, so a page that repeats, skips or mixes documents shows it.     *)
(***************************************************************************)
EXTENDS Integers, Sequences, FiniteSets, Slices

CONSTANTS
  PageTenants,
  MaxRanked,      \* bound: documents one search ranks
  PageTopK,       \* the request's top_k
  MaxPageItems,   \* paging.MAX_PAGE_ITEMS
  PageTtl,        \* paging.PAGE_TTL in days
  MaxDays,        \* bound on the clock
  MaxSearches     \* bound on searches

ASSUME PagesAssumption == {MaxRanked, PageTopK, MaxPageItems} \subseteq Nat

VARIABLES
  day,
  pages,      \* retrieve_pages: page id -> [tenant, items, born]
  searches,   \* how many searches ran: also the newest page's id
  ranked,     \* search number -> how many documents its ranking holds
  held,       \* tenant -> the cursors its callers hold, as <<page, offset>>
  reply       \* the last answer: [tenant, kind, results, cursor, after]

pageVars == <<day, pages, searches, ranked, held, reply>>

NoCursor == <<0, 0>>
NoReply == [tenant |-> "none", kind |-> "none", results |-> <<>>,
            cursor |-> NoCursor, after |-> NoCursor]

Ranking(s, n) == [i \in 1..n |-> <<s, i>>]

PagesInit ==
  /\ day = 0
  /\ pages = << >>
  /\ searches = 0
  /\ ranked = << >>
  /\ held = [t \in PageTenants |-> {}]
  /\ reply = NoReply

----------------------------------------------------------------------------
\* DELETE FROM retrieve_pages older than the TTL, under the tenant's row
\* security: another tenant's rows are not visible to it.
Trimmed(t) ==
  {p \in DOMAIN pages : ~(pages[p].tenant = t /\ day - pages[p].born > PageTtl)}

\* Variant: the page starts over at the ranking's head.
StorePageFromHead(t, s, surplus) ==
  [p \in Trimmed(t) \cup {s} |->
     IF p = s THEN [tenant |-> t, born |-> day,
                    items |-> Slice(Ranking(s, Len(surplus)), 0, MaxPageItems)]
              ELSE pages[p]]

StorePage(t, s, surplus) ==
  [p \in Trimmed(t) \cup {s} |->
     IF p = s THEN [tenant |-> t, born |-> day,
                    items |-> Slice(surplus, 0, MaxPageItems)]
              ELSE pages[p]]

\* run_gatherer ranked n documents.  The response keeps top_k of them; the
\* rest is stored, and the cursor is None when the write failed.
Search(t, n, stored) ==
  LET s == searches + 1
      all == Ranking(s, n)
      surplus == Slice(all, PageTopK, n)
      cursor == IF surplus # <<>> /\ stored THEN <<s, 0>> ELSE NoCursor
  IN /\ searches < MaxSearches
     /\ surplus = <<>> => stored
     /\ searches' = s
     /\ ranked' = Append(ranked, n)
     /\ pages' = IF cursor = NoCursor THEN pages ELSE StorePage(t, s, surplus)
     /\ held' = IF cursor = NoCursor THEN held
                ELSE [held EXCEPT ![t] = @ \cup {cursor}]
     /\ reply' = [tenant |-> t, kind |-> "search",
                  results |-> Slice(all, 0, PageTopK),
                  cursor |-> cursor, after |-> NoCursor]
     /\ UNCHANGED day

\* load_page: the slice at the cursor's offset, at least one item long when
\* any is left, and the cursor of the slice after it.
Window(items, offset, limit) ==
  Slice(items, offset, offset + (IF limit < 1 THEN 1 ELSE limit))

\* The row a request may read: the tenant's own, by page id.
Visible(t, p) == p \in DOMAIN pages /\ pages[p].tenant = t

\* A request with a cursor.  It may be any cursor any caller was given: a
\* caller may ask twice, and a cursor may reach another tenant's caller.
ServeStoredPage(t, c, limit) ==
  LET items == pages[c[1]].items
      window == Window(items, c[2], limit)
      consumed == c[2] + Len(window)
      next == IF consumed < Len(items) THEN <<c[1], consumed>> ELSE NoCursor
  IN /\ Visible(t, c[1])
     /\ reply' = [tenant |-> t, kind |-> "page", results |-> window,
                  cursor |-> next, after |-> c]
     /\ held' = IF next = NoCursor THEN held ELSE [held EXCEPT ![t] = @ \cup {next}]
     /\ UNCHANGED <<day, pages, searches, ranked>>

\* CursorExpired: the page is gone, or it is another tenant's; /retrieve
\* answers 410.
CursorExpired(t, c) ==
  /\ ~Visible(t, c[1])
  /\ reply' = [tenant |-> t, kind |-> "expired", results |-> <<>>,
               cursor |-> NoCursor, after |-> c]
  /\ UNCHANGED <<day, pages, searches, ranked, held>>

DayPasses ==
  /\ day < MaxDays
  /\ day' = day + 1
  /\ UNCHANGED <<pages, searches, ranked, held, reply>>

PagesNext ==
  \/ \E t \in PageTenants, n \in 0..MaxRanked, stored \in BOOLEAN : Search(t, n, stored)
  \/ \E t, u \in PageTenants : \E c \in held[u] :
       \/ \E limit \in 0..PageTopK : ServeStoredPage(t, c, limit)
       \/ CursorExpired(t, c)
  \/ DayPasses

PagesSpec == PagesInit /\ [][PagesNext]_pageVars

----------------------------------------------------------------------------
\* Every page served is the slice of its own search's ranking that follows
\* what the caller already has: paging a corpus that keeps changing neither
\* repeats a document nor skips one (paging.py, "A page is a SNAPSHOT").
PageIsASliceOfTheRanking ==
  reply.kind = "page" =>
    LET s == reply.after[1] IN
      /\ \A i \in 1..Len(reply.results) :
           reply.results[i] = <<s, PageTopK + reply.after[2] + i>>
      /\ PageTopK + reply.after[2] + Len(reply.results) <= ranked[s]

====
