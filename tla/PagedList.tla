----------------------------- MODULE PagedList ------------------------------
(***************************************************************************)
(* A list read from the broker (listConsumers and paginate of              *)
(* src/main/rabbitmq/management-client.ts): one request for each page, and *)
(* the broker's list may be another one when the next page is asked for.   *)
(***************************************************************************)
EXTENDS Naturals, Sequences, SequencesExt, FiniteSetsExt

CONSTANTS
    PageSize,  \* the items of a page: RABBITMQ_LIST_PAGE_SIZE
    MaxItems,  \* the items of a list: RABBITMQ_LIST_MAX_ITEMS
    Items,     \* what is listed
    Lists      \* the lists a broker may have: no item is in one twice

ASSUME ListAssumption ==
    /\ {PageSize, MaxItems} \subseteq Nat \ {0}
    /\ \A l \in Lists : l \in Seq(Items) /\ IsInjective(l)

VARIABLES
    list,    \* the broker's list
    paged,   \* whether it is sent in pages; an old broker sends it bare, and any broker its consumers
    page,    \* the page asked for
    listed,  \* what was read so far, and "more", "done" or "failed"
    seen     \* the list that each page was read from

listVars == <<list, paged, page, listed, seen>>

ListInit ==
    /\ list \in Lists /\ paged \in BOOLEAN /\ page = 1 /\ seen = <<>>
    /\ listed = [items |-> <<>>, total |-> 0, truncated |-> FALSE, state |-> "more"]

(* The broker: items come and go until the list is read. *)
ListChanges == listed.state = "more" /\ list' \in Lists /\ UNCHANGED <<paged, page, listed, seen>>

PageCount(l) == Max({1, (Len(l) + PageSize - 1) \div PageSize})
PageItems(l, p) == SubSeq(l, (p - 1) * PageSize + 1, Min({p * PageSize, Len(l)}))

(* A page of the list is asked for and answered. *)
Asks == listed.state = "more" /\ seen' = Append(seen, list) /\ UNCHANGED <<list, paged>>

(* Mutant: the total is that of the first page. *)
PageTotalFirst == IF page = 1 THEN Len(list) ELSE listed.total

(* The total that came with the page, not with an earlier one. *)
PageTotal == Len(list)

(* The last page, or as much as a list may hold. *)
PageEnds(all) == page >= PageCount(list) \/ Len(all) >= MaxItems

PageArrives ==
    /\ Asks /\ paged /\ page <= PageCount(list)
    /\ LET all == listed.items \o PageItems(list, page)
       IN /\ listed' = [items |-> all, total |-> PageTotal, truncated |-> Len(all) < PageTotal,
                        state |-> IF PageEnds(all) THEN "done" ELSE "more"]
          /\ page' = IF PageEnds(all) THEN page ELSE page + 1

(* page_out_of_range: the list is shorter than it was. *)
PageIsNoMore ==
    /\ Asks /\ paged /\ page > PageCount(list)
    /\ listed' = [listed EXCEPT !.state = "failed"]
    /\ UNCHANGED page

(* The whole list, cut by the client. *)
BareListArrives ==
    /\ Asks /\ ~paged
    /\ LET items == SubSeq(list, 1, Min({MaxItems, Len(list)}))
       IN listed' = [items |-> items, total |-> Len(list), truncated |-> Len(list) > Len(items), state |-> "done"]
    /\ UNCHANGED page

ListNext == ListChanges \/ PageArrives \/ PageIsNoMore \/ BareListArrives

-----------------------------------------------------------------------------
(* An item whose place in the list was another one when a later page was read: items before it went, or came. *)
MovesUp(x) ==
    \E p, q \in DOMAIN seen : p < q /\ \E i \in DOMAIN seen[p], j \in DOMAIN seen[q] :
        seen[p][i] = x /\ seen[q][j] = x /\ j < i
MovesDown(x) ==
    \E p, q \in DOMAIN seen : p < q /\ \E i \in DOMAIN seen[p], j \in DOMAIN seen[q] :
        seen[p][i] = x /\ seen[q][j] = x /\ i < j
Throughout(x) == \A p \in DOMAIN seen : x \in ToSet(seen[p])

(* A list that is not marked as truncated has every item that was there throughout, except one that moved up  *)
(* when an item before it went: that one, on a page already read, is missed and nothing says so.             *)
MissesOnlyWhatMovedUp ==
    ~listed.truncated => \A x \in Items : Throughout(x) => x \in ToSet(listed.items) \/ MovesUp(x)

(* An item is listed twice only if it moved down, to a page that was still to be read. *)
RepeatsOnlyWhatMovedDown ==
    \A i, j \in DOMAIN listed.items : i < j /\ listed.items[i] = listed.items[j] => MovesDown(listed.items[i])

(* A list that does not change is read from its start without a gap. *)
ReadsAsItIs ==
    \A l \in Lists : ToSet(seen) = {l} =>
        /\ IsPrefix(listed.items, l)
        /\ listed.total = Len(l)
        /\ Len(listed.items) >= Min({MaxItems, listed.total})

(* However the broker's list changes between two pages, a list that was read is what these three say, and it *)
(* is past its bound by less than a page, however fast the broker's grows (management-client.ts:257-280).    *)
ListIsHonest ==
    listed.state = "done" =>
        /\ MissesOnlyWhatMovedUp /\ RepeatsOnlyWhatMovedDown /\ ReadsAsItIs
        /\ Len(listed.items) < MaxItems + PageSize
=============================================================================
