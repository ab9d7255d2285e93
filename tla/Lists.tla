------------------------------- MODULE Lists -------------------------------
(***************************************************************************)
(* The lists of the Pangolin client, page by page, while the list changes: *)
(* ListSites and ListResources, which are the same loop over numbered      *)
(* pages, and ListTargetsRaw, which asks for offsets                       *)
(* (pkg/pangolin/client.go).                                               *)
(*                                                                         *)
(* Reconcilers take a list for a snapshot: what is not in it is created,   *)
(* what is in it may be deleted.  But each page is a request of its own,   *)
(* and other reconcilers, or people, add and delete items in between; and  *)
(* the server may give fewer items per page than it is asked for.          *)
(*                                                                         *)
(* Three kinds of server: it understands page numbers, or it is older and  *)
(* ignores them, or it is asked for an offset.  It says how many items a   *)
(* page holds, or says nothing.  And it reports how many items there are,  *)
(* which may be more or fewer than there are; a total that is left out is  *)
(* decoded as 0.  An item is a number, with which nothing is compared but  *)
(* other items; where a new one appears in the list is up to the server.   *)
(***************************************************************************)
EXTENDS Integers, Sequences, SequencesExt

CONSTANTS
  PageSize,     \* listPageSize (1000)
  MaxPages,     \* listMaxPages (100)
  LegacyLimit,  \* items an old server returns (1000)
  Caps,         \* most items per page of newer servers
  MaxExcess,    \* a total is too large by this much, at most
  MaxItems,     \* items there are at first, at most
  MaxChanges    \* items added and deleted in a run

ASSUME ListsAssumption ==
  /\ PageSize \in Nat \ {0} /\ MaxPages \in Nat \ {0} /\ LegacyLimit \in Nat \ {0}
  /\ Caps \subseteq Nat \ {0}
  /\ MaxExcess \in Nat /\ MaxItems \in Nat /\ MaxChanges \in Nat

VARIABLES
  server,    \* "numbers", "legacy" or "offset"
  cap,       \* the most items per page, if it is not "legacy"
  tells,     \* the server says how many items a page holds
  counts,    \* the total it reports is "exact", or may have "fewer" or "more"
  list,      \* the items on the server, in its order
  pc,        \* "idle", "asking", or "done" when the list is returned
  pages,     \* pages received
  got,       \* what has been received
  start,     \* the list when the call began
  added, deleted,   \* how often, since the call began
  fresh,     \* the next new item
  changes    \* how many changes are left

vars == <<server, cap, tells, counts, list, pc, pages, got, start, added, deleted,
          fresh, changes>>

kind == <<server, cap, tells, counts>>
call == <<pc, pages, got>>

AtMost(m, n) == IF m < n THEN m ELSE n

Init ==
  /\ server \in {"numbers", "legacy", "offset"} /\ cap \in Caps /\ tells \in BOOLEAN
  /\ counts \in {"exact", "fewer", "more"}
  /\ \E n \in 0 .. MaxItems : list = [i \in 1 .. n |-> i]
  /\ pc = "idle" /\ pages = 0 /\ got = <<>>
  /\ start = list /\ added = 0 /\ deleted = 0
  /\ fresh = MaxItems + 1 /\ changes = MaxChanges

-----------------------------------------------------------------------------
(* An operator whose name extends that of an operation is that operation   *)
(* with a mistake in it; no specification uses it.                         *)

(* What the server puts on a page. *)
Size == IF server = "legacy" THEN LegacyLimit ELSE AtMost(cap, PageSize)

FromByIndex == IF server = "offset" THEN pages ELSE pages * Size

(* The first item of the next page: an offset in steps of what was asked   *)
(* for, or a page number, which the server multiplies by what it gives.    *)
From == IF server = "offset" THEN pages * PageSize
        ELSE IF server = "numbers" THEN pages * Size ELSE 0

Page == SubSeq(list, From + 1, AtMost(From + Size, Len(list)))

EffectiveAsked == PageSize

(* What the client takes for a full page. *)
Effective == IF tells THEN Size ELSE PageSize

(* A call begins. *)
Begin ==
  /\ pc # "asking"
  /\ pc' = "asking" /\ pages' = 0 /\ got' = <<>>
  /\ start' = list /\ added' = 0 /\ deleted' = 0
  /\ UNCHANGED <<kind, list, fresh, changes>>

(* The totals the server may report with a page.                           *)
Totals ==
  IF counts = "exact" THEN {Len(list)}
  ELSE IF counts = "fewer" THEN 0 .. Len(list)
  ELSE Len(list) .. Len(list) + MaxExcess

(* The list is complete, as far as the client can tell: the page was empty *)
(* or short, or as many items have come as the server says there are.      *)
LastPage(page, total) ==
  \/ page = <<>>
  \/ Len(got) + Len(page) >= total
  \/ Len(page) < Effective

(* A page arrives.  The loop ends after MaxPages pages, without an error.  *)
Receive ==
  /\ pc = "asking"
  /\ got' = got \o Page /\ pages' = pages + 1
  /\ \E total \in Totals :
       pc' = IF LastPage(Page, total) \/ pages' = MaxPages THEN "done" ELSE "asking"
  /\ UNCHANGED <<kind, list, start, added, deleted, fresh, changes>>

(* A request fails, and the call with it: no part of a list is returned. *)
Fail ==
  /\ pc = "asking" /\ pc' = "idle" /\ got' = <<>>
  /\ UNCHANGED <<kind, list, pages, start, added, deleted, fresh, changes>>

-----------------------------------------------------------------------------
(* The other reconcilers, and people. *)

Add ==
  /\ changes > 0 /\ changes' = changes - 1
  /\ \E i \in 1 .. Len(list) + 1 : list' = InsertAt(list, i, fresh)
  /\ fresh' = fresh + 1 /\ added' = added + 1
  /\ UNCHANGED <<kind, call, start, deleted>>

Delete ==
  /\ changes > 0 /\ changes' = changes - 1
  /\ \E i \in 1 .. Len(list) : list' = RemoveAt(list, i)
  /\ deleted' = deleted + 1
  /\ UNCHANGED <<kind, call, start, added, fresh>>

Next == Begin \/ Receive \/ Fail \/ Add \/ Delete

Spec == Init /\ [][Next]_vars

-----------------------------------------------------------------------------
(* What it takes to be read beyond the first page: the server gives as     *)
(* much as it is asked for, or, with numbered pages, says how much it      *)
(* gives; and it does not report fewer items than there are.               *)
Honest ==
  /\ server # "legacy" /\ counts # "fewer"
  /\ Size = PageSize \/ (server = "numbers" /\ tells)

(* The list, at its longest since the call began, is within the client's   *)
(* reach: the pages it is ready to ask for, or else the first page.        *)
Reachable == Len(start) + added <= IF Honest THEN MaxPages * Size ELSE Size

(* A list that is returned and within reach holds every item that was      *)
(* there when the call began, wherever new ones have appeared meanwhile,   *)
(* unless some item has been deleted.  (A deletion shifts another item     *)
(* onto a page the client already has, and that item is missed.)           *)
CompleteUnlessDeleted ==
  (pc = "done" /\ deleted = 0 /\ Reachable) => ToSet(start) \subseteq ToSet(got)

(* No item is in a list twice, whatever has been deleted meanwhile, unless *)
(* some item has been added.  An old server repeats its first page when it *)
(* is asked again, as it is if it reports more items than it gives.        *)
EachOnceUnlessAdded ==
  (added = 0 /\ (server = "legacy" => Reachable /\ counts # "more"))
    => \A i, j \in DOMAIN got : got[i] = got[j] => i = j
=============================================================================
