---------------------------- MODULE PagedListing -----------------------------
(***************************************************************************)
(* A listing of the registry's client read through its iterator            *)
(* (ListComplete, Next, NotDone and Value; the four iterators of           *)
(* pkg/azure/containerregistry/models.go are alike).  The caller goes on   *)
(* after a Next that has failed, or gives up.                              *)
(***************************************************************************)
EXTENDS Integers, Sequences, SequencesExt

CONSTANT Listings   \* what the service holds: sequences of pages of values

ASSUME PagesAssumption ==
  \A listing \in Listings :
    listing \in Seq(Seq(UNION {Range(listing[n]) : n \in DOMAIN listing}))

VARIABLES
  pages,      \* the pages of this listing
  page,       \* the number of the page held, the one after the last being empty
  index,      \* the iterator's i, from 0
  lpc,        \* where the caller is
  listed      \* the values that it was given

listingVars == <<pages, page, index, lpc, listed>>

InitListing ==
  /\ pages \in Listings /\ page = 0 /\ index = 0 /\ lpc = "list" /\ listed = <<>>

Values == IF page \in DOMAIN pages THEN pages[page] ELSE <<>>

NotDone == Values # <<>> /\ index < Len(Values)

\* ListComplete asks for the first page.
ListFirst ==
  /\ lpc = "list"
  /\ \/ page' = 1 /\ lpc' = "loop"
     \/ lpc' = "failed" /\ UNCHANGED page
  /\ UNCHANGED <<pages, index, listed>>

\* The caller's loop: NotDone, and Value.
TakeValue ==
  /\ lpc = "loop"
  /\ IF NotDone
     THEN listed' = Append(listed, Values[index + 1]) /\ lpc' = "next"
     ELSE lpc' = "done" /\ UNCHANGED listed
  /\ UNCHANGED <<pages, page, index>>

\* A mutant of NextValue: it advances although the page could not be fetched.
NextAdvancesAnyway ==
  /\ lpc = "next"
  /\ \/ index + 1 < Len(Values) /\ index' = index + 1 /\ lpc' = "loop" /\ UNCHANGED page
     \/ index + 1 >= Len(Values) /\ page' = page + 1 /\ index' = 0 /\ lpc' = "loop"
     \/ /\ index + 1 >= Len(Values) /\ page < Len(pages)
        /\ index' = index + 1 /\ lpc' = "retry" /\ UNCHANGED page
  /\ UNCHANGED <<pages, listed>>

\* Next goes to the next value of the page, or fetches the page that follows,
\* which without a link is the empty one and asks for nothing.  If that fails
\* it stays where it is.
NextValue ==
  /\ lpc = "next"
  /\ \/ index + 1 < Len(Values) /\ index' = index + 1 /\ lpc' = "loop" /\ UNCHANGED page
     \/ index + 1 >= Len(Values) /\ page' = page + 1 /\ index' = 0 /\ lpc' = "loop"
     \/ /\ index + 1 >= Len(Values) /\ page < Len(pages)
        /\ lpc' = "retry" /\ UNCHANGED <<page, index>>
  /\ UNCHANGED <<pages, listed>>

\* After a failure the caller gives up, or calls Next again while NotDone.
Retry ==
  /\ lpc = "retry"
  /\ lpc' = "failed" \/ lpc' = (IF NotDone THEN "next" ELSE "done")
  /\ UNCHANGED <<pages, page, index, listed>>

NextListing == ListFirst \/ TakeValue \/ NextValue \/ Retry

ListingSpec == InitListing /\ [][NextListing]_listingVars

-----------------------------------------------------------------------------

\* Whatever fails on the way, no value is listed twice, skipped or out of order;
\* and a caller that gets to the end has been given every value, but for those
\* behind an empty page: a service may send one in the middle, and NotDone
\* cannot tell it from the end (EverythingListed, which fails, has no exception).
ListedOnce ==
  /\ IsPrefix(listed, FlattenSeq(pages))
  /\ lpc = "done" =>
       \E n \in 0 .. Len(pages) : /\ listed = FlattenSeq(SubSeq(pages, 1, n))
                                  /\ n < Len(pages) => pages[n + 1] = <<>>

\* "ListComplete enumerates all values, automatically crossing page boundaries
\* as required": when NotDone says that it is complete, nothing is left.
EverythingListed == lpc = "done" => listed = FlattenSeq(pages)

=============================================================================
