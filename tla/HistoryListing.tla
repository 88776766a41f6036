---------------------------- MODULE HistoryListing ----------------------------
(***************************************************************************)
(* What draft history shows of the builds that are stored                  *)
(* (cmd/draft/history.go, pkg/storage/sorter.go).  Pure.  A build is a     *)
(* record of its ID, the second it was created in and its release, "" if   *)
(* it has none.                                                            *)
(***************************************************************************)
EXTENDS Integers, Sequences, SequencesExt

\* A stable sort: builds of one second stay in the order they came in.
SortByCreatedAt(objs) ==
  LET before(i, j) == objs[i].created < objs[j].created
                        \/ (objs[i].created = objs[j].created /\ i < j)
      order == SetToSortSeq(DOMAIN objs, before)
  IN  [n \in DOMAIN objs |-> objs[order[n]]]

Panics == <<"panic">>

\* h[:min(len(h), max)]: the oldest max, and no slice for a negative one.
GetHistory(objs, max) ==
  IF max < 0 THEN Panics ELSE SubSeq(SortByCreatedAt(objs), 1, Min({Len(objs), max}))

\* The newest of them first.
ToBuildHistory(objs) ==
  Reverse([n \in DOMAIN objs |->
             [id |-> objs[n].id, release |-> IF objs[n].release = "" THEN "-" ELSE objs[n].release]])
=============================================================================
