--------------------------- MODULE VersionHistory ---------------------------
(***************************************************************************)
(* The history of one workflow, as its editors see it: one version after   *)
(* the other, numbered without a gap.  Every edit is made of the version   *)
(* that is shown then, while it is still listed, and is its only edit; a   *)
(* turn shows another listed version; and a deletion takes all versions up *)
(* to one of them.                                                         *)
(***************************************************************************)
EXTENDS Integers

VARIABLES
  rows,    (* The versions there are,                                      *)
  shown,   (* those a request without a version is shown,                  *)
  listed   (* and those that are not deleted.                              *)

Init ==
  /\ rows = {}
  /\ shown = {}
  /\ listed = {}

Begin ==
  /\ rows = {}
  /\ rows' = {1}
  /\ shown' = {1}
  /\ listed' = {1}

Edit ==
  \E v \in listed :
    /\ shown = {v}
    /\ v + 1 \notin rows
    /\ rows' = rows \cup {v + 1}
    /\ shown' = {v + 1}
    /\ listed' = listed \cup {v + 1}

Turn ==
  \E v \in listed :
    /\ shown' = {v}
    /\ UNCHANGED <<rows, listed>>

(* One that comes after the snapshot of the deletion stays.                *)
Delete ==
  \E v \in rows :
    /\ listed' = {w \in listed : w > v}
    /\ UNCHANGED <<rows, shown>>

Next == Begin \/ Edit \/ Turn \/ Delete

Spec == Init /\ [][Next]_<<rows, shown, listed>>
=============================================================================
