--------------------------- MODULE MCSettlementV1 ---------------------------
(* Small instances of SettlementV1 for TLC.  The store starts as the clerk *)
(* and the accountant can have left it: settlements that share a trip, each *)
(* somewhere on its way, none closed with a trip of a closed one.           *)
EXTENDS SettlementV1, TLC

MCPermits == [a \in Actors |-> IF a = "clerk" THEN {"create"} ELSE {"create", "approve"}]

Path == [draft |-> <<"draft">>,
         under_review |-> <<"draft", "under_review">>,
         approved |-> <<"draft", "under_review", "approved">>,
         closed |-> <<"draft", "under_review", "approved", "closed">>]

Made(status, creator, trips, key) ==
    [status |-> status, trips |-> trips, key |-> key, creator |-> creator,
     approver |-> IF status \in {"approved", "closed"} THEN "chief" ELSE None,
     trail |-> Path[status]]

MCStarts ==
    {[s \in Ids |-> CASE s = 0 -> Made(x, "clerk", {"t1"}, "k0")
                     [] s = 1 -> Made(y, "clerk", {"t1", "t2"}, "k1")
                     [] OTHER -> None] :
        <<x, y>> \in {<<"approved", "approved">>, <<"closed", "under_review">>,
                      <<"draft", "approved">>, <<"under_review", "approved">>}}
RequestSymmetry == Permutations(Requests)
=============================================================================
