------------------------------- MODULE MCSync -------------------------------
(* Instances of Sync for TLC: constants a .cfg cannot write. *)
EXTENDS Sync

L(driver, cohort, day) == [driver |-> driver, cohort |-> cohort, day |-> day]

\* Ann drives cohort 2 last; her lap 2 is published late; Bob is in cohort 1.
MCLaps == <<L("ann", 1, 1), L("ann", 1, 2), L("ann", 2, 3), L("bob", 1, 4)>>
MCInitially == 1 :> "ok" @@ 3 :> "ok" @@ 4 :> "ok"
MCChanges == {<<2, "ok">>, <<2, "pitlane">>, <<2, "garbled">>, <<1, "hidden">>,
              <<1, "gone">>}
MCDriverOf == "ua" :> "ann" @@ "ub" :> "bob"
MCConnected == {"ua"}
MCShared == "ua" :> "ann" @@ "ub" :> "ann"
MCAccounts == {"ua", "ub"}
=============================================================================
