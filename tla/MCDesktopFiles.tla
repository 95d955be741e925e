--------------------------- MODULE MCDesktopFiles ---------------------------
(***************************************************************************)
(* Scenarios for TLC: retried uploads with a single fault of any kind, and *)
(* shorter stories of every kind of transfer with two faults.              *)
(***************************************************************************)
EXTENDS DesktopFiles

\* All picks but the last.
FewPicks == LET p == CHOOSE p \in Picks : TRUE
                q == CHOOSE q \in Picks \ {p} : TRUE IN {p, q}

AnyTransfers ==
    {[jobs |-> FewPicks \cup Uploads, ops |-> 4, times |-> 1,
      faults |-> {"page", "refresh", "rest", "lost", "transfer", "removal"}],
     [jobs |-> Jobs, ops |-> 2, faults |-> AllFaults, times |-> 2],
     [jobs |-> Previews, ops |-> 2, faults |-> AllFaults, times |-> 3],
     [jobs |-> FewPicks \cup Previews, ops |-> 3, times |-> 1,
      faults |-> {"page", "signout", "refresh"}],
     [jobs |-> Picks, ops |-> 3, faults |-> {"removal", "copy", "expiry"},
      times |-> 2]}

\* Two downloads and nothing that goes wrong.
TwoDownloads ==
    {[jobs |-> Downloads, ops |-> 2, faults |-> {}, times |-> 0]}

=============================================================================
