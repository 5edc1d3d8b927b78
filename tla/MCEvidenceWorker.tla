-------------------------- MODULE MCEvidenceWorker --------------------------
(* Small instances of EvidenceWorker: the policies its runs use. *)
EXTENDS EvidenceWorker

\* One unit is one fee; the allowance for L1 data is one more.
ActivePolicy == [paused |-> FALSE, batchSize |-> 1, maxTransactionsPerHour |-> 2,
                 maxGasPriceWei |-> 1, dailyReservationWei |-> 4, l1AllowanceWei |-> 1]

\* Never a binding cap.
Roomy == {ActivePolicy}

\* Caps that admit one transaction an hour and one a day, and the same service
\* restarted in paused mode.
Capped == [ActivePolicy EXCEPT !.maxTransactionsPerHour = 1, !.maxGasPriceWei = 2,
                               !.dailyReservationWei = 3]
Restarted == {Capped, [Capped EXCEPT !.paused = TRUE]}

\* Both pending events go into one batch.
Joined == {[ActivePolicy EXCEPT !.batchSize = 2]}
=============================================================================
