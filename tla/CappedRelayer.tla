--------------------------- MODULE CappedRelayer ---------------------------
(***************************************************************************)
(* The capped relayer (services/relayer/base-sepolia-capped-relayer.js):   *)
(* calls of submit are served one after the other; each is quoted against  *)
(* the caps, reserved in the budget file and then broadcast.  The process  *)
(* may stop between any two of these steps, and a broadcast whose answer   *)
(* is lost may have reached the network.                                   *)
(***************************************************************************)
EXTENDS Totals, Sequences

CONSTANTS
    MaxCalls,          \* calls of submit that may wait at a time (a bound)
    MaxTransactionsPerHour,
    MaxDailySpend,     \* maxDailySpendWei
    MaxQuote,          \* a transaction reserves 1..MaxQuote
    HoursPerDay,
    MaxHour            \* the clock stops there (a bound)

ASSUME RelayerAssumption ==
    /\ MaxTransactionsPerHour \in Nat \ {0} /\ MaxDailySpend \in Nat
    /\ HoursPerDay \in Nat \ {0} /\ MaxHour \in Nat
    /\ MaxCalls \in Nat /\ MaxQuote \in Nat \ {0}

VARIABLES
    hour,         \* the clock
    budgetFile,   \* the reservations in stateFile
    reservations, \* this.state.reservations of the process
    waiting,      \* calls behind submitTail
    relaying,     \* the call being served
    broadcast     \* reservations whose transaction may be on the network

relayer == <<hour, budgetFile, reservations, waiting, relaying, broadcast>>

Reservation == [day: 0..MaxHour, at: 0..MaxHour, wei: 1..MaxQuote]
NoRelay == [step |-> "idle", day |-> 0, wei |-> 1]

RelayerTypeOK ==
    /\ hour \in 0..MaxHour /\ waiting \in 0..MaxCalls
    /\ budgetFile \in Seq(Reservation) /\ reservations \in Seq(Reservation)
    /\ relaying \in [step: {"idle", "quoted", "reserved", "sent"},
                     day: 0..MaxHour, wei: 1..MaxQuote]
    /\ broadcast \subseteq Nat

RelayerInit ==
    /\ hour = 0 /\ waiting = 0
    /\ budgetFile = <<>> /\ reservations = <<>>
    /\ relaying = NoRelay /\ broadcast = {}

CurrentDay == hour \div HoursPerDay

\* What a day's entries of list reserve.
Today(list, day) == {i \in DOMAIN list : list[i].day = day}
Reserved(list, which) == Total([i \in DOMAIN list |-> list[i].wei], which)

\* The ceilings of prepare: per day, within the last hour of the same day, and
\* on what the day's transactions may cost.
WithinCaps(wei) ==
    LET today == Today(reservations, CurrentDay)
    IN  /\ Cardinality(today) < MaxTransactionsPerHour * 24
        /\ Cardinality({i \in today : reservations[i].at >= hour - 1}) < MaxTransactionsPerHour
        /\ Reserved(reservations, today) + wei <= MaxDailySpend

SubmitRelay ==
    /\ waiting < MaxCalls /\ waiting' = waiting + 1
    /\ UNCHANGED <<hour, budgetFile, reservations, relaying, broadcast>>

\* The RPC node answers with a price; the caps are read when it has.
Quote(wei) ==
    /\ waiting > 0 /\ relaying.step = "idle"
    /\ waiting' = waiting - 1
    /\ relaying' = IF WithinCaps(wei) THEN [step |-> "quoted", day |-> CurrentDay, wei |-> wei]
                                      ELSE NoRelay
    /\ UNCHANGED <<hour, budgetFile, reservations, broadcast>>

\* A write that fails ends the call; the entry stays in memory.
Reserve ==
    /\ relaying.step = "quoted"
    /\ reservations' = Append(reservations, [day |-> relaying.day, at |-> hour, wei |-> relaying.wei])
    /\ \/ budgetFile' = reservations' /\ relaying' = [relaying EXCEPT !.step = "reserved"]
       \/ budgetFile' = budgetFile /\ relaying' = NoRelay
    /\ UNCHANGED <<hour, waiting, broadcast>>

\* sendTransaction: an error does not tell whether the transaction got out.
SendTransaction ==
    /\ relaying.step = "reserved"
    /\ relaying' = [relaying EXCEPT !.step = "sent"]
    /\ broadcast' \in {broadcast, broadcast \cup {Len(reservations)}}
    /\ UNCHANGED <<hour, budgetFile, reservations, waiting>>

\* The outcome is noted in the entry, which keeps counting either way.
NoteOutcome ==
    /\ relaying.step = "sent"
    /\ relaying' = NoRelay
    /\ budgetFile' \in {budgetFile, reservations}
    /\ UNCHANGED <<hour, reservations, waiting, broadcast>>

RestartRelayer ==
    /\ relaying' = NoRelay /\ waiting' = 0
    /\ reservations' = budgetFile
    /\ UNCHANGED <<hour, budgetFile, broadcast>>

NextHour ==
    /\ hour < MaxHour /\ hour' = hour + 1
    /\ UNCHANGED <<budgetFile, reservations, waiting, relaying, broadcast>>

RelayerNext ==
    \/ SubmitRelay \/ Reserve \/ SendTransaction \/ NoteOutcome \/ RestartRelayer \/ NextHour
    \/ \E wei \in 1..MaxQuote : Quote(wei)

RelayerSpec == RelayerInit /\ [][RelayerNext]_relayer

-----------------------------------------------------------------------------
\* Whatever crashes and lost answers come between, every transaction that may
\* be on the network has its entry in the budget file, and together they keep
\* to the spend of a day and to the rate of any hour of it.
BudgetHolds ==
    /\ broadcast \subseteq DOMAIN budgetFile
    /\ \A i \in broadcast :
          LET day == Today(budgetFile, budgetFile[i].day) \cap broadcast
          IN  /\ Reserved(budgetFile, day) <= MaxDailySpend
              /\ Cardinality({j \in day : budgetFile[j].at \in budgetFile[i].at - 1 .. budgetFile[i].at})
                    <= MaxTransactionsPerHour
=============================================================================
