---------------------------- MODULE EnergyLedger ----------------------------
(***************************************************************************)
(* The transactions of the energy ledger (components.rs).  An account is a *)
(* record with at least the reserve `energy`, the totals `ledger` of what  *)
(* has moved through it, and `opening`, the reserve its node was spawned   *)
(* with (a history field: the program does not keep it).  Every operator   *)
(* returns the account after the call; amounts are whole units or          *)
(* NonFinite.                                                              *)
(***************************************************************************)
EXTENDS Integers

CONSTANT NonFinite      \* a NaN or an infinite f32

ASSUME NonFiniteAssumption == NonFinite \notin Int

Sources == {"harvested", "consumed", "vented"}
Sinks == {"dissipated", "actuation", "fabrication", "offspring", "transferred"}
EnergyFlow == Sources \cup Sinks

EmptyLedger == [flow \in EnergyFlow |-> 0]

\* A slip: the floor at zero is left out.
NoFloor(e) == e

AtLeastZero(e) == IF e > 0 THEN e ELSE 0
Lesser(a, b) == IF a <= b THEN a ELSE b

ValidAmount(amount) == IF amount = NonFinite THEN 0 ELSE AtLeastZero(amount)

Record(account, flow, amount, energy) ==
  [account EXCEPT !.energy = energy, !.ledger[flow] = @ + amount]

\* A slip: the refused flows are credited all the same, without a record.
CreditAnyFlow(account, flow, amount) ==
  IF flow \in Sources
    THEN Record(account, flow, ValidAmount(amount), account.energy + ValidAmount(amount))
    ELSE [account EXCEPT !.energy = @ + ValidAmount(amount)]

Credit(account, flow, amount) ==
  IF flow \in Sources
    THEN Record(account, flow, ValidAmount(amount), account.energy + ValidAmount(amount))
    ELSE account

\* A slip: the comparison with the reserve is left out.
CanFundAnything(account, flow, amount) == flow \in Sinks

CanFund(account, flow, amount) ==
  flow \in Sinks /\ account.energy >= ValidAmount(amount)

DebitExact(account, flow, amount) ==
  IF CanFund(account, flow, amount)
    THEN Record(account, flow, ValidAmount(amount), account.energy - ValidAmount(amount))
    ELSE account

\* A slip: the amount is cut to the reserve without looking at its sign.
AvailableSigned(account, amount) == Lesser(ValidAmount(amount), account.energy)

Available(account, amount) == Lesser(ValidAmount(amount), AtLeastZero(account.energy))

DebitAvailable(account, flow, amount) ==
  IF flow \in Sinks
    THEN Record(account, flow, Available(account, amount),
                account.energy - Available(account, amount))
    ELSE account

\* A slip: a drain that crosses zero records only what the reserve had.
DrainRecordingAvailable(account, amount) ==
  Record(account, "dissipated", Available(account, amount),
         account.energy - ValidAmount(amount))

Drain(account, amount) ==
  Record(account, "dissipated", ValidAmount(amount), account.energy - ValidAmount(amount))

-----------------------------------------------------------------------------
Gained(account) ==
  account.ledger["harvested"] + account.ledger["consumed"] + account.ledger["vented"]

Spent(account) ==
  account.ledger["dissipated"] + account.ledger["actuation"]
    + account.ledger["fabrication"] + account.ledger["offspring"]
    + account.ledger["transferred"]

\* The reserve is what the ledger says it should be.
Balanced(account) == account.energy = account.opening + Gained(account) - Spent(account)
=============================================================================
