------------------------------- MODULE MCBot -------------------------------
EXTENDS Bot, TLC

CONSTANTS u1, q1, a1, p1, p2, k1, k2, m1, m2, t1, t2

MCKey == {"module", "step",
          "pin_digits", "pin_first", "pin_callback_module", "pin_callback_action",
          "to", "amount", "currency", "pay_transfer_id",
          "withdraw_currency", "withdraw_amount", "withdraw_address", "withdraw_need_pin",
          "from_currency", "to_currency", "invest_amount",
          "adjust_currency", "adjust_amount",
          "count", "cover_file_id", "remark_packet_id", "merchant_id"}

Limits == [c \in {"USDT", "TRX"} |-> IF c = "USDT" THEN 1 ELSE 0]

Least == [c \in {"USDT", "TRX"} |-> 1]

\* Paid without the PIN, and only with it.
SmallRequest == {[id |-> q1, amount |-> 1, currency |-> "USDT"]}
LargeRequest == {[id |-> q1, amount |-> 2, currency |-> "USDT"]}

Directions == {[from |-> "USDT", to |-> "TRX"], [from |-> "TRX", to |-> "USDT"]}

OneDirection == {[from |-> "USDT", to |-> "TRX"]}

Symmetry == Permutations({k1, k2}) \union Permutations({t1, t2})

\* Dialogues one after the other: those that share the keypad and their
\* pages, the keys amount and currency, or the free limit.
MCUse == {{"Receive", "Wallet"}, {"Transfer", "Receive"}, {"RedPacket", "Remark"},
          {"Profile", "Finance"}, {"Exchange", "RedPacket"}, {"Shop"}}

\* One dialogue, its updates handled side by side.
MCOverlap == {{"Receive"}, {"Wallet"}, {"Exchange"}, {"Finance"}, {"Profile"}, {"Remark"}}

MCWithdraw == {{"Wallet"}}
=============================================================================
