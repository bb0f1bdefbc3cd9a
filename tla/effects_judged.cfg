SPECIFICATION EffectsSpec
CONSTANTS
    FlowActions = {"zest_supply", "zest_withdraw", "granite_supply", "granite_withdraw", "granite_borrow", "granite_borrow_with_collateral", "granite_repay", "swap", "withdraw_sbtc"}
    MaxEffectAmount = 2
    MaxEffectForks = 1
PROPERTY PlannedIsNotBlamed
CHECK_DEADLOCK FALSE
