------------------------------- MODULE FeeMath -------------------------------
(***************************************************************************)
(* Trading fees, withdrawals and collateral (math/fees.rs,                 *)
(* math/withdrawal.rs, math/collateral.rs).  f is State.fee_structure with *)
(* its four discount tiers in a sequence, best tier first.                 *)
(***************************************************************************)
EXTENDS Precision

\* discount_token: NoToken, or the amount held in the token account passed in.
NoToken == -1

base_fee(quote_asset_amount, f) == (quote_asset_amount * f.fee_numerator) \div f.fee_denominator

\* A tier whose denominator is zero gives no discount and the next one is tried.
applicable_tiers(f, discount_token) ==
    {i \in 1..4 : /\ discount_token >= f.discount_token_tiers[i].minimum_balance
                  /\ f.discount_token_tiers[i].discount_denominator > 0}

calculate_token_discount(fee, f, discount_token) ==
    LET tiers == applicable_tiers(f, discount_token)
        tier  == f.discount_token_tiers[First(tiers)]
    IN  IF discount_token = NoToken \/ tiers = {} THEN 0
        ELSE (fee * tier.discount_numerator) \div tier.discount_denominator

calculate_referrer_reward(fee, f, has_referrer) ==
    IF has_referrer
    THEN (fee * f.referrer_reward_numerator) \div f.referrer_reward_denominator ELSE 0

calculate_referee_discount(fee, f, has_referrer) ==
    IF has_referrer
    THEN (fee * f.referee_discount_numerator) \div f.referee_discount_denominator ELSE 0

Bug_calculate_fees(quote_asset_amount, f, discount_token, has_referrer) ==
    LET fee              == base_fee(quote_asset_amount, f)
        token_discount   == calculate_token_discount(fee, f, discount_token)
        referrer_reward  == calculate_referrer_reward(fee, f, has_referrer)
        referee_discount == calculate_referee_discount(fee, f, has_referrer)
    IN  [user_fee |-> fee - token_discount - referee_discount,
         fee_to_market |-> fee - token_discount - referrer_reward,
         token_discount |-> token_discount, referrer_reward |-> referrer_reward,
         referee_discount |-> referee_discount]
calculate_fees(quote_asset_amount, f, discount_token, has_referrer) ==
    LET fee              == base_fee(quote_asset_amount, f)
        token_discount   == calculate_token_discount(fee, f, discount_token)
        referrer_reward  == calculate_referrer_reward(fee, f, has_referrer)
        referee_discount == calculate_referee_discount(fee, f, has_referrer)
        user_fee         == fee - token_discount - referee_discount
    IN  [user_fee |-> user_fee, fee_to_market |-> user_fee - referrer_reward,
         token_discount |-> token_discount, referrer_reward |-> referrer_reward,
         referee_discount |-> referee_discount]

\* No division by zero and no underflow.
calculate_fees_ok(quote_asset_amount, f, discount_token, has_referrer) ==
    /\ f.fee_denominator > 0
    /\ has_referrer => f.referrer_reward_denominator > 0 /\ f.referee_discount_denominator > 0
    /\ LET c == calculate_fees(quote_asset_amount, f, discount_token, has_referrer)
       IN  c.user_fee >= 0 /\ c.fee_to_market >= 0

\* How much of a withdrawal comes from each vault: the collateral vault
\* first, then the insurance vault, as far as they go.
calculate_withdrawal_amounts(amount, collateral_balance, insurance_balance) ==
    IF collateral_balance >= amount THEN [collateral |-> amount, insurance |-> 0]
    ELSE IF insurance_balance > amount - collateral_balance
         THEN [collateral |-> collateral_balance, insurance |-> amount - collateral_balance]
         ELSE [collateral |-> collateral_balance, insurance |-> insurance_balance]

\* A loss larger than the collateral leaves none; the rest of it is nobody's.
Bug_calculate_updated_collateral(collateral, pnl) == collateral + pnl
calculate_updated_collateral(collateral, pnl) ==
    IF pnl < 0 /\ -pnl > collateral THEN 0 ELSE collateral + pnl
=============================================================================
