--------------------------- MODULE LimitedLending ---------------------------
(***************************************************************************)
(* The lending program with a record of what has left its vaults, to say   *)
(* what the rate limiters of module RateLimiter achieve once every handler *)
(* has to remember to ask them: borrows, redemptions and withdrawals pass  *)
(* both limiters; liquidations and the protocol's own fees pass neither.   *)
(***************************************************************************)
EXTENDS Lending

ASSUME FinitelyManyReserves == IsFiniteSet(Reserves)

VARIABLES left,     \* [reserve -> [slot -> tokens gone from its vault up to
                    \* that slot, since its limiter was configured]]
          worth     \* [slot -> their value, since the market's limiter was]

\* Tokens that a step moves out of a vault.
Outgoing(r) == Larger(0, token[r][Vault] - token'[r][Vault])

From(history, at, amount) ==
    [s \in 0..MaxSlot |-> IF s >= at THEN history[s] + amount ELSE history[s]]
None == [s \in 0..MaxSlot |-> 0]

\* A limiter made anew starts with nothing counted.
Reset(history, old, new) == IF new.config = old.config THEN history ELSE None
Limiter(account) == IF Live(account) THEN account.rate_limiter ELSE New(Config(0, 0), 0)

Limited ==
    /\ Tick \/ OpenAccounts \/ Pool \/ Collateral \/ Debt
    /\ left' = [r \in Reserves |-> From(left[r], slot, Outgoing(r))]
    /\ worth' = From(worth, slot,
                     SumFunctionOnSet([r \in Reserves |->
                                          DivInt(FromInt(Outgoing(r)), MintScale[r])], Reserves))

Unlimited ==
    /\ Upkeep \/ Liquidations
    /\ UNCHANGED <<left, worth>>

Administered ==
    /\ Administration
    /\ left' = [r \in Reserves |-> Reset(left[r], Limiter(reserve[r]), Limiter(reserve'[r]))]
    /\ worth' = Reset(worth, market.rate_limiter, market'.rate_limiter)

LimitedInit ==
    /\ Init
    /\ left = [r \in Reserves |-> None]
    /\ worth = None
LimitedNext == Limited \/ Unlimited \/ Administered
LimitedSpec == LimitedInit /\ [][LimitedNext]_<<vars, left, worth>>

-----------------------------------------------------------------------------
Since(history, from) == history[slot] - (IF from > 0 THEN history[from - 1] ELSE 0)

Respects(history, limiter, unit) ==
    LET c == limiter.config
    IN  c.window_duration > 0 =>
            unit * Since(history, slot - c.window_duration) =< 2 * FromInt(c.max_outflow)

\* Over the slots of one window, users take out of a reserve at most twice
\* what its limiter allows, whichever instructions they mix.
ReserveOutflowLimited ==
    \A r \in LiveReserves : Respects(left[r], reserve[r].rate_limiter, One)

\* Over the slots of one window, what users take out of all reserves together
\* is worth at most twice what the market's limiter allows.
MarketOutflowLimited == Respects(worth, market.rate_limiter, 1)
=============================================================================
