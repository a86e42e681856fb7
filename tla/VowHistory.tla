----------------------------- MODULE VowHistory -----------------------------
(***************************************************************************)
(* VowCore with history variables: the share price at which the current    *)
(* position of an identity was opened, whether the price has fallen since,  *)
(* and what the rounding of its shares may have cost.  They tell yield from *)
(* principal, which the accounts do not record.                             *)
(***************************************************************************)
EXTENDS VowProperties

VARIABLES
    entry,  \* the share price when the position was opened
    fell,   \* the share price has fallen since
    dust    \* a share, in lamports rounded up, for each purchase since

historyVars == <<vars, entry, fell, dust>>

HistoryInit ==
    /\ Init
    /\ entry = [n \in Nonces |-> 0]
    /\ fell = [n \in Nonces |-> FALSE]
    /\ dust = [n \in Nonces |-> 0]

Opened(n) == vow'[n].total_commitments # vow[n].total_commitments

ToppedUp(n) == ~Opened(n) /\ vow'[n].principal_lamports # vow[n].principal_lamports

OneShare == config.current_share_price \div SHARE_PRECISION + 1

HistoryNext ==
    /\ Next
    /\ entry' = [n \in Nonces |->
                    IF Opened(n) THEN config.current_share_price ELSE entry[n]]
    /\ fell' = [n \in Nonces |->
                    /\ ~Opened(n)
                    /\ fell[n] \/ config'.current_share_price < config.current_share_price]
    /\ dust' = [n \in Nonces |->
                    IF Opened(n) THEN OneShare
                    ELSE IF ToppedUp(n) THEN dust[n] + OneShare ELSE dust[n]]

HistorySpec == HistoryInit /\ [][HistoryNext]_historyVars

(* The position is still worth its principal, up to one share for each      *)
(* purchase: mint, activate_stake and add_stake round the shares down.      *)
PrincipalKept(n) ==
    ValueOf(vow[n].shares, config.current_share_price) + dust[n]
        >= vow[n].principal_lamports

Invested(n) == vow[n].active_stake /\ ~escrow[n].live

(* Harvest turns gains, never principal, into yield: as long as the price   *)
(* has not fallen, the harvests of a position, whenever they happen and     *)
(* whatever the mode is changed to in between, leave the principal.         *)
YieldNotFromPrincipal ==
    \A n \in idents : Invested(n) /\ ~fell[n] => PrincipalKept(n)

(* commitment-model.md, "yield_balance = crystallised yield only": also     *)
(* after the price fell and recovered.                                      *)
YieldIsGainOnly ==
    \A n \in idents :
        Invested(n) /\ config.current_share_price >= entry[n] => PrincipalKept(n)
=============================================================================
