---------------------------- MODULE VowMigration ----------------------------
(***************************************************************************)
(* The life of the config account around the core and the commitment       *)
(* records: the admin changes hands, the config is closed and initialized  *)
(* again after an upgrade, and the mint counter is advanced past the        *)
(* identities that are still there, by hand or by the script                *)
(* advance-mint-counter.ts.  Identities, escrows, reserve and records live  *)
(* on through all of it.                                                    *)
(***************************************************************************)
EXTENDS CommitmentRecords

CONSTANTS
    Admins,         \* keys that may become admin
    MaxMigrations   \* bound: how often the config is closed

ASSUME MigrationAssumption == MaxMigrations \in Nat

VARIABLES
    admin,          \* config.admin
    config_live,    \* the config account exists
    migrations,     \* how often it was closed
    script,         \* the run of advance-mint-counter.ts in progress
    advanced        \* history: the script came to its end on this config,
                    \* having counted identities numbered without a gap

migrationVars == <<admin, config_live, migrations, script, advanced>>
allVars == <<vars, recordVars, migrationVars>>

(* The bytes of a closed config are zero.                                   *)
NoConfig ==
    [current_share_price |-> 0, total_shares |-> 0, total_yield_claims |-> 0,
     last_pool_lamports |-> 0, total_minted |-> 0, total_pending_unstake |-> 0]

(* `on' and `gapless' are history: the config the script fetched, and        *)
(* whether it counted identities numbered without a gap.                     *)
Idle == [pc |-> "idle", seen |-> 0, needed |-> 0, on |-> 0, gapless |-> FALSE]

Script == [pc : {"idle", "fetched", "counted"}, seen : Nat, needed : Nat, on : Nat,
           gapless : BOOLEAN]

MigrationInit ==
    /\ Init
    /\ RecordsInit
    /\ admin \in Admins
    /\ config_live = TRUE
    /\ migrations = 0
    /\ script = Idle
    /\ advanced = FALSE

-----------------------------------------------------------------------------
(* Every instruction of the core needs the config; the clock and the pool    *)
(* go on without it.                                                         *)
CoreStep ==
    /\ \/ config_live /\ Next
       \/ ~config_live /\ (Tick \/ NextEpoch \/ \E delta \in PoolDeltas : PoolUpdate(delta))
    /\ UNCHANGED <<recordVars, migrationVars>>

(* set_admin, by the admin.                                                  *)
SetAdmin(new_admin) ==
    /\ config_live
    /\ admin' = new_admin
    /\ UNCHANGED <<vars, recordVars, config_live, migrations, script, advanced>>

(* close_protocol_config, by the admin.                                      *)
CloseProtocolConfig ==
    /\ config_live
    /\ migrations < MaxMigrations
    /\ config_live' = FALSE
    /\ config' = NoConfig
    /\ migrations' = migrations + 1
    /\ advanced' = FALSE
    /\ UNCHANGED <<idents, vow, escrow, reserve, tokens, pool, now, epoch,
                   recordVars, admin, script>>

(* initialize once more, for the same pool, by whoever becomes admin.        *)
Reinitialize(new_admin) ==
    /\ ~config_live
    /\ config_live' = TRUE
    /\ admin' = new_admin
    /\ \E readable \in BOOLEAN :
         /\ readable => Readable(pool)
         /\ config' = OpeningConfig(pool, readable)
    /\ UNCHANGED <<idents, vow, escrow, reserve, tokens, pool, now, epoch,
                   recordVars, migrations, script, advanced>>

(* set_mint_counter: the counter only grows.                                 *)
CounterGrows(new_counter) == new_counter > config.total_minted

SetMintCounter(new_counter) ==
    /\ config_live
    /\ CounterGrows(new_counter)
    /\ config' = [config EXCEPT !.total_minted = new_counter]
    /\ UNCHANGED <<idents, vow, escrow, reserve, tokens, pool, now, epoch>>

SetMintCounterByHand(new_counter) ==
    /\ SetMintCounter(new_counter)
    /\ UNCHANGED <<recordVars, migrationVars>>

-----------------------------------------------------------------------------
(* advance-mint-counter.ts: fetch the config, count the VowState accounts,   *)
(* and send set_mint_counter.  Each is a request of its own, and the ledger   *)
(* moves on in between.                                                      *)
ScriptFetch ==
    /\ script.pc = "idle"
    /\ config_live
    /\ script' = [pc |-> "fetched", seen |-> config.total_minted, needed |-> 0,
                  on |-> migrations, gapless |-> FALSE]
    /\ UNCHANGED <<vars, recordVars, admin, config_live, migrations, advanced>>

(* How far the counter has to be: the number of identities.                  *)
NeededUpToLast == IF idents = {} THEN 0 ELSE Cardinality(idents) - 1

Needed == Cardinality(idents)

(* The identities are numbered from zero without a gap, which a counter set  *)
(* by hand may leave.                                                        *)
Gapless == idents = 0..(Cardinality(idents) - 1)

(* The script came to its end: on the present config, if that is the one it  *)
(* fetched.                                                                  *)
ScriptDone(gapless) ==
    /\ script' = Idle
    /\ advanced' = (advanced \/ (config_live /\ script.on = migrations /\ gapless))

ScriptCount ==
    /\ script.pc = "fetched"
    /\ IF script.seen >= Needed
       THEN ScriptDone(Gapless)
       ELSE /\ script' = [script EXCEPT !.pc = "counted", !.needed = Needed,
                                        !.gapless = Gapless]
            /\ UNCHANGED advanced
    /\ UNCHANGED <<vars, recordVars, admin, config_live, migrations>>

ScriptAdvance ==
    /\ script.pc = "counted"
    /\ SetMintCounter(script.needed)
    /\ ScriptDone(script.gapless)
    /\ UNCHANGED <<recordVars, admin, config_live, migrations>>

(* The instruction is refused, and the script exits with an error.           *)
ScriptFails ==
    /\ script.pc = "counted"
    /\ ~config_live \/ ~CounterGrows(script.needed)
    /\ script' = Idle
    /\ UNCHANGED <<vars, recordVars, admin, config_live, migrations, advanced>>

-----------------------------------------------------------------------------
MigrationNext ==
    \/ CoreStep
    \/ \E n \in idents :
          \/ RecordCommitment(n) /\ UNCHANGED migrationVars
          \/ RecordFulfillment(n) /\ UNCHANGED migrationVars
    \/ \E new_admin \in Admins :
          \/ SetAdmin(new_admin)
          \/ Reinitialize(new_admin)
    \/ CloseProtocolConfig
    \/ \E new_counter \in 1..MaxVows : SetMintCounterByHand(new_counter)
    \/ ScriptFetch
    \/ ScriptCount
    \/ ScriptAdvance
    \/ ScriptFails

MigrationSpec == MigrationInit /\ [][MigrationNext]_allVars

-----------------------------------------------------------------------------
(* Every account of the program and the script hold values of their type.    *)
MigrationTypeOK ==
    /\ TypeOK
    /\ records \in [Wallets -> CommitmentRecord]
    /\ committed \subseteq idents
    /\ fulfilments \subseteq idents
    /\ admin \in Admins
    /\ config_live \in BOOLEAN
    /\ migrations \in Nat
    /\ script \in Script
    /\ advanced \in BOOLEAN

(* An identity is permanent (docs/spec.md "The identity account itself is    *)
(* never closed"): no instruction, also none after the mint counter was      *)
(* reset by a second initialize, takes it from its owner, creates it again   *)
(* or takes back a commitment, a fulfilment, a staked day or its best tier;  *)
(* and a wallet's record loses nothing either.                               *)
IdentityPermanent ==
    [][ /\ \A n \in idents :
             /\ n \in idents'
             /\ vow'[n].owner = vow[n].owner
             /\ vow'[n].total_commitments >= vow[n].total_commitments
             /\ vow'[n].total_fulfilled >= vow[n].total_fulfilled
             /\ vow'[n].cumulative_stake_days >= vow[n].cumulative_stake_days
             /\ vow'[n].highest_class_ever >= vow[n].highest_class_ever
        /\ \A w \in Wallets :
             /\ records'[w].total_xnfts_minted >= records[w].total_xnfts_minted
             /\ records'[w].total_xnt_fulfilled >= records[w].total_xnt_fulfilled
             /\ records'[w].highest_class_ever >= records[w].highest_class_ever ]_allVars

(* The totals of a config never claim more than the accounts hold: a second  *)
(* initialize makes them too small, and the saturating subtractions keep     *)
(* them from ever becoming too large.                                        *)
TotalsNeverOverstate ==
    /\ config.total_shares <= SumTo(SharesHeld, MaxVows)
    /\ config.total_yield_claims <= SumTo(ClaimsHeld, MaxVows)
    /\ config.total_pending_unstake <= SumTo(DebtsHeld, MaxVows)

(* Once advance-mint-counter.ts came to its end on a config, the counter is  *)
(* past every identity, so that mint can go on, whatever was minted or set   *)
(* while the script ran and later; the script counts the identities, so this *)
(* needs that their numbering had no gap when it did.                        *)
CounterPastIdentities ==
    config_live /\ advanced => \A n \in idents : n < config.total_minted

(* What the escrows are owed, whatever the config says.                      *)
Debts == SumTo(DebtsHeld, MaxVows)

(* complete_unstake.rs:70 "If reserve is short, each unstaker gets their     *)
(* proportional share": a payout does not lower the reserve per lamport of   *)
(* the claims that are pending.  The share is computed from the total of the *)
(* config, which a second initialize resets while the escrows live on.       *)
ShortageShared ==
    [][ (\E n \in Nonces : escrow[n].live /\ ~escrow'[n].live) =>
          \/ reserve >= Debts /\ reserve' >= Debts'
          \/ reserve' * Debts >= reserve * Debts' ]_allVars
=============================================================================
