---------------------------- MODULE VowSessions ----------------------------
(***************************************************************************)
(* Sessions over the core: the owner of an identity gives the key of an    *)
(* application the right to spend the yield balance, within limits per day *)
(* and per session; authority profiles hold default limits, and the app    *)
(* registry holds the programs the admin blocked.                          *)
(*                                                                         *)
(* The core's instructions run unchanged beside the ones below: a stake    *)
(* cycle that ends and starts again while sessions exist is the difficult  *)
(* case, and so is a day that ends between two spends.                     *)
(***************************************************************************)
EXTENDS VowCore, FiniteSets

CONSTANTS
    Slots,          \* session indices the owners use
    Programs,       \* executable programs that may call yield_spend
    ProgramLists,   \* allowed_program_ids arguments of create_session
    SessionParams,  \* SessionParams arguments of create_session
    ProfileIds,     \* profile_id arguments
    NoProfile,      \* create_session without an authority profile
    ProfileParams,  \* AuthorityProfileParams arguments
    SpendAmounts,   \* arguments of yield_spend
    MaxSessions,    \* bound: sessions one identity creates
    MaxTxs          \* bound: transactions of a session in one day

ASSUME SessionAssumption ==
    /\ \A list \in ProgramLists : list \subseteq Programs
    /\ SessionParams \subseteq
          [expiry_ts : Nat, daily_limit : Nat, lifetime_limit : Nat, velocity_limit : Nat]
    /\ NoProfile \notin ProfileIds
    /\ ProfileParams \subseteq
          [default_daily_limit : Nat, default_lifetime_limit : Nat, default_expiry_days : Nat]
    /\ SpendAmounts \subseteq YieldAmounts \cup {0}
    /\ MaxSessions \in Nat /\ MaxTxs \in Nat

VARIABLES
    session_nonce,  \* VowState.session_nonce of each identity
    sessions,       \* the SessionAccount of each identity and slot
    profiles,       \* the AuthorityProfile of each wallet and profile id
    apps,           \* the AppRegistry account of each program
    paid,           \* history: what the session in each slot really spent,
                    \* and in which commitment it was created
    issued          \* history: the nonces of all sessions of each identity,
                    \* the closed ones included

sessionVars == <<session_nonce, sessions, profiles, apps, paid, issued>>
allVars == <<vars, sessionVars>>

(* session_key stands for whoever holds it; an empty `allowed' is the       *)
(* program_count of zero, which allows every program.                       *)
SessionAccount ==
    [live : BOOLEAN, allowed : SUBSET Programs, creation_nonce : Nat,
     start_ts : Nat, expiry_ts : Nat,
     daily_limit : Nat, lifetime_limit : Nat, velocity_limit : Nat,
     spent_today : Nat, spent_total : Nat, tx_count_today : Nat,
     last_reset_day : Nat, active : BOOLEAN]

NoSession ==
    [live |-> FALSE, allowed |-> {}, creation_nonce |-> 0, start_ts |-> 0,
     expiry_ts |-> 0, daily_limit |-> 0, lifetime_limit |-> 0,
     velocity_limit |-> 0, spent_today |-> 0, spent_total |-> 0,
     tx_count_today |-> 0, last_reset_day |-> 0, active |-> FALSE]

(* The default programs and the metadata of a profile are stored, and no    *)
(* instruction reads them.                                                  *)
AuthorityProfile ==
    [live : BOOLEAN, default_daily_limit : Nat, default_lifetime_limit : Nat,
     default_expiry_days : Nat]

NoAuthorityProfile ==
    [live |-> FALSE, default_daily_limit |-> 0, default_lifetime_limit |-> 0,
     default_expiry_days |-> 0]

AppRegistry == [live : BOOLEAN, verified : BOOLEAN, blocked : BOOLEAN]

(* The history of a slot: lamports and transactions of one calendar day,    *)
(* lamports of the whole session, and the commitment it was created in.     *)
NoPayments == [cycle |-> 0, day |-> 0, today |-> 0, txs |-> 0, total |-> 0]

Payments == [cycle : Nat, day : Nat, today : Nat, txs : Nat, total : Nat]

Today == now \div DAY

SessionInit ==
    /\ Init
    /\ session_nonce = [n \in Nonces |-> 0]
    /\ sessions = [n \in Nonces |-> [i \in Slots |-> NoSession]]
    /\ profiles = [w \in Wallets |-> [p \in ProfileIds |-> NoAuthorityProfile]]
    /\ apps = [p \in Programs |-> [live |-> FALSE, verified |-> FALSE, blocked |-> FALSE]]
    /\ paid = [n \in Nonces |-> [i \in Slots |-> NoPayments]]
    /\ issued = [n \in Nonces |-> {}]

-----------------------------------------------------------------------------
(* create_authority_profile, update_authority_profile and                   *)
(* close_authority_profile, by the wallet the profile belongs to.           *)
SetProfile(w, p, params) ==
    /\ profiles' = [profiles EXCEPT ![w][p] =
                      [live                   |-> TRUE,
                       default_daily_limit    |-> params.default_daily_limit,
                       default_lifetime_limit |-> params.default_lifetime_limit,
                       default_expiry_days    |-> params.default_expiry_days]]
    /\ UNCHANGED <<vars, session_nonce, sessions, apps, paid, issued>>

CreateAuthorityProfile(w, p, params) ==
    /\ ~profiles[w][p].live
    /\ SetProfile(w, p, params)

UpdateAuthorityProfile(w, p, params) ==
    /\ profiles[w][p].live
    /\ SetProfile(w, p, params)

CloseAuthorityProfile(w, p) ==
    /\ profiles[w][p].live
    /\ profiles' = [profiles EXCEPT ![w][p] = NoAuthorityProfile]
    /\ UNCHANGED <<vars, session_nonce, sessions, apps, paid, issued>>

(* register_app, by anyone, once; verify_app and block_app, by the admin.   *)
RegisterApp(program) ==
    /\ ~apps[program].live
    /\ apps' = [apps EXCEPT ![program] =
                  [live |-> TRUE, verified |-> FALSE, blocked |-> FALSE]]
    /\ UNCHANGED <<vars, session_nonce, sessions, profiles, paid, issued>>

VerifyApp(program) ==
    /\ apps[program].live
    /\ apps' = [apps EXCEPT ![program].verified = TRUE]
    /\ UNCHANGED <<vars, session_nonce, sessions, profiles, paid, issued>>

BlockApp(program) ==
    /\ apps[program].live
    /\ apps' = [apps EXCEPT ![program].blocked = TRUE]
    /\ UNCHANGED <<vars, session_nonce, sessions, profiles, paid, issued>>

-----------------------------------------------------------------------------
(* The parameters of a new session: a profile of the owner fills in the     *)
(* expiry and the limits that are left at zero, except the velocity limit.  *)
WithDefaults(params, profile) ==
    [params EXCEPT
        !.expiry_ts      = IF @ = 0 THEN now + profile.default_expiry_days * DAY ELSE @,
        !.daily_limit    = IF @ = 0 THEN profile.default_daily_limit ELSE @,
        !.lifetime_limit = IF @ = 0 THEN profile.default_lifetime_limit ELSE @]

EffectiveParams(n, params, p) ==
    IF p = NoProfile THEN params ELSE WithDefaults(params, profiles[vow[n].owner][p])

(* The nonce from which the client derives the key of the next session.     *)
NextSessionNonceKept(n) == session_nonce[n]

NextSessionNonce(n) == session_nonce[n] + 1

(* create_session: the owner of an active identity opens a free slot.        *)
CreateSession(n, i, allowed_program_ids, params, p) ==
    LET q == EffectiveParams(n, params, p)
    IN  /\ Cardinality(allowed_program_ids) <= 8
        /\ vow[n].active_stake
        /\ ~sessions[n][i].live
        /\ p # NoProfile => profiles[vow[n].owner][p].live
        /\ session_nonce[n] < MaxSessions
        /\ sessions' = [sessions EXCEPT ![n][i] =
                          [live |-> TRUE, allowed |-> allowed_program_ids,
                           creation_nonce |-> session_nonce[n],
                           start_ts |-> now, expiry_ts |-> q.expiry_ts,
                           daily_limit |-> q.daily_limit,
                           lifetime_limit |-> q.lifetime_limit,
                           velocity_limit |-> q.velocity_limit,
                           spent_today |-> 0, spent_total |-> 0,
                           tx_count_today |-> 0, last_reset_day |-> Today,
                           active |-> TRUE]]
        /\ session_nonce' = [session_nonce EXCEPT ![n] = NextSessionNonce(n)]
        /\ paid' = [paid EXCEPT ![n][i] =
                      [cycle |-> vow[n].total_commitments, day |-> Today,
                       today |-> 0, txs |-> 0, total |-> 0]]
        /\ issued' = [issued EXCEPT ![n] = @ \cup {session_nonce[n]}]
        /\ UNCHANGED <<vars, profiles, apps>>

(* revoke_session, by the owner, at any time.                                *)
RevokeSession(n, i) ==
    /\ sessions[n][i].live
    /\ sessions' = [sessions EXCEPT ![n][i].active = FALSE]
    /\ UNCHANGED <<vars, session_nonce, profiles, apps, paid, issued>>

(* close_session: the owner reclaims the account of a session that ended.    *)
CloseSession(n, i) ==
    LET s == sessions[n][i]
    IN  /\ s.live
        /\ \/ s.expiry_ts > 0 /\ now >= s.expiry_ts
           \/ ~s.active
           \/ s.start_ts <= vow[n].sessions_invalidated_at
           \/ ~vow[n].active_stake
        /\ sessions' = [sessions EXCEPT ![n][i] = NoSession]
        /\ paid' = [paid EXCEPT ![n][i] = NoPayments]
        /\ UNCHANGED <<vars, session_nonce, profiles, apps, issued>>

-----------------------------------------------------------------------------
(* A session outlives the commitment it was created in by no more than the   *)
(* second in which activate_stake or complete_unstake invalidated it.        *)
AlwaysFresh(n, i) == TRUE

Fresh(n, i) == sessions[n][i].start_ts >= vow[n].sessions_invalidated_at

(* The counters of the day restart with the first spend of a new day.        *)
ResetEveryLaterDay(s) ==
    IF Today > s.last_reset_day
    THEN [s EXCEPT !.spent_today = 0, !.tx_count_today = 0]
    ELSE s

reset_daily_if_needed(s) ==
    IF Today > s.last_reset_day
    THEN [s EXCEPT !.spent_today = 0, !.tx_count_today = 0, !.last_reset_day = Today]
    ELSE s

(* A limit of zero is no limit.                                              *)
WithinLimits(s, amount) ==
    /\ s.velocity_limit > 0 => s.tx_count_today < s.velocity_limit
    /\ s.daily_limit > 0 => s.spent_today + amount <= s.daily_limit
    /\ s.lifetime_limit > 0 => s.spent_total + amount <= s.lifetime_limit

(* What a spend takes: the amount leaves the yield balance, the total of the *)
(* claims and the reserve.                                                   *)
SpendYieldKeepingClaims(n, amount) ==
    /\ vow[n].yield_balance >= amount
    /\ reserve >= amount
    /\ RentOk(reserve - amount)
    /\ reserve' = reserve - amount
    /\ vow' = [vow EXCEPT ![n].yield_balance = @ - amount]
    /\ UNCHANGED <<config, idents, escrow, tokens, pool, now, epoch>>

SpendYield(n, amount) ==
    /\ vow[n].yield_balance >= amount
    /\ reserve >= amount
    /\ RentOk(reserve - amount)
    /\ reserve' = reserve - amount
    /\ vow' = [vow EXCEPT ![n].yield_balance = @ - amount]
    /\ config' = [config EXCEPT !.total_yield_claims = SatSub(@, amount)]
    /\ UNCHANGED <<idents, escrow, tokens, pool, now, epoch>>

(* The history after one more payment.                                       *)
PaidAfter(h, amount) ==
    [h EXCEPT !.day   = Today,
              !.today = (IF h.day = Today THEN @ ELSE 0) + amount,
              !.txs   = (IF h.day = Today THEN @ ELSE 0) + 1,
              !.total = @ + amount]

(* yield_spend, signed by the session key.  The registry entry of the        *)
(* program is an optional account: `blocked' counts when it is passed.       *)
YieldSpend(n, i, program, registry_passed, amount) ==
    LET s == reset_daily_if_needed(sessions[n][i])
    IN  /\ s.live
        /\ s.active
        /\ s.expiry_ts = 0 \/ now < s.expiry_ts
        /\ Fresh(n, i)
        /\ vow[n].active_stake
        /\ s.allowed # {} => program \in s.allowed
        /\ registry_passed => apps[program].live /\ ~apps[program].blocked
        /\ WithinLimits(s, amount)
        /\ s.tx_count_today < MaxTxs
        /\ SpendYield(n, amount)
        /\ sessions' = [sessions EXCEPT ![n][i] =
                          [s EXCEPT !.spent_today = @ + amount,
                                    !.spent_total = @ + amount,
                                    !.tx_count_today = @ + 1]]
        /\ paid' = [paid EXCEPT ![n][i] = PaidAfter(@, amount)]
        /\ UNCHANGED <<session_nonce, profiles, apps, issued>>

-----------------------------------------------------------------------------
SessionStep(n, i) ==
    \/ \E list \in ProgramLists, params \in SessionParams, p \in ProfileIds \cup {NoProfile} :
            CreateSession(n, i, list, params, p)
    \/ RevokeSession(n, i)
    \/ CloseSession(n, i)
    \/ \E program \in Programs, registry_passed \in BOOLEAN, amount \in SpendAmounts :
            YieldSpend(n, i, program, registry_passed, amount)

SessionNext ==
    \/ Next /\ UNCHANGED sessionVars
    \/ \E n \in idents, i \in Slots : SessionStep(n, i)
    \/ \E w \in Wallets, p \in ProfileIds :
          \/ \E params \in ProfileParams : CreateAuthorityProfile(w, p, params)
          \/ \E params \in ProfileParams : UpdateAuthorityProfile(w, p, params)
          \/ CloseAuthorityProfile(w, p)
    \/ \E program \in Programs :
          \/ RegisterApp(program)
          \/ VerifyApp(program)
          \/ BlockApp(program)

SessionSpec == SessionInit /\ [][SessionNext]_allVars

-----------------------------------------------------------------------------
(* Every account of the session layer holds values of its type.              *)
SessionTypeOK ==
    /\ session_nonce \in [Nonces -> Nat]
    /\ sessions \in [Nonces -> [Slots -> SessionAccount]]
    /\ profiles \in [Wallets -> [ProfileIds -> AuthorityProfile]]
    /\ apps \in [Programs -> AppRegistry]
    /\ paid \in [Nonces -> [Slots -> Payments]]
    /\ issued \in [Nonces -> SUBSET Nat]

(* What a session really paid in one calendar day and in all its life stays  *)
(* within the limits it was created with, and so does the number of its      *)
(* transactions in a day, wherever midnight falls between the spends         *)
(* (yield_spend, reset_daily_if_needed).                                     *)
SessionWithinLimits ==
    \A n \in Nonces, i \in Slots :
        LET s == sessions[n][i]
            h == paid[n][i]
        IN  s.live =>
              /\ s.daily_limit > 0 => h.today <= s.daily_limit
              /\ s.velocity_limit > 0 => h.txs <= s.velocity_limit
              /\ s.lifetime_limit > 0 => h.total <= s.lifetime_limit

(* session_account.rs:25 "ensures unique keys even when an index slot is     *)
(* reused": a new session never gets the nonce of an earlier session of the  *)
(* identity, be that one live, revoked or closed long ago, so that no key    *)
(* the client derived before signs for it (create_session).                  *)
SessionKeysNeverReused ==
    [][ \A n \in Nonces, i \in Slots :
          ~sessions[n][i].live /\ sessions'[n][i].live =>
              sessions'[n][i].creation_nonce \notin issued[n] ]_allVars

(* The step is a spend of the session in slot i.                             *)
Spends(n, i) ==
    sessions[n][i].live /\ sessions'[n][i].live /\ paid'[n][i] # paid[n][i]

(* A session spends in the commitment it was created in only; the one        *)
(* exception is a session created in the very second in which the stake was  *)
(* given up and renewed (yield_spend.rs:84 compares seconds).                *)
SpendsInOwnCommitment ==
    [][ \A n \in Nonces, i \in Slots :
          Spends(n, i) =>
              \/ paid[n][i].cycle = vow[n].total_commitments
              \/ sessions[n][i].start_ts = vow[n].sessions_invalidated_at ]_allVars

(* README.md:90 "Sessions are invalidated automatically when the user calls  *)
(* `activate_stake` or `complete_unstake`": a session of an earlier          *)
(* commitment never takes a lamport.  The code keeps it up to one second.    *)
InvalidatedSessionsNeverSpend ==
    [][ \A n \in Nonces, i \in Slots :
          Spends(n, i) /\ paid'[n][i].total > paid[n][i].total =>
              paid[n][i].cycle = vow[n].total_commitments ]_allVars

(* The session layer adds no way to move lamports or claims that the core    *)
(* does not have: a spend is a withdrawal of yield, all the rest stutters.   *)
(* With it, what is proved of the core holds with sessions as well.          *)
ImplementsCore == Spec
=============================================================================
