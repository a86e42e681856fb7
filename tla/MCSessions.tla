----------------------------- MODULE MCSessions -----------------------------
(***************************************************************************)
(* VowSessions for model checking.  A session may spend three lamports in  *)
(* its life and make two transactions a day; from a profile it inherits a   *)
(* daily limit of two lamports and an expiry after two days.  So each limit *)
(* is reached by the sum of several spends of one and two lamports.         *)
(***************************************************************************)
EXTENDS VowSessions, MCInstances

Params(expiry, daily, lifetime, velocity) ==
    [expiry_ts |-> expiry, daily_limit |-> daily, lifetime_limit |-> lifetime,
     velocity_limit |-> velocity]

MCSessionParams == {Params(0, 0, 3, 2)}
MCOpenParams    == {Params(0, 0, 0, 0)}

MCProfileParams ==
    {[default_daily_limit |-> 2, default_lifetime_limit |-> 0, default_expiry_days |-> 2]}
=============================================================================
