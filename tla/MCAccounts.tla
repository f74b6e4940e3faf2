----------------------------- MODULE MCAccounts -----------------------------
(* Small instances of Accounts for TLC. *)
EXTENDS Accounts

CONSTANTS d1, d2, u1, u2, u3

Budget(ds, ms, bs, f, s, l, k) ==
  [devices |-> ds, members |-> ms, blanks |-> bs, forms |-> f, sessions |-> s,
   lists |-> l, kills |-> k]

\* Two sign-ups that overtake one another, next to a user who has a name; two
\* members who block, on one device and on two; and a sign-up amid blocking.
MCBudgets ==
  {Budget({d1}, {u1}, BOOLEAN, 2, 0, 0, 1),
   Budget({d1, d2}, {u1, u2}, {FALSE}, 0, 2, 2, 1),
   Budget({d1}, {u1, u2}, {FALSE}, 1, 1, 2, 0)}
=============================================================================
