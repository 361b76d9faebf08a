-------------------------- MODULE MCShortcutEndpoint --------------------------
(***************************************************************************)
(* ShortcutEndpoint with three leases on two selectors: s1 and s2 are a    *)
(* lease and its renewal for the same selector, s3 covers the other one.   *)
(* Times are scaled down: a poll every 2, leases of at most 4.             *)
(***************************************************************************)
EXTENDS ShortcutEndpoint

CONSTANTS s1, s2, s3, hub, local

MCTicket(session, selector, issued_at, expires_at) ==
    [session |-> session, selector |-> selector,
     issuer |-> hub, recipient |-> local, remote |-> hub,
     issued_at |-> issued_at, renew_at |-> issued_at + 1, expires_at |-> expires_at,
     well_formed |-> TRUE]

\* The last three are refused: a lease that is too long, one issued too far in
\* the future of the first seconds, one for another node.
MCTickets ==
    {MCTicket(s1, "x", 0, 3), MCTicket(s2, "x", 2, 5), MCTicket(s3, "y", 1, 4),
     MCTicket(s3, "y", 0, 7), MCTicket(s2, "x", 4, 6),
     [MCTicket(s1, "x", 0, 3) EXCEPT !.recipient = hub]}

MCSelector == {"x", "y"}
MCSession == {s1, s2, s3}
===============================================================================
