---------------------------- MODULE MCShortcutNode ----------------------------
(***************************************************************************)
(* ShortcutNode with a lease and its renewal for one selector, and         *)
(* channels of one or two messages, so that both can be full.              *)
(***************************************************************************)
EXTENDS ShortcutNode

CONSTANTS s1, s2, hub, local

MCTicket(session, issued_at, expires_at) ==
    [session |-> session, selector |-> "x",
     issuer |-> hub, recipient |-> local, remote |-> hub,
     issued_at |-> issued_at, renew_at |-> issued_at + 1, expires_at |-> expires_at,
     well_formed |-> TRUE]

MCTickets == {MCTicket(s1, 0, 2), MCTicket(s2, 1, 3)}
MCSelector == {"x"}
MCSession == {s1, s2}
===============================================================================
