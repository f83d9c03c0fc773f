------------------------------ MODULE MCWebAuth ------------------------------
(***************************************************************************)
(* One page with two requests at a time, for checking WebAuth.tla; and, as *)
(* other behaviours, two exchanges of clients that present whatever tokens *)
(* were issued, for checking SessionChains.tla where refreshes of several  *)
(* tabs overlap.                                                           *)
(***************************************************************************)
EXTENDS SessionChains

CONSTANTS p1, s1, s2

MCPages == {p1}
MCSlots == {s1, s2}
MCExchanges == MCPages \cup MCSlots
MCPageOf == [s \in MCSlots |-> p1]

VARIABLE shipped  \* whether the client is the shipped one

\* A client presents any token, on an exchange that is free, or takes an answer.
\* Bound: with the endpoints that touch sessions; no access token is used.
AnyClient(x) ==
  /\ \/ at[x] = "none" /\ \E c \in {"login", "refresh", "logout"}, t \in 0..issued :
          /\ c = "login" => t = NoToken
          /\ c # "login" => t # NoToken
          /\ Send(x, c, t)
     \/ at[x] \in Answers /\ Settle(x)
  /\ UNCHANGED <<server, failures, cookie, page, slot, left>>

MCNext ==
  /\ \/ shipped /\ Next
     \/ /\ ~ shipped
        /\ (\E x \in Slots : Handle(x) \/ Fail(x)) \/ Cleanup
        /\ UNCHANGED <<cookie, page, slot, left>>
     \/ ~ shipped /\ \E x \in Slots : AnyClient(x)
  /\ Observe
  /\ UNCHANGED shipped

MCInit == Init /\ HistoryInit /\ shipped \in BOOLEAN

MCSpec ==
  /\ MCInit
  /\ [][MCNext]_<<vars, history, shipped>>
  /\ Fairness

\* The shipped client alone.
MCShippedInit == MCInit /\ shipped

MCShippedSpec ==
  /\ MCShippedInit
  /\ [][MCNext]_<<vars, history, shipped>>
=============================================================================
