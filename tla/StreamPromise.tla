---------------------------- MODULE StreamPromise ---------------------------
(***************************************************************************)
(* What the reliable stream of a connection promises (the comment that     *)
(* opens netserver.c): what the server writes reaches the client once, in  *)
(* order and without a gap, and the server gives nothing up before the     *)
(* client has it.  The only way the server ends an open connection is its  *)
(* own failure to send: a client that follows the protocol is never        *)
(* dropped for its acknowledgements.                                       *)
(***************************************************************************)
EXTENDS Integers

VARIABLES
  fate,      \* "open", or "send error" once the server has given up
  written,   \* the stream is 1, 2, ..., written
  delivered, \* what the client has accepted, a function on 1..n
  released   \* how much the server has given up, being acknowledged

vars == <<fate, written, delivered, released>>

\* The stream up to n.
Prefix(n) == [i \in 1..n |-> i]

Init ==
  /\ fate = "open"
  /\ written = 0
  /\ delivered = Prefix(0)
  /\ released = 0

Append ==
  /\ fate = "open"
  /\ written' \in Nat /\ written' > written
  /\ UNCHANGED <<fate, delivered, released>>

\* Datagrams on their way arrive after a failure, too.
Deliver ==
  /\ \E m, n \in 0..written : m < n /\ delivered = Prefix(m) /\ delivered' = Prefix(n)
  /\ UNCHANGED <<fate, written, released>>

Release ==
  /\ fate = "open"
  /\ \E m, n \in 0..written : released < n /\ n <= m /\ delivered = Prefix(m) /\ released' = n
  /\ UNCHANGED <<fate, written, delivered>>

Fail ==
  /\ fate = "open"
  /\ fate' = "send error"
  /\ UNCHANGED <<written, delivered, released>>

Next == Append \/ Deliver \/ Release \/ Fail

Spec == Init /\ [][Next]_vars
=============================================================================
