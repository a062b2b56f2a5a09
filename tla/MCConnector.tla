---------------------------- MODULE MCConnector -----------------------------
(***************************************************************************)
(* Values of the connector's constants for TLC.                            *)
(***************************************************************************)
EXTENDS Connector, TLC

\* A token so short-lived that half of its lifetime does not cover the time
\* its answer may take, one to be used once, one whose lifetime the vendor
\* does not tell (the default holds), and one promised beyond the cap, of
\* which the vendor keeps what the cap lets the connector believe.
MCAnswers == {[expiresIn |-> 1, life |-> 1], [expiresIn |-> 0, life |-> 1],
              [expiresIn |-> Omitted, life |-> 2], [expiresIn |-> 3, life |-> 2]}

CallersAreAlike == Permutations(Callers)
=============================================================================
