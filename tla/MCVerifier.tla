----------------------------- MODULE MCVerifier -----------------------------
(***************************************************************************)
(* A small instance of Verifier: a few tokens and two threads, for the     *)
(* replay cache.                                                           *)
(***************************************************************************)
EXTENDS Verifier, MCTokens, TLC

CONSTANTS t1, t2, j2, j3

MCVerifierTrust ==
    [domains |-> dA :> [jwks |-> <<[kid |-> "k", key |-> KeyA]>>, ca_store |-> NONE],
     expected_audience |-> {audX}]

\* Replay: j2 with two expiries, and the cache fills up with a token that
\* expires or with one that outlasts the clock, while others are presented.
ReplayPresentations ==
    {Present("JWT_SVID", Token(Payload(GcoA, e, j), KeyA), GcoA) :
        <<e, j>> \in {<<1, j1>>, <<2, j2>>, <<3, j2>>, <<3, j3>>, <<3, NONE>>}}

\* The specification and its properties treat the threads alike.
ThreadSymmetry == Permutations({t1, t2})
=============================================================================
