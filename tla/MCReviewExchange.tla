-------------------------- MODULE MCReviewExchange --------------------------
\* Reviews 1 and 2 say the same, 3 says otherwise.
EXTENDS ReviewExchange

MCDigest == {1, 2}
MCMaterial == [d \in MCDigest |-> d > 1]
=============================================================================
