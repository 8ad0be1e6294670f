------------------------ MODULE MCGenerationSession ------------------------
EXTENDS GenerationSession, TLC

CONSTANTS k1, k2, p0, s1, s2, s3, p1, p2, w1, w2

\* Two builds (epochs) of the same report in one cost scope.
OneScope == k1 :> w1 @@ k2 :> w1

TwoAgainstOne == s1 :> k1 @@ s2 :> k1 @@ s3 :> k2

SameKey == s1 :> k1 @@ s2 :> k1

\* s1 and s2 are alike.
Peers == Permutations({s1, s2})

NoRequests == [p \in {} |-> s1]

\* Two requests for one report prepare the same input, under a key and in a
\* scope of its own.
ScopeEach == k1 :> w1 @@ p0 :> w2

PreparedSame == SameKey @@ p1 :> p0 @@ p2 :> p0

TwoRequests == p1 :> s1 @@ p2 :> s2
============================================================================
