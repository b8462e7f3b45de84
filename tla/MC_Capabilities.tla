-------------------------- MODULE MC_Capabilities --------------------------
\* What lets in a bearer who holds it: short codes, catalog tokens, the states
\* of a cloud link.  They share nothing: a behavior is about one of them, and
\* the values a1 and a2, or b1 and b2, stand for what it has two of.
EXTENDS ShortCodes, CatalogTokens, OAuthLinks, TLC
CONSTANTS a1, a2, b1, b2, q1, r1, r2, r3, dropbox, drive, kobo
TwoOfA == {a1, a2}
TwoOfB == {b1, b2}
OneRequest == {q1}
ThreeRequests == {r1, r2, r3}
BothProviders == {dropbox, drive}
OneReader == {kobo}
OneOrNoLimit == {1, Unlimited}
Symmetry == Permutations(TwoOfA) \cup Permutations(TwoOfB)

VARIABLE bearer  \* which of them the behavior is about
vars == <<bearer, CodeVars, TokenVars, OAuthVars>>

Init == bearer \in {"codes", "tokens", "links"} /\ CodeInit /\ TokenInit /\ OAuthInit
Next ==
  \/ bearer = "codes"  /\ CodeNext  /\ UNCHANGED <<bearer, TokenVars, OAuthVars>>
  \/ bearer = "tokens" /\ TokenNext /\ UNCHANGED <<bearer, CodeVars, OAuthVars>>
  \/ bearer = "links"  /\ OAuthNext /\ UNCHANGED <<bearer, CodeVars, TokenVars>>
Spec == Init /\ [][Next]_vars

\* A code whose file was sent, and a state that came back, let nobody in again:
\* see LaterRequestsRefused and SingleUse.
UsedOnce ==
  CodeTypeOK /\ TokenTypeOK /\ OAuthTypeOK /\ LaterRequestsRefused /\ SingleUse
=============================================================================
