----------------------------- MODULE MCSendPath -----------------------------
EXTENDS SendPath, TLC

CONSTANTS a, b, s1, s2, e1, e2

OneSession == a :> s1 @@ b :> s1
Single == a :> s1
OneEngine == s1 :> e1
TwoEngines == s1 :> e1 @@ s2 :> e2
=============================================================================
