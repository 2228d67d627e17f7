--------------------------- MODULE MCAccessTokens ---------------------------
(* Instances of AccessTokens for TLC. *)
EXTENDS AccessTokens, TLC

CONSTANTS Mine, Yours  \* the devices of two users

AllDevices == Mine \cup Yours
OwnerOf == [d \in AllDevices |-> IF d \in Mine THEN "me" ELSE "you"]
Symmetry == Permutations(Mine) \cup Permutations(Yours)
=============================================================================
