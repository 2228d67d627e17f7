---------------------------- MODULE RefreshTokens ----------------------------
(***************************************************************************)
(* What the session service promises about refresh tokens, with no cache,  *)
(* no requests and no clock: a device holds at most one current token; a   *)
(* token is generated once; only the current token of a device can be      *)
(* exchanged, and the exchange replaces it.  Ended sessions stay ended     *)
(* until the next login: their token is good for one more exchange, which  *)
(* a request may have had under way, and the new token for none.           *)
(***************************************************************************)
EXTENDS Integers

CONSTANTS Devices, MaxToken

VARIABLES
    current,    \* the token a device can refresh with; NoToken before its first login
    exchanged,  \* <<old, new>> for every exchange so far
    generated,  \* the tokens generated so far
    ended,      \* the devices whose session has been ended since their login
    reprieved   \* those whose token was exchanged after that

tokenVars == <<current, exchanged, generated, ended, reprieved>>

NoToken == 0
Token   == 1..MaxToken

Init ==
    /\ current = [d \in Devices |-> NoToken]
    /\ exchanged = {}
    /\ generated = {}
    /\ ended = {}
    /\ reprieved = {}

Generate(t) ==
    /\ t \notin generated
    /\ generated' = generated \cup {t}

\* A login discards the device's token, if any, for a new one.
Open(d, t) ==
    /\ Generate(t)
    /\ current' = [current EXCEPT ![d] = t]
    /\ ended' = ended \ {d}
    /\ reprieved' = reprieved \ {d}
    /\ UNCHANGED exchanged

\* A refresh exchanges the device's token for a new one.
Exchange(d, t) ==
    /\ current[d] # NoToken
    /\ d \notin reprieved
    /\ Generate(t)
    /\ current' = [current EXCEPT ![d] = t]
    /\ exchanged' = exchanged \cup {<<current[d], t>>}
    /\ reprieved' = reprieved \cup (ended \cap {d})
    /\ UNCHANGED ended

\* Some sessions are ended; their tokens stay what they are.
End(ds) ==
    /\ ended' = ended \cup ds
    /\ UNCHANGED <<current, exchanged, generated, reprieved>>

Next ==
    \/ \E d \in Devices, t \in Token : Open(d, t) \/ Exchange(d, t)
    \/ \E ds \in SUBSET Devices : End(ds)

Spec == Init /\ [][Next]_tokenVars

-----------------------------------------------------------------------------
\* Type invariant.
TokensTypeOK ==
    /\ current \in [Devices -> Token \cup {NoToken}]
    /\ exchanged \in SUBSET (Token \X Token)
    /\ generated \in SUBSET Token
    /\ ended \in SUBSET Devices

\* A token is exchanged at most once.
SingleExchange == \A p, q \in exchanged : p[1] = q[1] => p = q

\* A token that has been exchanged is no device's current token, and no two
\* devices share one.
CurrentIsUnspent ==
    /\ \A d \in Devices, p \in exchanged : current[d] # p[1]
    /\ \A d, e \in Devices : current[d] # NoToken /\ current[d] = current[e] => d = e

\* The inductive strengthening: everything in use was generated.
Known ==
    /\ \A d \in Devices : current[d] # NoToken => current[d] \in generated
    /\ \A p \in exchanged : p[1] \in generated

\* The reprieve is for ended sessions.
ReprieveIsLast == reprieved \subseteq ended

TokensInv == TokensTypeOK /\ Known /\ CurrentIsUnspent /\ SingleExchange /\ ReprieveIsLast
=============================================================================
