------------------------------ MODULE MCKeyTrans ------------------------------
(***************************************************************************)
(* The instances of KeyTransparency and KeyTransCheck that TLC checks.  A  *)
(* behaviour is one of the client's data for a key or one of the checks of *)
(* an account; whichever does not move stays in its initial state.         *)
(***************************************************************************)
EXTENDS KeyTransparency

CONSTANTS Checks, Modes, E164s, Usernames, MaxLog, MaxChecks

VARIABLES entries, discoverable, stored, distinguished, check, started, done

checkVars == <<entries, discoverable, stored, distinguished, check, started, done>>

Account == INSTANCE KeyTransCheck WITH log <- entries

\* Only checks of a contact overlap, and then they ask for the same, for both fields.
Situations ==
    \A c, d \in Checks :
        c # d /\ check[c].phase # "idle" /\ check[d].phase # "idle"
            => /\ check[c].req = check[d].req /\ check[c].req.mode = "contact"
               /\ \A f \in Account!Fields : check[c].req.keys[f] # << >>

KeyTransInit == Init /\ Account!Init

KeyTransNext ==
    \/ Account!Init /\ stored = << >> /\ Next /\ UNCHANGED checkVars
    \/ Init /\ Account!Next /\ UNCHANGED vars /\ Situations'

KeyTransSpec == KeyTransInit /\ [][KeyTransNext]_<<vars, checkVars>>

CheckSymmetry == Permutations(Checks) \union Permutations(E164s)

-----------------------------------------------------------------------------
(* The properties of KeyTransCheck, in these behaviours                    *)

\* Whatever happened between the requests of a check, every mapping that is stored
\* was seen with the expected value: monitoring never moves a field on to a
\* version that was not looked up (verify_ext.rs, check_equal).
StoredFieldsVerified == Account!StoredFieldsVerified

\* A check that succeeds has monitoring data for every field it was asked about,
\* except for the own number while it is not discoverable (remove_missing).
SuccessIsComplete == Account!SuccessIsComplete

===============================================================================
