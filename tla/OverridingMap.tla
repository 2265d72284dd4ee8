---------------------------- MODULE OverridingMap ----------------------------
(***************************************************************************)
(* What a table of defaults promises: for each key a value that the        *)
(* program has set and one that the user has, of which the user's counts.  *)
(***************************************************************************)
CONSTANTS Key, Value,
          NoValue   \* NULL

VARIABLES default, user

vars == <<default, user>>

Values == [Key -> Value \cup {NoValue}]

Init == default = [k \in Key |-> NoValue] /\ user = default

Effective(k) == IF user[k] # NoValue THEN user[k] ELSE default[k]

Set(k, v) == default' = [default EXCEPT ![k] = v] /\ UNCHANGED user

\* The user's first word is final.
SetByUser(k, v) == /\ user[k] = NoValue
                   /\ user' = [user EXCEPT ![k] = v] /\ UNCHANGED default

ForgetUser == user' = [k \in Key |-> NoValue] /\ UNCHANGED default

Forget == default' = [k \in Key |-> NoValue] /\ user' = default'

Next == \/ \E k \in Key : (\E v \in Value \cup {NoValue} : Set(k, v)) \/ (\E v \in Value : SetByUser(k, v))
        \/ ForgetUser \/ Forget

Spec == Init /\ [][Next]_vars
=============================================================================
