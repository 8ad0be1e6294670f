---------------------------- MODULE CallCharges -----------------------------
(***************************************************************************)
(* What the paid-call ledger promises about one provider call, phases and  *)
(* amounts aside.  A call is planned, then sent at most once.  A call that *)
(* was sent is answered (its cost is then known) or is owed; calls whose   *)
(* lease lapses together are freed if they were never sent and owed if     *)
(* they were.  What is owed is settled once, by an administrator; what is  *)
(* charged or free never changes again.                                    *)
(***************************************************************************)
CONSTANT Calls

VARIABLE charge

TypeOK == charge \in [Calls -> {"idle", "planned", "sent", "owed", "charged", "free"}]

\* The cutover may leave calls of a known or an unknown cost behind.
Init == charge \in [Calls -> {"idle", "owed", "charged"}]

Plan(c) ==
  /\ charge[c] = "idle"
  /\ charge' = [charge EXCEPT ![c] = "planned"]

Send(c) ==
  /\ charge[c] = "planned"
  /\ charge' = [charge EXCEPT ![c] = "sent"]

Drop(c) ==
  /\ charge[c] = "planned"
  /\ charge' = [charge EXCEPT ![c] = "free"]

Answer(c) ==
  /\ charge[c] = "sent"
  /\ \E answer \in {"owed", "charged", "free"} :
       charge' = [charge EXCEPT ![c] = answer]

Lapse(S) ==
  /\ \A c \in S : charge[c] \in {"planned", "sent"}
  /\ charge' = [c \in Calls |->
                  IF c \notin S THEN charge[c]
                  ELSE IF charge[c] = "sent" THEN "owed" ELSE "free"]

Resolve(c) ==
  /\ charge[c] = "owed"
  /\ \E decision \in {"charged", "free"} :
       charge' = [charge EXCEPT ![c] = decision]

Next ==
  \/ \E c \in Calls :
       \/ Plan(c)
       \/ Send(c)
       \/ Drop(c)
       \/ Answer(c)
       \/ Resolve(c)
  \/ \E S \in SUBSET Calls : Lapse(S)

Spec == Init /\ [][Next]_charge
=============================================================================
