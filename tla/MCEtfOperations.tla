--------------------------- MODULE MCEtfOperations ---------------------------
(***************************************************************************)
(* One session of two slots.  execute() takes its locks before anything    *)
(* else, so two controllers are never at work together and one stands for  *)
(* any number of them, each started after the last has died or ended.      *)
(*                                                                         *)
(* Two constraints drop behaviours that show nothing new: after the last   *)
(* operation has begun, a preview nobody used and a switch that only an    *)
(* admission would read; and a staged file that is broken before there is  *)
(* an observation, which answers what a closed account does.               *)
(*                                                                         *)
(* The acceptance of what such operations leave is a function, checked for *)
(* every history of up to four receipts over five days, one a holiday.     *)
(***************************************************************************)
EXTENDS EtfOperations, EtfEvidence

CONSTANTS p1

MCOneDay == {1}

WhatIsReadMatters ==
    Len(ops) = MaxOps =>
      /\ enabled
      /\ plan # NoPlan => ops[MaxOps].action # "tick" /\ plan.action # "pending"
BrokenMatters ==
    health = "broken" => \E d \in Days : native[d] = "completed"

AcceptanceSessions == {1, 2, 4, 5}
Receipts == [day : AcceptanceSessions, version : {1, 2}, credit : BOOLEAN]
Histories ==
    {h \in BoundedSeq(Receipts, 4) :
        \A i, k \in DOMAIN h : i < k => h[i].day <= h[k].day}

ASSUME AcceptanceChecked ==
    \A h \in Histories, today \in {4, 5}, required \in {1, 2, 3} :
        (\A i \in DOMAIN h : h[i].day <= today) =>
            /\ PassedMeansInARow(h, AcceptanceSessions, today, required)
            /\ SessionsAreAccounted(h, AcceptanceSessions, today)
=============================================================================
