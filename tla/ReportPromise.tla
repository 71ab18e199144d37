---------------------------- MODULE ReportPromise ----------------------------
(***************************************************************************)
(* What a report stream promises the browser, with nothing about how the   *)
(* report is made: first it is settled whom the report is about; then the  *)
(* browser receives one report per person, in any order and never two for  *)
(* one; then the stream ends, with COMPLETE when nobody is missing, or,    *)
(* before any report was delivered, with ERROR.  When the browser hangs up *)
(* the promise ends with it.                                               *)
(***************************************************************************)
EXTENDS FiniteSets

CONSTANT User

VARIABLES promised,   \* whom the report is about
          delivered,  \* whose reports the browser received
          phase,      \* "open", or how the stream ended
          client      \* "connected" or "gone"

vars == <<promised, delivered, phase, client>>

Init == /\ promised = {}
        /\ delivered = {}
        /\ phase = "open"
        /\ client = "connected"

Open == phase = "open" /\ client = "connected"

Settle(S) == /\ Open
             /\ delivered = {}
             /\ promised' = S
             /\ UNCHANGED <<delivered, phase, client>>

Deliver(u) == /\ Open
              /\ u \in promised \ delivered
              /\ delivered' = delivered \cup {u}
              /\ UNCHANGED <<promised, phase, client>>

Finish == /\ Open
          /\ delivered = promised
          /\ phase' = "complete"
          /\ UNCHANGED <<promised, delivered, client>>

Refuse == /\ Open
          /\ delivered = {}
          /\ phase' = "error"
          /\ UNCHANGED <<promised, delivered, client>>

HangUp == /\ client = "connected"
          /\ client' = "gone"
          /\ UNCHANGED <<promised, delivered, phase>>

(* After a hang-up nothing reaches the browser; whom the report would have *)
(* been about may still be settled, unseen.                                *)
SettleUnseen(S) == /\ client = "gone"
                   /\ delivered = {}
                   /\ phase = "open"
                   /\ promised' = S
                   /\ UNCHANGED <<delivered, phase, client>>

Next == \/ \E S \in SUBSET User : Settle(S) \/ SettleUnseen(S)
        \/ \E u \in User : Deliver(u)
        \/ Finish \/ Refuse \/ HangUp

Spec == Init /\ [][Next]_vars

(* The stream of a browser that stays does end: every behaviour has to     *)
(* close it, by one of its two endings, or lose its browser.               *)
FairSpec == Spec /\ <>(phase # "open" \/ client = "gone")
=============================================================================
