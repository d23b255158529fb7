------------------------------- MODULE Offer -------------------------------
(***************************************************************************)
(* What a transfer promises its two users, without frames, sequence        *)
(* numbers or sockets: nothing is stored unless the receiving user grants  *)
(* the offer, nothing is reported complete unless all that was offered is  *)
(* stored, and the sender does not claim success of an offer that was not  *)
(* granted.                                                                *)
(***************************************************************************)
CONSTANT Files

VARIABLES
    phase,      \* the offer as the receiving task sees it
    offered,    \* the files of the offer
    stored,     \* the files stored with all their bytes
    claimed     \* the sender has reported Finished

offerVars == <<phase, offered, stored, claimed>>

Phase == {"quiet", "asked", "granted", "refused", "complete", "broken"}

OfferInit ==
    phase = "quiet" /\ offered = {} /\ stored = {} /\ claimed = FALSE

(* The sender may still make an offer that nobody will be asked about. *)
Propose(files) ==
    /\ phase \in {"quiet", "broken"} /\ offered = {}
    /\ offered' = files
    /\ UNCHANGED <<phase, stored, claimed>>

Move(from, to) ==
    /\ phase \in from /\ phase' = to
    /\ UNCHANGED <<offered, stored, claimed>>

Ask == offered # {} /\ Move({"quiet"}, "asked")
Grant == Move({"asked"}, "granted")
Refuse == Move({"asked"}, "refused")
Break == Move({"quiet", "asked", "granted"}, "broken")
Complete == offered \subseteq stored /\ Move({"granted"}, "complete")

Store(f) ==
    /\ phase = "granted" /\ f \in offered
    /\ stored' = stored \cup {f}
    /\ UNCHANGED <<phase, offered, claimed>>

Claim ==
    /\ phase \in {"granted", "complete", "broken"}
    /\ claimed' = TRUE
    /\ UNCHANGED <<phase, offered, stored>>

OfferNext ==
    \/ \E files \in SUBSET Files : Propose(files)
    \/ Ask \/ Grant \/ Refuse \/ Break \/ Complete \/ Claim
    \/ \E f \in Files : Store(f)

OfferSpec == OfferInit /\ [][OfferNext]_offerVars
=============================================================================
