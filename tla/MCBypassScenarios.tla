------------------------- MODULE MCBypassScenarios -------------------------
(***************************************************************************)
(* One run of BypassSwitch over several kinds of traffic: the constraint   *)
(* keeps each behaviour to the packets and the bounds of one of the plays. *)
(***************************************************************************)
EXTENDS MCBypass, SequencesExt

Plays == [
    cut        |-> CutDialogue,
    second     |-> SecondViewer,
    neighbours |-> Neighbours,
    reconnect  |-> BriefDialogueAndChannels]

AllPlays == UNION {Plays[s] : s \in DOMAIN Plays}

\* Only the play with two channels also reconnects.
Reconnects(s) == IF s = "reconnect" THEN 1 ELSE 0

\* What a state shows of its past belongs to one play, or the behaviour is cut off:
\* its packets, the hosts that have sent, and heads kept, which only cut segments are.
OnePlay ==
    LET packets == {p \in delivered \cup ToSet(toCtl) : ~IsNotice(p)}
    IN  \E s \in DOMAIN Plays :
            /\ reconnects <= Reconnects(s) /\ packets \subseteq Plays[s]
            /\ DOMAIN macToPort \subseteq {p.src : p \in Plays[s]}
            /\ prepend_buf # "none" => s = "cut"
=============================================================================
