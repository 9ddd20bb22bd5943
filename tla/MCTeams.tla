-------------------------------- MODULE MCTeams --------------------------------
(***************************************************************************)
(* One run for the components of the Teams plugin that share no state with *)
(* one another: `scene` chooses the one that moves, and the others stay    *)
(* where they start.  Their states and properties are told apart by their  *)
(* names; the escalations have runs of their own.                          *)
(***************************************************************************)
EXTENDS ApprovalCards, Asks, ChannelPosts, BotTurns, GraphRoster, Delivery, Digest, TLC

VARIABLE scene

cardVars == <<approvalVars, askVars, postVars, turnVars>>
serviceVars == <<graphVars, deliveryVars, digestVars>>
teamsVars == <<cardVars, serviceVars, scene>>

TeamsInit ==
  /\ ApprovalInit /\ AskInit /\ PostInit /\ TurnInit
  /\ GraphInit /\ DeliveryInit /\ DigestInit
  /\ scene \in {"approvals", "asks", "posts", "turns", "graph", "delivery", "digest"}

TeamsNext ==
  /\ \/ /\ \/ scene = "approvals" /\ ApprovalNext /\ UNCHANGED <<askVars, postVars, turnVars>>
           \/ scene = "asks" /\ AskNext /\ UNCHANGED <<approvalVars, postVars, turnVars>>
           \/ scene = "posts" /\ PostNext /\ UNCHANGED <<approvalVars, askVars, turnVars>>
           \/ scene = "turns" /\ TurnNext /\ UNCHANGED <<approvalVars, askVars, postVars>>
        /\ UNCHANGED serviceVars
     \/ /\ \/ scene = "graph" /\ GraphNext /\ UNCHANGED <<deliveryVars, digestVars>>
           \/ scene = "delivery" /\ DeliveryNext /\ UNCHANGED <<graphVars, digestVars>>
           \/ scene = "digest" /\ DigestNext /\ UNCHANGED <<graphVars, deliveryVars>>
        /\ UNCHANGED cardVars
  /\ UNCHANGED scene

TeamsSpec == TeamsInit /\ [][TeamsNext]_teamsVars

\* Only the digest's events: they are interchangeable, and so halve its states.
Symmetry == Permutations(Events)

\* Type correctness of the component that moves.
TeamsTypeOK ==
  CASE scene = "approvals" -> ApprovalTypeOK
    [] scene = "asks"      -> AskTypeOK
    [] scene = "posts"     -> PostTypeOK
    [] scene = "turns"     -> TurnTypeOK
    [] scene = "graph"     -> GraphTypeOK
    [] scene = "delivery"  -> DeliveryTypeOK
    [] scene = "digest"    -> DigestTypeOK

\* What Teams shows is what is on record: no approval's card shows another verdict
\* than Paperclip's, and no ask's card another outcome than the store's (the
\* handlers of bot.ts update the cards after the fact, in any order).
CardsTrue == VerdictTrue /\ AskCardTrue

===============================================================================
