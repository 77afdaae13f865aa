----------------------------- MODULE AdminGraph -----------------------------
(***************************************************************************)
(* The admin assistant's graph (app/ai/admin/graph.py): the action subgraph  *)
(* behind a choice of domains, with chitchat beside it.                     *)
(***************************************************************************)
EXTENDS TutorGraph

AdminNodes == {"classify_intent", "chitchat", "pick_domain"} \cup ActionNodes

AdminClassify(walk, routes) ==
    {Go(walk, n) : n \in (IF "chitchat" \in routes THEN {"chitchat"} ELSE {})
                         \cup (IF "action" \in routes THEN {"pick_domain"} ELSE {})}
AdminChitchat(walk) == Speak(walk, "END")

\* Always a domain: "dashboard" when nothing else is found.
PickDomain(walk) == {Go(walk, "action_agent")}

\* Without a tool for this admin the agent says so.
AdminAgent(walk) == ActionAgent(walk) \cup {[Go(walk, "action_outcome") EXCEPT !.text = TRUE]}
\* The console's services behind tools: reads run, changes become proposals.
AdminAnswers == {"data", "error", "proposal"}
AdminOutcome(walk) == {Go(walk, "END")}

AdminStep(walk, routes) ==
    CASE walk.node = "classify_intent" -> AdminClassify(walk, routes)
      [] walk.node = "chitchat" -> AdminChitchat(walk)
      [] walk.node = "pick_domain" -> PickDomain(walk)
      [] walk.node = "action_agent" -> AdminAgent(walk)
      [] walk.node = "action_tools" -> ActionTools(walk)
      [] walk.node = "inspect_action_tools" -> InspectActionTools(walk, AdminAnswers)
      [] walk.node = "await_action_approval" -> AwaitActionApproval(walk)
      [] walk.node = "execute_action" -> ExecuteAction(walk)
      [] walk.node = "action_outcome" -> AdminOutcome(walk)
=============================================================================
