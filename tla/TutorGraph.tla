----------------------------- MODULE TutorGraph -----------------------------
(***************************************************************************)
(* The tutor's graph (app/ai/tutor/graph.py) with the action subgraph it     *)
(* shares with the admin's (app/ai/core/action/nodes.py).                   *)
(*                                                                         *)
(* A walk is at a node, about to run it.  Each node is an operator from a   *)
(* walk to the walks it may leave behind: models, guards, searches and      *)
(* decision services answer as they like, within what the node accepts.     *)
(* "END" has no node; at "paused" the graph has raised its interrupt.       *)
(***************************************************************************)
EXTENDS Naturals

CONSTANTS
    MaxRewrites,    \* rag_max_rewrite_loops
    MaxTurns        \* how often the agent may call tools before LangGraph's
                    \* recursion limit ends the walk

ASSUME GraphAssumption == MaxRewrites \in Nat /\ MaxTurns \in Nat \ {0}

RagNodes == {"load_memory", "summarize", "retrieve", "grade_documents",
             "rewrite_question", "rerank", "generate_answer", "ground_answer"}
ActionNodes == {"action_agent", "action_tools", "inspect_action_tools",
                "await_action_approval", "execute_action", "action_outcome"}
TutorNodes == {"classify_intent", "chitchat", "sql_agent", "remember"} \cup RagNodes \cup ActionNodes

\* docs: documents kept or found; skip: skip_rewrite; text: the reply has text so far.
Walk == [node : TutorNodes \cup {"pick_domain", "END", "paused", "failed"},
         docs : BOOLEAN, skip : BOOLEAN, rewrites : 0 .. MaxRewrites,
         turns : 0 .. MaxTurns, text : BOOLEAN]

Fresh == [node |-> "classify_intent", docs |-> FALSE, skip |-> FALSE, rewrites |-> 0,
          turns |-> 0, text |-> FALSE]

Go(walk, node) == [walk EXCEPT !.node = node]
\* A node whose message ends up in the reply: it may be empty, and then what was
\* said before stands.
Speak(walk, node) == {[Go(walk, node) EXCEPT !.text = said] : said \in {walk.text, TRUE}}

-----------------------------------------------------------------------------
(* The action subgraph *)

ActionAgent(walk) ==
    UNION {Speak(walk, "action_outcome"),
           IF walk.turns < MaxTurns
           THEN {[w EXCEPT !.turns = @ + 1] : w \in Speak(walk, "action_tools")}
           ELSE {Go(walk, "failed")}}

ActionTools(walk) == {Go(walk, "inspect_action_tools")}

\* A read answers at once.  A change is checked, and answers a proposal or what is wrong
\* with it; nothing is written before its approval.  A blocked call is an error as well.
ReadAnswers == {"data", "error"}
ChangeAnswers == {"proposal", "error"}

InspectActionTools(walk, answers) ==
    {Go(walk, IF a = "proposal" THEN "await_action_approval" ELSE "action_agent") : a \in answers}

AwaitActionApproval(walk) == {Go(walk, "paused")}
AfterApproval(walk, approved) == Go(walk, IF approved THEN "execute_action" ELSE "action_outcome")
ExecuteAction(walk) == {Go(walk, "action_outcome")}

\* Whether a node makes the approved change: the tier, the arguments and the service it
\* calls are asked again, and a refusal is a result like any other.
CarriesOut(walk) == IF walk.node = "execute_action" THEN BOOLEAN ELSE {FALSE}

\* Speaks only of a decision, and there is none when the agent just answered.
ActionOutcome(walk) == {Go(walk, "remember")}

-----------------------------------------------------------------------------
(* Answering *)

NodeOf == [chitchat |-> "chitchat", sql |-> "sql_agent", action |-> "action_agent",
           rag |-> "load_memory"]
\* A word, the classifier or, when it is unsure or down, a model names one of these.
Intents == {"chitchat", "sql", "rag", "action"}
ClassifyIntent(walk, routes) == {Go(walk, NodeOf[r]) : r \in routes \cap Intents}

Chitchat(walk) == Speak(walk, "remember")
SqlAgent(walk) == {[Go(walk, "remember") EXCEPT !.text = TRUE]}

LoadMemory(walk) == {Go(walk, "summarize")}
Summarize(walk) == {Go(walk, "retrieve")}
Retrieve(walk) ==
    {[Go(walk, "grade_documents") EXCEPT !.docs = found, !.skip = FALSE] : found \in BOOLEAN}

\* Only found documents are kept; whether to rewrite is asked when none is, and an
\* answer that does not come is a yes.
DocsKept(walk) == {FALSE, walk.docs}
Skips(walk) == IF walk.rewrites < MaxRewrites THEN BOOLEAN ELSE {FALSE}
GradeDocuments(walk) ==
    {[walk EXCEPT !.docs = kept, !.skip = skip] : kept \in DocsKept(walk), skip \in Skips(walk)}
\* Mutant: rewrites are not counted against their limit.
RouteWhileEmpty(walk) == IF walk.docs \/ walk.skip THEN "rerank" ELSE "rewrite_question"

RouteAfterGrade(walk) ==
    IF walk.docs \/ walk.skip \/ walk.rewrites >= MaxRewrites THEN "rerank"
    ELSE "rewrite_question"
Graded(walk) == {Go(w, RouteAfterGrade(w)) :
                    w \in {v \in GradeDocuments(walk) : v.docs => ~v.skip}}

RewriteQuestion(walk) ==
    {[Go(walk, "retrieve") EXCEPT !.rewrites = @ + 1, !.skip = FALSE]}
Rerank(walk) == {Go(walk, "generate_answer")}
GenerateAnswer(walk) == Speak(walk, "ground_answer")
GroundAnswer(walk) == {Go(walk, "remember")}
Remember(walk) == {Go(walk, "END")}

\* The graph as it is wired.
TutorStep(walk, routes) ==
    CASE walk.node = "classify_intent" -> ClassifyIntent(walk, routes)
      [] walk.node = "chitchat" -> Chitchat(walk)
      [] walk.node = "sql_agent" -> SqlAgent(walk)
      [] walk.node = "load_memory" -> LoadMemory(walk)
      [] walk.node = "summarize" -> Summarize(walk)
      [] walk.node = "retrieve" -> Retrieve(walk)
      [] walk.node = "grade_documents" -> Graded(walk)
      [] walk.node = "rewrite_question" -> RewriteQuestion(walk)
      [] walk.node = "rerank" -> Rerank(walk)
      [] walk.node = "generate_answer" -> GenerateAnswer(walk)
      [] walk.node = "ground_answer" -> GroundAnswer(walk)
      [] walk.node = "action_agent" -> ActionAgent(walk)
      [] walk.node = "action_tools" -> ActionTools(walk)
      [] walk.node = "inspect_action_tools" -> InspectActionTools(walk, ReadAnswers \cup ChangeAnswers)
      [] walk.node = "await_action_approval" -> AwaitActionApproval(walk)
      [] walk.node = "execute_action" -> ExecuteAction(walk)
      [] walk.node = "action_outcome" -> ActionOutcome(walk)
      [] walk.node = "remember" -> Remember(walk)
=============================================================================
