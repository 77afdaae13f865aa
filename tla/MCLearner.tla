----------------------------- MODULE MCLearner -----------------------------
(* Learner with small sets; the rows follow from them. *)
EXTENDS Learner

MCRows == {Progress, Earned} \cup {Attempt(a) : a \in Exits \cup Sets} \cup XpRows
          \cup {QuestSet(d) : d \in Days} \cup {Today(d) : d \in Days}
MCMixes == {{"start", "save"}, {"start", "submit", "after"}, {"start", "submit", "save"},
            {"sets", "submit", "after", "restart"}, {"dashboard", "submit", "sets"},
            {"sets", "submit", "after", "quests", "cards"}, {"dashboard", "quiz"},
            {"start", "submit", "save", "quiz", "after", "time", "reap", "serial"},
            {"sets", "submit", "after", "fail", "night", "serial"},
            {"sets", "submit", "dashboard", "quiz", "night", "serial"}}

Alike == Permutations(Workers) \cup Permutations(Exits) \cup Permutations(Sets)
         \cup Permutations(Questions) \cup Permutations(Checks)
         \cup Permutations(PlanIds)
=============================================================================
