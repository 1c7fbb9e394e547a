----------------------------- MODULE MCNemotron -----------------------------
EXTENDS Nemotron

Case(mode, path, prompts, gens, stop, think) ==
  [mode |-> mode, path |-> path, prompts |-> prompts, gens |-> gens, stop |-> stop, think |-> think]
One(n) == <<n>>

\* every mode and path, with and without a thinking budget; the paged
\* self-speculation with a budget of zero is left out, because MarkerInTime fails
\* there (MCZeroBudget shows it)
MCCases ==
  {c \in {Case(m, p, One(2), One(g), One(s), t) :
            m \in {"block", "spec"}, p \in {"dense", "batch", "online"},
            g \in {0, 4}, s \in BOOLEAN, t \in {-1, 0, 2}} :
     /\ ~(c.mode = "spec" /\ c.path = "batch" /\ c.think = 0)
     /\ c.path = "online" => c.gens[1] > 0}
  \cup {Case("spec", "online", <<1>>, <<9>>, <<FALSE>>, t) : t \in {-1, 3}}
  \cup {Case("spec", p, <<1, 2>>, <<2, 1>>, <<TRUE, FALSE>>, -1) : p \in {"dense", "batch", "online"}}

\* its first block is drafted without the marker (nemotron/fa4.py)
MCZeroBudget == {Case("spec", "batch", One(1), One(6), One(FALSE), 0)}
=============================================================================
