---------------------------- MODULE MCDeclarations ----------------------------
(* Declarations with all structs and no subs, or with the first struct and  *)
(* all subs: what the two loops do is together too much for one run.        *)
EXTENDS Declarations

ManyStructs ==
  /\ include = [m \in 1..Modules |-> <<>>]
  /\ extern = {}
  /\ param = [s \in Sub |-> Text]
  /\ commented = {}

ManySubs ==
  /\ members \in {m \in [Struct -> Lists] : \A s \in Struct : Len(m[s]) <= IF s = 1 THEN 1 ELSE 0}
  /\ textual \in {0, 1}
  /\ param \in [Sub -> {Text, 1}]

MCInit ==
  \/ ManyStructs /\ Init /\ InitDeclarations
  \/ ManySubs /\ Init /\ InitDeclarations

MCSpec == MCInit /\ [][NextAll]_allvars /\ WF_allvars(DeclareStructs)
=============================================================================
