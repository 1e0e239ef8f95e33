------------------------- MODULE MCHttpAcquisition -------------------------
(* A job from its beginning, or two jobs that publish into one destination; *)
(* a direct artifact and an archive; archives that vary the end record, the *)
(* directory or the members.                                                *)
EXTENDS HttpAcquisition, TLC

CONSTANTS j1, j2, o1, o2

MCJobs == {j1, j2}
MCStarts == {(j1 :> "idle" @@ j2 :> "failed"), (j1 :> "prechecking" @@ j2 :> "prechecking")}
MCArtifacts == <<[archive |-> FALSE, outputs |-> {o1}], [archive |-> TRUE, outputs |-> {o2}]>>
MCOutputs == <<o1, o2>>

File(p, s, c) == [path |-> p, dir |-> FALSE, plain |-> TRUE, size |-> s, packed |-> c]
Dir(p) == [path |-> p, dir |-> TRUE, plain |-> TRUE, size |-> 0, packed |-> 0]

Sound == [length |-> 5, sigs |-> (3 :> 0), zip64 |-> "none", sentinel |-> FALSE,
          onedisk |-> TRUE, size |-> 2, entries |-> 2, records |-> <<1, 1>>,
          members |-> <<Dir(<<"d">>), File(<<"d", "f">>, 2, 1)>>]

SigSets == UNION {[d -> 0..2] : d \in SUBSET {1, 3}}
MCArchives ==
    {[Sound EXCEPT !.sigs = s] : s \in SigSets} \cup
    {[Sound EXCEPT !.records = r, !.entries = n, !.size = z, !.zip64 = q, !.sentinel = x] :
        r \in {<<1, 1>>, <<2>>}, n \in {1, 2, 3}, z \in {2, 3},
        q \in {"sound", "unsound"}, x \in BOOLEAN} \cup
    {[Sound EXCEPT !.members = m] : m \in
        {<<>>, <<Dir(<<"f">>)>>,
         <<File(<<"f">>, 1, 1), File(<<"d", "f">>, 1, 1)>>,
         <<File(<<"f">>, 1, 1), Dir(<<"f">>)>>,
         <<File(<<"d">>, 1, 1), Dir(<<"d", "e">>)>>,
         <<File(<<"f">>, 2, 1), File(<<"g">>, 2, 1)>>,
         <<File(<<"f">>, 3, 1)>>, <<File(<<"f">>, 1, 0)>>,
         <<File(<<"f">>, 1, 1), File(<<"g">>, 1, 1)>>,
         <<[File(<<"f">>, 1, 1) EXCEPT !.plain = FALSE]>>}}
=============================================================================
