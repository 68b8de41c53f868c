----------------------------- MODULE MCMigration -----------------------------
(* Instances of Migration small enough for TLC.                             *)
EXTENDS Migration, TLC

CONSTANTS p1, p2, d1, d2, n1, n2

Row(id, d) == [id |-> id, digest |-> d]
Link(f, n) == [flowchart |-> f, project |-> n]
OldJob(j, f) == [id |-> j, flowchart |-> f]

\* A digest once; twins that race left, one of them with the largest id; three rows
\* of a digest around another's; and a row without a digest beside them.
MCOldDatastores ==
    {[flowcharts |-> {Row(1, d1)}, links |-> {Link(1, n1)}, jobs |-> {OldJob(1, 1)}],
     [flowcharts |-> {Row(1, d1), Row(2, d1)},
      links |-> {Link(1, n1), Link(2, n1), Link(2, n2)},
      jobs |-> {OldJob(1, 2)}],
     [flowcharts |-> {Row(1, d1), Row(2, Null), Row(3, d1), Row(4, d1)},
      links |-> {Link(3, n1), Link(2, n2)},
      jobs |-> {OldJob(1, 3)}]}

MCOldColumns == {{"path"}, {"conceptdoi", "flowchart_metadata"}}

Ask(j, d, n) == [job |-> j, digest |-> d, projects |-> {n}]

MCRequests == {Ask(2, d1, n1), Ask(2, d2, n2), Ask(3, d2, n1), Ask(3, Null, n2)}

Symmetry == Permutations(Registrant)

=============================================================================
