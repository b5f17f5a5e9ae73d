----------------------- MODULE MCRegulatoryIssuances -----------------------
EXTENDS RegulatoryIssuances, TLC
CONSTANTS i1, i2, d1, d2, u1, u2, f1, r1, r2

MCSymmetry == Permutations(Requests)

\* An official link and a mere reference.
MCLinks == {[kind |-> "official_external", url |-> u1], [kind |-> "reference_link", url |-> u2]}

MCForms == {[life |-> "draft", appl |-> "pending_review", doms |-> {}, url |-> None, amend |-> None],
            [life |-> "active", appl |-> "applicable", doms |-> {d1}, url |-> u1, amend |-> i1]}

\* Forms that change one thing, one that moves two, one that carries a decision.
MCEdits == {[reason |-> TRUE, life |-> "active"], [reason |-> TRUE, life |-> "superseded"],
            [reason |-> FALSE, life |-> "draft"], [reason |-> FALSE, appl |-> "not_applicable"],
            [reason |-> FALSE, doms |-> {d2}], [reason |-> FALSE, doms |-> {d1, d2}],
            [reason |-> FALSE, url |-> None], [reason |-> FALSE, url |-> u2],
            [reason |-> FALSE, amend |-> None], [reason |-> FALSE, amend |-> i2],
            [reason |-> FALSE, dec |-> "included", url |-> u1]}

Plain == [life |-> "active", appl |-> "applicable", dec |-> "pending", active |-> TRUE,
          url |-> None, amend |-> None, name |-> None]

\* An active issuance nobody decided on, with a second one in draft; and an
\* included one that lives on its uploaded copy, amended by the second.
MCStarts ==
  {[row |-> (i1 :> Plain @@ i2 :> [Plain EXCEPT !.life = "draft", !.active = FALSE]),
    blob |-> [i \in Issuances |-> None], doms |-> (i1 :> {d1} @@ i2 :> {}),
    domain |-> (d1 :> "active" @@ d2 :> "inactive"), src |-> [i \in Issuances |-> {}], rel |-> {}, made |-> 1],
   [row |-> (i1 :> [Plain EXCEPT !.dec = "included", !.name = f1] @@
             i2 :> [Plain EXCEPT !.life = "superseded", !.active = FALSE, !.dec = "excluded", !.amend = i1]),
    blob |-> (i1 :> f1 @@ i2 :> None), doms |-> (i1 :> {d1} @@ i2 :> {d1}),
    domain |-> (d1 :> "active" @@ d2 :> "absent"),
    src |-> (i1 :> {[id |-> 1, kind |-> "uploaded_copy", url |-> None, file |-> f1,
                     primary |-> TRUE, verified |-> FALSE]} @@ i2 :> {}),
    rel |-> {[from |-> i2, to |-> i1, type |-> "amends"]}, made |-> 1],
   [row |-> [i \in Issuances |-> None], blob |-> [i \in Issuances |-> None],
    doms |-> [i \in Issuances |-> {}], domain |-> (d1 :> "active" @@ d2 :> "absent"),
    src |-> [i \in Issuances |-> {}], rel |-> {}, made |-> 1]}
=============================================================================
