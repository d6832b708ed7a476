----------------------------- MODULE MCSpecApply -----------------------------
EXTENDS SpecApply

CONSTANTS a, b, r1, r2, d1, c1

Has(items, k, n) == \E i \in items : i.k = k /\ i.n = n

Stored(items, k, n, d) ==
    LET i == CHOOSE j \in items : j.k = k /\ j.n = n
    IN  [uid |-> <<n, 1>>, rv |-> 1, by |-> d, spec |-> i.spec, status |-> i.status]

StoreOf(theirs, own) ==
    [k \in Kind |-> [n \in Name |->
        IF Has(theirs, k, n) THEN Stored(theirs, k, n, d1)
        ELSE IF Has(own, k, n) THEN Stored(own, k, n, None)
        ELSE None]]

PlanA ==
    {Item("env", a, Content(1, {a}, 0), "none"),
     Item("pkg", a, Content(1, {}, 0), "none"),
     Item("fn", a, Content(Pool, {a}, 1), "none"),
     Item("http", a, Content(r1, {a}, 0), "none"),
     Item("time", a, Content(1, {a}, 0), "none"),
     Item("watch", a, Content(1, {a}, 0), "none"),
     Item("mq", a, Content(1, {a}, 0), "none")}

PlanB ==
    {Item("pkg", a, Content(2, {}, 0), "pending"),
     Item("fn", a, Content(Pool, {a}, 1), "none"),
     Item("watch", a, Content(1, {a}, 0), "none"),
     Item("mq", a, Content(2, {a}, 0), "none")}

(* The HTTP trigger of PlanA with another function.                        *)
PlanC ==
    {Item("pkg", a, Content(1, {}, 0), "none"),
     Item("fn", a, Content(Pool, {a}, 1), "none"),
     Item("fn", b, Content(Pool, {a}, 1), "none"),
     Item("http", a, Content(r1, {b}, 0), "none")}

(* Refused: a function without its package, a resource given twice.        *)
PlanD == {Item("fn", a, Content(Pool, {b}, 1), "none")}

PlanE ==
    {Item("pkg", a, Content(1, {}, 0), "none"),
     Item("pkg", a, Content(2, {}, 0), "pending")}

(* A package without the function that a deployment has for it.            *)
PlanF == {Item("pkg", a, Content(2, {}, 0), "none")}

FromCommands ==
    {Item("pkg", b, Content(1, {}, 0), "succeeded"),
     Item("fn", b, Content(Pool, {b}, 1), "none"),
     Item("http", b, Content(r2, {a, b}, 0), "none"),
     Item("canary", a, Content(1, {b}, 0), "none")}

MCPlans == {PlanA, PlanB, PlanD, PlanE, PlanF}

MCStores == {StoreOf({}, {}), StoreOf(PlanA, FromCommands)}

MCPlansChanged == {PlanA, PlanC}

MCStoresEmpty == {StoreOf({}, {})}

=============================================================================
